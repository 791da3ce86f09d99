------------------------ MODULE WritePipelineProofs ------------------------
(***************************************************************************)
(* What holds of WritePipeline for any users, any size of the pipeline and *)
(* every bound: for any number of writes, failures and changes.            *)
(***************************************************************************)
EXTENDS WritePipeline, QueueLemmas, FiniteSetTheorems, TLAPS

(* The inductive invariant.                                                *)

\* Batches are stored in the order of their IDs, which is that of the writes.
Ascending(q) ==
    \A i, j \in DOMAIN q : i < j => q[i].id < q[j].id /\ q[i].write < q[j].write

QueuesInOrder ==
    \A u \in User :
        /\ Ascending(mutations[u])
        /\ \A i \in DOMAIN mutations[u] :
            mutations[u][i].id <= writes /\ mutations[u][i].write <= writes

\* The next ID is above those of the user's batches, and no ID was skipped
\* without a write: the largest ID of all queues exists, however many users.
NextIdIsNew ==
    /\ nextBatchId <= writes + 1
    /\ \A i \in DOMAIN mutations[user] : mutations[user][i].id < nextBatchId

\* As much of a queue as fits in the pipeline.
AtFront(p, q) ==
    /\ IsPrefix(p, q)
    /\ Len(p) <= MaxPendingWrites
    /\ Len(p) = MaxPendingWrites \/ p = q

PipelineFits == IF networkEnabled THEN AtFront(pipeline, mutations[user]) ELSE pipeline = <<>>

\* Who waits names a batch that is stored and the write in it.
WaitersStored ==
    \A n \in waiters :
        \E i \in DOMAIN mutations[user] :
            n.id = mutations[user][i].id /\ n.last = mutations[user][i].write

Messages(p) == [i \in DOMAIN p |-> Writing(p[i])]

\* What stream s has under way when the pipeline is p
UnderWay(s, p) ==
    IF s.state # "open" THEN <<>>
    ELSE IF ~s.handshake THEN <<Handshake>>
    ELSE Messages(p)

\* Stream s, pipeline p and the messages c to and w from the client agree: a
\* stream runs for a pipeline that is not empty, and is idle if it empties.
InStep(s, p, c, w) ==
    /\ c \o w = UnderWay(s, p)
    /\ s.handshake => s.state = "open"
    /\ s.idle => s.handshake /\ p = <<>>
    /\ IsStarted(s) /\ ~s.handshake => p # <<>>

StreamInStep ==
    /\ InStep(stream, pipeline, toClient, toServer)
    /\ stream.state # "open" => status = "open"
    /\ ~networkEnabled => ~IsStarted(stream)

\* The backend answers a write after it has committed it.
AnswersCommitted ==
    IsReady(stream) => \A i \in DOMAIN toClient : toClient[i].batch.write \in ToSet(log)

OutcomesToCome == \A w \in Write : w > writes => outcome[w] = "none"

CallbacksStored == \A u \in User : callbacks[u] \subseteq Ids(mutations[u])

\* What is stored, and who waits for it.
StoreInv ==
    /\ mutations \in [User -> Seq(Batch)]
    /\ user \in User
    /\ nextBatchId \in Nat \ {0}
    /\ callbacks \in [User -> SUBSET Nat]
    /\ waiters \subseteq [id : Nat, last : Write]
    /\ outcome \in [Write -> {"none", "accepted", "acknowledged", "rejected"}]
    /\ writes \in 0 .. MaxWrites
    /\ QueuesInOrder
    /\ NextIdIsNew
    /\ WaitersStored
    /\ CallbacksStored
    /\ OutcomesToCome

\* The pipeline, the stream and what it has under way.
LinkInv ==
    /\ networkEnabled \in BOOLEAN
    /\ pipeline \in Seq(Batch)
    /\ stream \in Stream
    /\ assertFailed = FALSE
    /\ toServer \in Seq(Message) /\ toClient \in Seq(Message)
    /\ status \in {"open", "transient", "permanent"}
    /\ log \in Seq(Write)
    /\ PipelineFits
    /\ StreamInStep
    /\ AnswersCommitted

BoundsInv == faults \in 0 .. MaxFaults /\ changes \in 0 .. MaxChanges

IInv == StoreInv /\ LinkInv /\ BoundsInv

-----------------------------------------------------------------------------
(* Queues.                                                                 *)

\* The batches of a queue after a prefix of it: what is not sent yet.
LEMMA UnsentProperties ==
    ASSUME NEW p \in Seq(Batch), NEW q \in Seq(Batch), Ascending(q), IsPrefix(p, q)
    PROVE  Unsent(p, q) = SubSeq(q, Len(p) + 1, Len(q))
<1>1. /\ Len(p) \in Nat /\ Len(q) \in Nat /\ DOMAIN q = 1 .. Len(q)
      /\ \A i \in 1 .. Len(q) : q[i].id \in Nat
  <2>1. \A i \in 1 .. Len(q) : q[i] \in Batch
    OBVIOUS
  <2> QED BY <2>1, LenProperties DEF Batch
<1>2. Len(p) <= Len(q) /\ \A i \in 1 .. Len(p) : p[i] = q[i]
  BY PrefixElements
<1>3. CASE p = <<>>
  <2>1. Len(p) = 0
    BY <1>3
  <2> QED BY <1>3, <2>1 DEF Unsent
<1>4. CASE p # <<>>
  <2>1. Len(p) \in 1 .. Len(q) /\ p[Len(p)] = q[Len(p)]
    <3>1. Len(p) # 0
      BY <1>4, EmptySeq
    <3> QED BY <1>1, <1>2, <3>1
  <2>2. \A i \in 1 .. Len(q) : q[i].id <= q[Len(p)].id <=> i <= Len(p)
    <3> SUFFICES ASSUME NEW i \in 1 .. Len(q)
                 PROVE  q[i].id <= q[Len(p)].id <=> i <= Len(p)
      OBVIOUS
    <3>1. i < Len(p) => q[i].id < q[Len(p)].id
      BY <1>1, <2>1 DEF Ascending
    <3>2. i > Len(p) => q[Len(p)].id < q[i].id
      BY <1>1, <2>1 DEF Ascending
    <3> QED BY <1>1, <2>1, <3>1, <3>2
  <2>3. {i \in DOMAIN q : q[i].id <= p[Len(p)].id} = 1 .. Len(p)
    BY <1>1, <2>1, <2>2
  <2>4. Cardinality(1 .. Len(p)) = Len(p)
    BY <1>1, <2>1, FS_Interval
  <2> QED BY <1>4, <2>3, <2>4 DEF Unsent
<1> QED BY <1>3, <1>4

\* Filling the pipeline takes the next batches of the queue, as many as fit.
LEMMA TakenProperties ==
    ASSUME NEW p \in Seq(Batch), NEW q \in Seq(Batch), Ascending(q), IsPrefix(p, q),
           Len(p) <= MaxPendingWrites
    PROVE  Taken(p, q) \in Seq(Batch) /\ AtFront(p \o Taken(p, q), q)
<1> DEFINE rest == SubSeq(q, Len(p) + 1, Len(q))
           m == IF Len(rest) < Room(p) THEN Len(rest) ELSE Room(p)
           t == Taken(p, q)
           n == Len(p) + m
<1>1. /\ Len(p) \in Nat /\ Len(q) \in Nat /\ MaxPendingWrites \in Nat
      /\ \A i \in 1 .. Len(q) : q[i] \in Batch
  BY PipelineAssumption
<1>2. Len(p) <= Len(q) /\ \A i \in 1 .. Len(p) : p[i] = q[i]
  BY PrefixElements
<1>3. t = SubSeq(rest, 1, m)
  BY UnsentProperties DEF Taken
<1>4. /\ rest \in Seq(Batch)
      /\ Len(rest) = Len(q) - Len(p)
      /\ \A i \in 1 .. Len(q) - Len(p) : rest[i] = q[Len(p) + i]
  <2>1. \A i \in Len(p) + 1 .. Len(q) : q[i] \in Batch
    BY <1>1
  <2>2. /\ rest \in Seq(Batch)
        /\ Len(rest) = IF Len(p) + 1 <= Len(q) THEN Len(q) - (Len(p) + 1) + 1 ELSE 0
        /\ \A i \in 1 .. Len(q) - (Len(p) + 1) + 1 : rest[i] = q[Len(p) + 1 + i - 1]
    BY <1>1, <2>1, SubSeqProperties
  <2> HIDE DEF rest
  <2>3. \A i \in 1 .. Len(q) - Len(p) : rest[i] = q[Len(p) + i]
    <3> SUFFICES ASSUME NEW i \in 1 .. Len(q) - Len(p)
                 PROVE  rest[i] = q[Len(p) + i]
      OBVIOUS
    <3>1. i \in 1 .. Len(q) - (Len(p) + 1) + 1 /\ Len(p) + 1 + i - 1 = Len(p) + i
      BY <1>1
    <3> QED BY <2>2, <3>1
  <2> QED BY <1>1, <1>2, <2>2, <2>3
<1> HIDE DEF rest, t
<1>5. /\ m \in 0 .. Len(q) - Len(p)
      /\ n <= MaxPendingWrites
      /\ n = MaxPendingWrites \/ n = Len(q)
  BY <1>1, <1>2, <1>4 DEF Room
<1> HIDE DEF m
<1>6. /\ t \in Seq(Batch)
      /\ Len(t) = m
      /\ \A i \in 1 .. m : t[i] = rest[i]
  <2>1. \A i \in 1 .. m : rest[i] \in Batch
    BY <1>1, <1>4, <1>5
  <2>2. /\ SubSeq(rest, 1, m) \in Seq(Batch)
        /\ Len(SubSeq(rest, 1, m)) = IF 1 <= m THEN m - 1 + 1 ELSE 0
        /\ \A i \in 1 .. m - 1 + 1 : SubSeq(rest, 1, m)[i] = rest[1 + i - 1]
    BY <1>5, <2>1, SubSeqProperties
  <2> QED BY <1>1, <1>3, <1>5, <2>2
<1>7. /\ p \o t \in Seq(Batch)
      /\ Len(p \o t) = n
      /\ \A i \in 1 .. n : (p \o t)[i] = IF i <= Len(p) THEN p[i] ELSE t[i - Len(p)]
  BY <1>6, ConcatProperties
<1>8. \A i \in 1 .. n : (p \o t)[i] = q[i]
  <2> SUFFICES ASSUME NEW i \in 1 .. n
               PROVE  (p \o t)[i] = q[i]
    OBVIOUS
  <2>1. CASE i <= Len(p)
    BY <1>1, <1>2, <1>7, <2>1
  <2>2. CASE i > Len(p)
    <3>1. i - Len(p) \in 1 .. m /\ Len(p) + (i - Len(p)) = i
      BY <1>1, <1>5, <2>2
    <3>2. t[i - Len(p)] = q[i]
      BY <1>1, <1>4, <1>5, <1>6, <3>1
    <3> QED BY <1>1, <1>7, <2>2, <3>2
  <2>3. i <= Len(p) \/ i > Len(p)
    <3>1. i \in Int /\ Len(p) \in Int
      BY <1>1, <1>5
    <3> QED BY <3>1
  <2> QED BY <2>1, <2>2, <2>3
<1>9. IsPrefix(p \o t, q)
  <2>1. Len(p \o t) <= Len(q)
    BY <1>1, <1>5, <1>7
  <2>2. \A i \in 1 .. Len(p \o t) : (p \o t)[i] = q[i]
    BY <1>7, <1>8
  <2> QED BY <1>7, <2>1, <2>2, PrefixElements
<1>10. n = Len(q) => p \o t = q
  BY <1>7, <1>8, SeqEqual
<1> QED BY <1>5, <1>6, <1>7, <1>9, <1>10 DEF AtFront, t

-----------------------------------------------------------------------------
(* Messages.                                                               *)

\* Handshakes and writes are messages.
LEMMA MessageTypes ==
    /\ Handshake \in Message
    /\ \A b \in Batch : Writing(b) \in Message /\ Writing(b) # Handshake
BY DEF Message, Writing, Handshake

\* A pipeline is written batch by batch.
LEMMA MessagesProperties ==
    ASSUME NEW p \in Seq(Batch)
    PROVE  /\ Messages(p) \in Seq(Message)
           /\ Len(Messages(p)) = Len(p)
           /\ \A i \in 1 .. Len(p) : Messages(p)[i] = Writing(p[i])
<1>1. Len(p) \in Nat /\ DOMAIN p = 1 .. Len(p) /\ \A i \in 1 .. Len(p) : p[i] \in Batch
  OBVIOUS
<1>2. Messages(p) \in [1 .. Len(p) -> Message]
  BY <1>1, MessageTypes DEF Messages
<1>3. Messages(p) \in Seq(Message)
  BY <1>1, <1>2, SeqDef
<1>4. \A i \in 1 .. Len(p) : Messages(p)[i] = Writing(p[i])
  BY <1>1 DEF Messages
<1>5. DOMAIN Messages(p) = 1 .. Len(p)
  BY <1>2
<1>6. Len(Messages(p)) = Len(p)
  BY <1>1, <1>3, <1>5, LenProperties
<1> QED BY <1>3, <1>4, <1>6

LEMMA MessagesOfConcat ==
    ASSUME NEW p \in Seq(Batch), NEW t \in Seq(Batch)
    PROVE  Messages(p \o t) = Messages(p) \o Messages(t)
<1> DEFINE a == Messages(p \o t)
           mp == Messages(p)
           mt == Messages(t)
           b == mp \o mt
<1>1. Len(p) \in Nat /\ Len(t) \in Nat
  OBVIOUS
<1>2. /\ p \o t \in Seq(Batch) /\ Len(p \o t) = Len(p) + Len(t)
      /\ \A i \in 1 .. Len(p) + Len(t) : (p \o t)[i] = IF i <= Len(p) THEN p[i] ELSE t[i - Len(p)]
  BY ConcatProperties
<1>3. /\ a \in Seq(Message) /\ Len(a) = Len(p) + Len(t)
      /\ \A i \in 1 .. Len(p) + Len(t) : a[i] = Writing((p \o t)[i])
  <2>1. /\ a \in Seq(Message) /\ Len(a) = Len(p \o t)
        /\ \A i \in 1 .. Len(p \o t) : a[i] = Writing((p \o t)[i])
    BY <1>2, MessagesProperties
  <2> HIDE DEF a
  <2> QED BY <1>2, <2>1
<1>4. /\ mp \in Seq(Message) /\ Len(mp) = Len(p)
      /\ \A i \in 1 .. Len(p) : mp[i] = Writing(p[i])
  BY MessagesProperties
<1>5. /\ mt \in Seq(Message) /\ Len(mt) = Len(t)
      /\ \A i \in 1 .. Len(t) : mt[i] = Writing(t[i])
  BY MessagesProperties
<1> HIDE DEF a, mp, mt
<1>6. /\ b \in Seq(Message) /\ Len(b) = Len(p) + Len(t)
      /\ \A i \in 1 .. Len(p) + Len(t) : b[i] = IF i <= Len(p) THEN mp[i] ELSE mt[i - Len(p)]
  <2>1. /\ b \in Seq(Message) /\ Len(b) = Len(mp) + Len(mt)
        /\ \A i \in 1 .. Len(mp) + Len(mt) : b[i] = IF i <= Len(mp) THEN mp[i] ELSE mt[i - Len(mp)]
    <3>1. mp \in Seq(Message) /\ mt \in Seq(Message)
      BY <1>4, <1>5
    <3> QED BY <3>1, ConcatProperties
  <2> HIDE DEF b
  <2> QED BY <1>4, <1>5, <2>1
<1>7. ASSUME NEW i \in 1 .. Len(p) + Len(t)
      PROVE  a[i] = b[i]
  <2>1. CASE i <= Len(p)
    <3>1. i \in 1 .. Len(p)
      BY <1>1, <2>1
    <3> QED BY <1>2, <1>3, <1>4, <1>6, <2>1, <3>1
  <2>2. CASE ~(i <= Len(p))
    <3>1. i - Len(p) \in 1 .. Len(t)
      BY <1>1, <2>2
    <3> QED BY <1>2, <1>3, <1>5, <1>6, <2>2, <3>1
  <2> QED BY <2>1, <2>2
<1> HIDE DEF b
<1>8. a = b
  BY <1>3, <1>6, <1>7, SeqEqual
<1> QED BY <1>8 DEF a, b, mp, mt

LEMMA MessagesOfTail ==
    ASSUME NEW p \in Seq(Batch), p # <<>>
    PROVE  /\ Messages(p) # <<>>
           /\ Head(Messages(p)) = Writing(Head(p))
           /\ Tail(Messages(p)) = Messages(Tail(p))
<1>1. /\ Len(p) \in Nat \ {0} /\ Head(p) = p[1] /\ Tail(p) \in Seq(Batch)
      /\ Len(Tail(p)) = Len(p) - 1
      /\ \A i \in 1 .. Len(p) - 1 : Tail(p)[i] = p[i + 1]
  BY TailElements
<1> DEFINE a == Messages(p)
           b == Messages(Tail(p))
<1>2. a \in Seq(Message) /\ Len(a) = Len(p) /\ \A i \in 1 .. Len(p) : a[i] = Writing(p[i])
  BY MessagesProperties
<1>3. /\ b \in Seq(Message) /\ Len(b) = Len(p) - 1
      /\ \A i \in 1 .. Len(p) - 1 : b[i] = Writing(Tail(p)[i])
  <2>1. /\ b \in Seq(Message) /\ Len(b) = Len(Tail(p))
        /\ \A i \in 1 .. Len(Tail(p)) : b[i] = Writing(Tail(p)[i])
    BY <1>1, MessagesProperties
  <2> HIDE DEF b
  <2> QED BY <1>1, <2>1
<1> HIDE DEF a, b
<1>4. a # <<>>
  BY <1>1, <1>2
<1>5. /\ Head(a) = a[1] /\ Tail(a) \in Seq(Message) /\ Len(Tail(a)) = Len(a) - 1
      /\ \A i \in 1 .. Len(a) - 1 : Tail(a)[i] = a[i + 1]
  BY <1>2, <1>4, TailElements
<1>6. \A i \in 1 .. Len(p) - 1 : Tail(a)[i] = b[i]
  BY <1>1, <1>2, <1>3, <1>5
<1>7. Tail(a) = b
  BY <1>2, <1>3, <1>5, <1>6, SeqEqual
<1>8. Head(a) = Writing(Head(p))
  BY <1>1, <1>2, <1>5
<1> QED BY <1>4, <1>7, <1>8 DEF a, b

-----------------------------------------------------------------------------
(* Filling the pipeline.                                                   *)

\* FillWritePipeline, whatever queue, pipeline and stream it is called with:
\* the pipeline is then at the front of the queue and the stream in step.
LEMMA FillKeepsStep ==
    ASSUME NEW p \in Seq(Batch), NEW q \in Seq(Batch), NEW s \in Stream,
           NEW c \in Seq(Message), NEW w \in Seq(Message),
           Ascending(q), IsPrefix(p, q), Len(p) <= MaxPendingWrites,
           InStep(s, p, c, w),
           FillWritePipeline(p, q, s, w)
    PROVE  /\ pipeline' \in Seq(Batch)
           /\ toServer' \in Seq(Message)
           /\ stream' \in Stream
           /\ AtFront(pipeline', q)
           /\ InStep(stream', pipeline', c, toServer')
           /\ stream'.state = "open" <=> s.state = "open"
           /\ stream'.handshake = s.handshake
<1> DEFINE t == Taken(p, q)
           f == p \o t
           marked == CASE f = <<>> -> MarkIdle(s)
                       [] IsReady(s) /\ t # <<>> -> CancelIdleCheck(s)
                       [] OTHER -> s
<1>1. t \in Seq(Batch) /\ AtFront(f, q)
  BY TakenProperties
<1>2. /\ pipeline' = f
      /\ toServer' = IF IsReady(s) THEN w \o Messages(t) ELSE w
      /\ stream' = IF f # <<>> /\ ~IsStarted(s) THEN Start(s) ELSE marked
  BY DEF FillWritePipeline, Messages
<1> HIDE DEF t
<1>3. f \in Seq(Batch) /\ (f = <<>> => p = <<>> /\ t = <<>>)
  BY <1>1, ConcatProperties, ConcatEqualIffEmpty
<1>4. Messages(t) \in Seq(Message) /\ Messages(p) \in Seq(Message)
  BY <1>1, MessagesProperties
<1>5. toServer' \in Seq(Message)
  BY <1>2, <1>4, ConcatProperties
<1>6. /\ s.state \in StreamState /\ s.handshake \in BOOLEAN /\ s.idle \in BOOLEAN
      /\ s.stale \in Nat
  BY DEF Stream
<1>7. t = <<>> => f = p
  BY ConcatEmptySeq
<1> HIDE DEF f
<1>8. /\ marked \in Stream
      /\ marked.state = s.state /\ marked.handshake = s.handshake
  BY <1>6 DEF Stream, MarkIdle, CancelIdleCheck
<1>9. Start(s) \in Stream /\ Start(s).state \in {"starting", "backoff"}
      /\ Start(s).handshake = s.handshake /\ Start(s).idle = s.idle
  BY <1>6 DEF Stream, Start, StreamState
<1>10. /\ stream' \in Stream
       /\ stream'.state = "open" <=> s.state = "open"
       /\ stream'.handshake = s.handshake
  BY <1>2, <1>8, <1>9 DEF IsStarted
<1>11. c \o toServer' = UnderWay(stream', f)
  <2>1. CASE IsReady(s)
    <3>1. c \o w = Messages(p)
      BY <2>1 DEF InStep, UnderWay, IsReady
    <3>2. c \o (w \o Messages(t)) = Messages(p) \o Messages(t)
      <4> DEFINE x == Messages(t)
      <4>1. x \in Seq(Message)
        BY <1>4
      <4> HIDE DEF x
      <4>2. (c \o w) \o x = c \o (w \o x)
        BY <4>1, ConcatAssociative
      <4> QED BY <3>1, <4>2 DEF x
    <3>3. Messages(f) = Messages(p) \o Messages(t)
      BY <1>1, MessagesOfConcat DEF f
    <3> QED BY <1>2, <1>10, <2>1, <3>2, <3>3 DEF UnderWay, IsReady
  <2>2. CASE ~IsReady(s)
    BY <1>2, <1>10, <2>2 DEF InStep, UnderWay, IsReady
  <2> QED BY <2>1, <2>2
<1>12. stream'.handshake => stream'.state = "open"
  BY <1>10 DEF InStep
<1>13. stream'.idle => stream'.handshake /\ f = <<>>
  <2>1. CASE f # <<>> /\ ~IsStarted(s)
    <3>1. ~s.idle
      BY <2>1 DEF InStep, IsStarted
    <3> QED BY <1>2, <1>9, <2>1, <3>1
  <2>2. CASE f # <<>> /\ IsStarted(s)
    <3>1. s.idle => IsReady(s) /\ t # <<>>
      BY <1>7, <2>2 DEF InStep, IsReady
    <3>2. IsReady(s) /\ t # <<>> => ~stream'.idle
      BY <1>2, <1>6, <2>2 DEF CancelIdleCheck, Stream
    <3>3. ~(IsReady(s) /\ t # <<>>) => stream' = s
      BY <1>2, <2>2
    <3> QED BY <3>1, <3>2, <3>3
  <2>3. CASE f = <<>>
    <3>1. p = <<>> /\ stream' = MarkIdle(s)
      BY <1>2, <1>3, <2>3
    <3>2. s.state = "open" => s.handshake
      BY <3>1 DEF InStep, IsStarted
    <3>3. s.state # "open" => ~s.idle
      BY DEF InStep
    <3> QED BY <1>6, <2>3, <3>1, <3>2, <3>3 DEF MarkIdle, Stream
  <2> QED BY <2>1, <2>2, <2>3
<1>14. IsStarted(stream') /\ ~stream'.handshake => f # <<>>
  <2>1. CASE f = <<>>
    BY <1>2, <1>3, <1>8, <2>1 DEF InStep, IsStarted
  <2> QED BY <2>1
<1> QED BY <1>1, <1>2, <1>3, <1>5, <1>10, <1>11, <1>12, <1>13, <1>14 DEF InStep, f

-----------------------------------------------------------------------------
(* The mutation queues.                                                    *)

\* A new ID is above every stored one, and no larger than the writes require.
LEMMA NextIdProperties ==
    ASSUME StoreInv
    PROVE  /\ NextIdAbove(mutations) \in Nat \ {0}
           /\ NextIdAbove(mutations) <= writes + 1
           /\ \A u \in User : \A i \in DOMAIN mutations[u] :
                mutations[u][i].id < NextIdAbove(mutations)
<1> DEFINE S == {0} \cup UNION {Ids(mutations[u]) : u \in User}
<1>1. writes \in Nat
  BY WriteBounds DEF StoreInv
<1>2. ASSUME NEW u \in User, NEW i \in DOMAIN mutations[u]
      PROVE  /\ mutations[u][i].id \in Nat
             /\ mutations[u][i].id <= writes
             /\ mutations[u][i].id \in S
  <2>1. mutations[u] \in Seq(Batch)
    BY DEF StoreInv
  <2>2. mutations[u][i] \in Batch
    BY <2>1
  <2> QED BY <2>2 DEF Batch, StoreInv, QueuesInOrder, Ids
<1>3. S \in SUBSET Nat /\ S # {} /\ \A x \in S : x <= writes
  BY <1>1, <1>2 DEF Ids
<1> HIDE DEF S
<1>4. Max(S) \in S /\ \A x \in S : x <= Max(S)
  BY <1>1, <1>3, GreatestOfBounded
<1>5. Max(S) \in Nat /\ Max(S) <= writes
  BY <1>3, <1>4
<1>6. NextIdAbove(mutations) = 1 + Max(S)
  BY DEF NextIdAbove, S
<1> QED BY <1>1, <1>2, <1>4, <1>5, <1>6

LEMMA TailAscending ==
    ASSUME NEW q \in Seq(Batch), q # <<>>, Ascending(q)
    PROVE  /\ Ascending(Tail(q))
           /\ \A i \in DOMAIN Tail(q) :
                /\ i + 1 \in DOMAIN q /\ Tail(q)[i] = q[i + 1]
                /\ Head(q).id < Tail(q)[i].id /\ Head(q).write < Tail(q)[i].write
           /\ \A i \in DOMAIN q : q[i] = Head(q) \/ \E j \in DOMAIN Tail(q) : q[i] = Tail(q)[j]
<1>1. /\ Len(q) \in Nat \ {0} /\ Head(q) = q[1] /\ Tail(q) \in Seq(Batch)
      /\ Len(Tail(q)) = Len(q) - 1
      /\ \A i \in 1 .. Len(q) - 1 : Tail(q)[i] = q[i + 1]
  BY TailElements
<1>2. DOMAIN q = 1 .. Len(q) /\ DOMAIN Tail(q) = 1 .. Len(q) - 1
  BY <1>1, LenProperties
<1>3. \A i \in DOMAIN Tail(q) : i + 1 \in DOMAIN q /\ 1 \in DOMAIN q /\ 1 < i + 1
  BY <1>1, <1>2
<1>4. \A i, j \in DOMAIN Tail(q) : i < j => i + 1 < j + 1
  BY <1>1, <1>2
<1>5. Ascending(Tail(q))
  BY <1>1, <1>2, <1>3, <1>4 DEF Ascending
<1>6. \A i \in DOMAIN Tail(q) :
        /\ i + 1 \in DOMAIN q /\ Tail(q)[i] = q[i + 1]
        /\ Head(q).id < Tail(q)[i].id /\ Head(q).write < Tail(q)[i].write
  BY <1>1, <1>2, <1>3 DEF Ascending
<1>7. ASSUME NEW i \in DOMAIN q, i # 1
      PROVE  i - 1 \in DOMAIN Tail(q) /\ q[i] = Tail(q)[i - 1]
  BY <1>1, <1>2, <1>7
<1> QED BY <1>1, <1>5, <1>6, <1>7

\* The batch at the front of the pipeline is the one at the front of the
\* queue, and removing it leaves the rest of both.
LEMMA FrontLeaves ==
    ASSUME IInv, pipeline # <<>>
    PROVE  /\ networkEnabled
           /\ mutations[user] \in Seq(Batch) /\ mutations[user] # <<>>
           /\ Head(pipeline) = Head(mutations[user])
           /\ Head(pipeline) \in Batch
           /\ FrontIsStored
           /\ Without(mutations[user], Head(pipeline)) = Tail(mutations[user])
           /\ Tail(pipeline) \in Seq(Batch) /\ Tail(mutations[user]) \in Seq(Batch)
           /\ IsPrefix(Tail(pipeline), Tail(mutations[user]))
           /\ Len(Tail(pipeline)) <= MaxPendingWrites
<1> DEFINE q == mutations[user]
           b == Head(pipeline)
<1>1. /\ networkEnabled /\ IsPrefix(pipeline, q) /\ Len(pipeline) <= MaxPendingWrites
      /\ pipeline \in Seq(Batch) /\ q \in Seq(Batch) /\ Ascending(q)
  BY DEF IInv, StoreInv, LinkInv, PipelineFits, AtFront, QueuesInOrder
<1> HIDE DEF q
<1>2. q # <<>> /\ b = Head(q) /\ IsPrefix(Tail(pipeline), Tail(q))
  BY <1>1, PrefixOfTail
<1>3. /\ Len(q) \in Nat \ {0} /\ Head(q) = q[1] /\ q[1] \in Batch /\ Tail(q) \in Seq(Batch)
      /\ DOMAIN q = 1 .. Len(q)
  BY <1>1, <1>2, TailElements, LenProperties
<1>4. /\ Len(pipeline) \in Nat \ {0} /\ Tail(pipeline) \in Seq(Batch)
      /\ Len(Tail(pipeline)) = Len(pipeline) - 1
  BY <1>1, TailElements
<1>5. {i \in DOMAIN q : q[i].id = b.id} = {1}
  <2>1. 1 \in DOMAIN q /\ q[1].id = b.id
    BY <1>2, <1>3
  <2>2. ASSUME NEW i \in DOMAIN q, i # 1
        PROVE  q[i].id # b.id
    <3>1. 1 < i /\ 1 \in DOMAIN q
      BY <1>3, <2>2
    <3>2. q[1].id < q[i].id
      BY <1>1, <3>1 DEF Ascending
    <3>3. q[1].id \in Nat /\ q[i].id \in Nat
      <4>1. q[i] \in Batch
        BY <1>1
      <4> QED BY <1>3, <4>1 DEF Batch
    <3> QED BY <1>2, <1>3, <3>2, <3>3
  <2> QED BY <2>1, <2>2
<1>6. Without(q, b) = Tail(q)
  <2>1. (CHOOSE i \in {1} : TRUE) = 1
    OBVIOUS
  <2>2. Without(q, b) = RemoveAt(q, 1)
    BY <1>5, <2>1 DEF Without
  <2> QED BY <1>1, <1>2, <2>2, RemoveAtFront
<1>7. Head(pipeline) \in ToSet(q)
  BY <1>2, <1>3 DEF ToSet
<1>8. Len(Tail(pipeline)) <= MaxPendingWrites
  BY <1>1, <1>4, PipelineAssumption
<1> QED BY <1>1, <1>2, <1>3, <1>4, <1>6, <1>7, <1>8 DEF q, FrontIsStored

\* The front batch leaves with its callback and its waiters; what the stream
\* has under way is s with messages c to and w from the client.
LEMMA FrontAnsweredStep ==
    ASSUME IInv, pipeline # <<>>,
           NEW how \in {"acknowledged", "rejected"},
           NEW s \in Stream, NEW c \in Seq(Message), NEW w \in Seq(Message),
           InStep(s, Tail(pipeline), c, w),
           FrontAnswered(how, s, w),
           UNCHANGED <<session, networkEnabled, writes>>
    PROVE  /\ StoreInv'
           /\ mutations' = [mutations EXCEPT ![user] = Tail(@)]
           /\ outcome' = [outcome EXCEPT ![Head(mutations[user]).write] = how]
           /\ PipelineFits'
           /\ pipeline' \in Seq(Batch) /\ stream' \in Stream /\ toServer' \in Seq(Message)
           /\ InStep(stream', pipeline', c, toServer')
           /\ stream'.state = "open" <=> s.state = "open"
           /\ stream'.handshake = s.handshake
<1> DEFINE q == mutations[user]
           b == Head(q)
           p == Tail(pipeline)
           t == Tail(q)
<1>1. /\ networkEnabled /\ q \in Seq(Batch) /\ q # <<>>
      /\ Head(pipeline) = b /\ b \in Batch
      /\ Without(q, Head(pipeline)) = t
      /\ p \in Seq(Batch) /\ t \in Seq(Batch) /\ IsPrefix(p, t)
      /\ Len(p) <= MaxPendingWrites
  BY FrontLeaves
<1>2. StoreInv /\ user' = user /\ nextBatchId' = nextBatchId /\ writes' = writes /\ networkEnabled'
  BY <1>1 DEF IInv, session
<1>3. /\ mutations' = [mutations EXCEPT ![user] = t]
      /\ callbacks' = [callbacks EXCEPT ![user] = @ \ {b.id}]
      /\ waiters' = {n \in waiters : n.id # b.id}
      /\ outcome' = [outcome EXCEPT ![b.write] = how]
      /\ FillWritePipeline(p, t, s, w)
  BY <1>1 DEF FrontAnswered
<1>4. /\ mutations' \in [User -> Seq(Batch)]
      /\ user \in User
      /\ mutations'[user] = t
      /\ \A u \in User : u # user => mutations'[u] = mutations[u]
  BY <1>1, <1>2, <1>3 DEF StoreInv
<1>5. Ascending(q) /\ \A i \in DOMAIN q : q[i].id <= writes /\ q[i].write <= writes
  BY <1>2 DEF StoreInv, QueuesInOrder
<1>6. /\ Ascending(t)
      /\ \A i \in DOMAIN t :
            /\ i + 1 \in DOMAIN q /\ t[i] = q[i + 1]
            /\ b.id < t[i].id /\ b.write < t[i].write
      /\ \A i \in DOMAIN q : q[i] = b \/ \E j \in DOMAIN t : q[i] = t[j]
  BY <1>1, <1>5, TailAscending
<1>7. b.id \in Nat /\ b.write \in Write /\ b.write <= writes /\ writes \in Nat
  <2>1. Len(q) \in Nat \ {0} /\ b = q[1] /\ DOMAIN q = 1 .. Len(q)
    BY <1>1, TailElements, LenProperties
  <2>2. 1 \in DOMAIN q
    BY <2>1
  <2>3. q[1].write <= writes
    BY <1>5, <2>2
  <2>4. b.id \in Nat /\ b.write \in Write
    BY <1>1 DEF Batch
  <2>5. writes \in Nat
    BY <1>2, WriteBounds DEF StoreInv
  <2> QED BY <2>1, <2>3, <2>4, <2>5
<1>8. \A i \in DOMAIN t : t[i] \in Batch /\ t[i].id \in Nat
  <2>1. t \in Seq(Batch)
    BY <1>1
  <2> HIDE DEF t
  <2>2. \A i \in DOMAIN t : t[i] \in Batch
    BY <2>1
  <2> QED BY <2>2 DEF Batch
<1>9. /\ pipeline' \in Seq(Batch) /\ stream' \in Stream /\ toServer' \in Seq(Message)
      /\ AtFront(pipeline', t)
      /\ InStep(stream', pipeline', c, toServer')
      /\ stream'.state = "open" <=> s.state = "open"
      /\ stream'.handshake = s.handshake
  <2>1. InStep(s, p, c, w)
    OBVIOUS
  <2> HIDE DEF p, t
  <2> QED BY <1>1, <1>3, <1>6, <2>1, FillKeepsStep
<1>10. PipelineFits'
  BY <1>2, <1>4, <1>9 DEF PipelineFits
<1> HIDE DEF q, b, p, t
<1>11. QueuesInOrder'
  <2> SUFFICES ASSUME NEW u \in User
               PROVE  /\ Ascending(mutations'[u])
                      /\ \A i \in DOMAIN mutations'[u] :
                            mutations'[u][i].id <= writes /\ mutations'[u][i].write <= writes
    BY <1>2 DEF QueuesInOrder, Ascending
  <2>1. CASE u = user
    BY <1>4, <1>5, <1>6, <2>1
  <2>2. CASE u # user
    BY <1>2, <1>4, <2>2 DEF StoreInv, QueuesInOrder
  <2> QED BY <2>1, <2>2
<1>12. NextIdIsNew'
  <2>1. nextBatchId <= writes + 1 /\ \A i \in DOMAIN q : q[i].id < nextBatchId
    BY <1>2 DEF StoreInv, NextIdIsNew, q
  <2> QED BY <1>2, <1>4, <1>6, <2>1 DEF NextIdIsNew
<1>13. WaitersStored'
  <2> SUFFICES ASSUME NEW n \in waiters, n.id # b.id
               PROVE  \E j \in DOMAIN t : n.id = t[j].id /\ n.last = t[j].write
    BY <1>2, <1>3, <1>4 DEF WaitersStored
  <2>1. PICK i \in DOMAIN q : n.id = q[i].id /\ n.last = q[i].write
    BY <1>2 DEF StoreInv, WaitersStored, q
  <2>2. PICK j \in DOMAIN t : q[i] = t[j]
    BY <1>6, <2>1
  <2> QED BY <2>1, <2>2
<1>14. CallbacksStored'
  <2> SUFFICES ASSUME NEW u \in User, NEW k \in callbacks'[u]
               PROVE  k \in Ids(mutations'[u])
    BY DEF CallbacksStored
  <2>1. CASE u # user
    BY <1>2, <1>3, <1>4, <2>1 DEF StoreInv, CallbacksStored
  <2>2. CASE u = user
    <3>1. k \in callbacks[user] /\ k # b.id
      BY <1>2, <1>3, <2>2 DEF StoreInv
    <3>2. PICK i \in DOMAIN q : k = q[i].id
      BY <1>2, <3>1 DEF StoreInv, CallbacksStored, Ids, q
    <3>3. PICK j \in DOMAIN t : q[i] = t[j]
      BY <1>6, <3>1, <3>2
    <3> QED BY <1>4, <2>2, <3>2, <3>3 DEF Ids
  <2> QED BY <2>1, <2>2
<1>15. OutcomesToCome'
  <2> SUFFICES ASSUME NEW x \in Write, x > writes
               PROVE  outcome'[x] = "none"
    BY <1>2 DEF OutcomesToCome
  <2>1. x # b.write
    BY <1>7 DEF Write
  <2> QED BY <1>2, <1>3, <2>1 DEF StoreInv, OutcomesToCome
<1>16. /\ callbacks' \in [User -> SUBSET Nat]
       /\ waiters' \subseteq [id : Nat, last : Write]
       /\ outcome' \in [Write -> {"none", "accepted", "acknowledged", "rejected"}]
  BY <1>2, <1>3 DEF StoreInv
<1>17. StoreInv'
  BY <1>2, <1>4, <1>11, <1>12, <1>13, <1>14, <1>15, <1>16 DEF StoreInv
<1> QED BY <1>3, <1>9, <1>10, <1>17 DEF q, b, t

-----------------------------------------------------------------------------
(* The calls of the app keep the invariant.                                *)

LEMMA InitInv == Init => IInv
<1> SUFFICES ASSUME Init
             PROVE  IInv
  OBVIOUS
<1>1. \A u \in User : mutations[u] = <<>> /\ DOMAIN mutations[u] = {}
  BY EmptySeq, LenProperties DEF Init
<1>2. StoreInv
  <2>1. mutations \in [User -> Seq(Batch)] /\ writes \in 0 .. MaxWrites
    BY EmptySeq, WriteBounds DEF Init
  <2>2. QueuesInOrder /\ NextIdIsNew
    BY <1>1 DEF Init, QueuesInOrder, NextIdIsNew, Ascending
  <2>3. WaitersStored /\ CallbacksStored /\ OutcomesToCome
    BY DEF Init, WaitersStored, CallbacksStored, OutcomesToCome
  <2> QED BY <2>1, <2>2, <2>3 DEF Init, StoreInv
<1>3. LinkInv
  <2>1. NewStream \in Stream /\ NewStream.state = "initial"
        /\ ~NewStream.handshake /\ ~NewStream.idle
    BY DEF NewStream, Stream, StreamState
  <2>2. StreamInStep /\ AnswersCommitted
    <3>1. toClient \o toServer = <<>>
      BY EmptySeq, ConcatEmptySeq DEF Init
    <3> QED BY <2>1, <3>1 DEF Init, StreamInStep, InStep, UnderWay, IsStarted, AnswersCommitted,
                 IsReady
  <2>3. PipelineFits
    <3>1. IsPrefix(pipeline, mutations[user]) /\ pipeline = mutations[user]
      BY <1>1 DEF Init, IsPrefix
    <3> QED BY <3>1, EmptySeq, PipelineAssumption DEF Init, PipelineFits, AtFront
  <2> QED BY <2>1, <2>2, <2>3, EmptySeq DEF Init, LinkInv
<1>4. BoundsInv
  BY WriteBounds DEF Init, BoundsInv
<1> QED BY <1>2, <1>3, <1>4 DEF IInv

\* What the stream and the pipeline keep when the queue of the user, who may
\* be another, is sent from the start on a stream that is not started.
LEMMA RestartKeeps ==
    ASSUME NEW s \in Stream, ~IsStarted(s), ~s.handshake, ~s.idle,
           StoreInv', LinkInv, UNCHANGED <<assertFailed, log>>,
           networkEnabled', toClient' = <<>>, status' = "open",
           FillWritePipeline(<<>>, mutations'[user'], s, <<>>)
    PROVE  LinkInv'
<1> DEFINE q == mutations'[user']
<1>1. q \in Seq(Batch) /\ Ascending(q)
  BY DEF StoreInv, QueuesInOrder, Ascending
<1> HIDE DEF q
<1>2. /\ <<>> \in Seq(Batch) /\ <<>> \in Seq(Message) /\ Len(<<>>) = 0
  BY EmptySeq
<1>3. IsPrefix(<<>>, q)
  BY <1>1, EmptyIsPrefix
<1>4. InStep(s, <<>>, <<>>, <<>>)
  BY <1>2, ConcatEmptySeq DEF InStep, UnderWay, IsStarted
<1>5. 0 <= MaxPendingWrites
  BY PipelineAssumption
<1>6. /\ pipeline' \in Seq(Batch) /\ stream' \in Stream /\ toServer' \in Seq(Message)
      /\ AtFront(pipeline', q)
      /\ InStep(stream', pipeline', <<>>, toServer')
      /\ stream'.state = "open" <=> s.state = "open"
      /\ stream'.handshake = s.handshake
  <2>1. FillWritePipeline(<<>>, q, s, <<>>)
    BY DEF q
  <2> QED BY <1>1, <1>2, <1>3, <1>4, <1>5, <2>1, FillKeepsStep
<1>7. PipelineFits'
  BY <1>6 DEF PipelineFits, q
<1>8. StreamInStep'
  BY <1>6 DEF StreamInStep
<1>9. AnswersCommitted'
  BY <1>6 DEF AnswersCommitted, IsReady
<1> QED BY <1>2, <1>6, <1>7, <1>8, <1>9 DEF LinkInv

\* A stream that is stopped, and inhibited to back off, is as a new one.
LEMMA StoppedStream ==
    ASSUME LinkInv
    PROVE  /\ Stop(stream) \in Stream
           /\ ~IsStarted(Stop(stream)) /\ Stop(stream).state # "open"
           /\ ~Stop(stream).handshake /\ ~Stop(stream).idle
           /\ LET s == InhibitBackoff(Stop(stream))
              IN  s \in Stream /\ ~IsStarted(s) /\ ~s.handshake /\ ~s.idle
<1>1. /\ stream.state \in StreamState /\ stream.handshake \in BOOLEAN
      /\ stream.idle \in BOOLEAN /\ stream.stale \in Nat
  BY DEF LinkInv, Stream
<1>2. /\ ~IsStarted(stream) => ~stream.handshake /\ ~stream.idle
  BY DEF LinkInv, StreamInStep, InStep, IsStarted
<1>3. /\ Stop(stream) \in Stream
      /\ ~IsStarted(Stop(stream)) /\ ~Stop(stream).handshake /\ ~Stop(stream).idle
  <2>1. CASE ~IsStarted(stream)
    BY <1>2, <2>1 DEF Stop, LinkInv
  <2>2. CASE IsStarted(stream)
    <3> DEFINE r == Closed(stream, "initial")
               n == IF stream.state = "starting" THEN r.stale + 1 ELSE r.stale
    <3>1. /\ r \in Stream /\ r.stale \in Nat /\ r.state = "initial"
          /\ ~r.handshake /\ ~r.idle
      <4>1. stream \in Stream
        BY DEF LinkInv
      <4> QED BY <4>1 DEF Closed, Stream, StreamState
    <3>2. Stop(stream) = [r EXCEPT !.stale = n]
      BY <2>2 DEF Stop
    <3> HIDE DEF r
    <3>3. n \in Nat
      BY <3>1
    <3> HIDE DEF n
    <3> QED BY <3>1, <3>2, <3>3 DEF Stream, IsStarted
  <2> QED BY <2>1, <2>2
<1> DEFINE s == Stop(stream)
<1>4. Stop(stream).state # "open"
  BY <1>3 DEF IsStarted
<1> HIDE DEF s
<1>5. s \in Stream /\ ~s.handshake /\ ~s.idle
  BY <1>3 DEF s
<1>6. InhibitBackoff(s) \in Stream /\ InhibitBackoff(s).state = "initial"
      /\ ~InhibitBackoff(s).handshake /\ ~InhibitBackoff(s).idle
  BY <1>5 DEF InhibitBackoff, Stream, StreamState
<1> QED BY <1>3, <1>4, <1>6 DEF s, IsStarted

LEMMA WriteMutationsInv == ASSUME IInv, WriteMutations PROVE StoreInv' /\ LinkInv'
<1> DEFINE b == [id |-> nextBatchId, write |-> writes + 1]
           q == mutations[user]
           a == Append(q, b)
<1>1. /\ mutations' = [mutations EXCEPT ![user] = a]
      /\ callbacks' = [callbacks EXCEPT ![user] = @ \cup {nextBatchId}]
      /\ outcome' = [outcome EXCEPT ![writes + 1] = "accepted"]
      /\ nextBatchId' = nextBatchId + 1 /\ writes' = writes + 1 /\ writes < MaxWrites
      /\ UNCHANGED <<user, waiters, networkEnabled, assertFailed, toClient, status, log>>
  BY DEF WriteMutations
<1>2. StoreInv /\ LinkInv
  BY DEF IInv
<1>3. /\ nextBatchId \in Nat \ {0} /\ writes \in Nat /\ writes + 1 \in Write
      /\ q \in Seq(Batch) /\ b \in Batch
  <2>1. nextBatchId \in Nat \ {0} /\ writes \in Nat /\ writes + 1 \in Write
    BY <1>1, <1>2, WriteBounds DEF StoreInv, Write
  <2>2. b \in Batch
    BY <2>1 DEF Batch
  <2> QED BY <1>2, <2>1, <2>2 DEF StoreInv
<1> HIDE DEF b
<1>4. /\ a \in Seq(Batch) /\ a # <<>> /\ Len(a) = Len(q) + 1
      /\ \A i \in 1 .. Len(q) : a[i] = q[i]
      /\ a[Len(q) + 1] = b
  BY <1>3, AppendProperties
<1>5. Len(q) \in Nat /\ DOMAIN q = 1 .. Len(q) /\ DOMAIN a = 1 .. Len(q) + 1
  BY <1>3, <1>4, LenProperties
<1>6. /\ mutations' \in [User -> Seq(Batch)] /\ user' = user /\ user \in User
      /\ mutations'[user] = a
      /\ \A u \in User : u # user => mutations'[u] = mutations[u]
  BY <1>1, <1>2, <1>4 DEF StoreInv
<1>7. /\ Ascending(q) /\ nextBatchId <= writes + 1
      /\ \A i \in DOMAIN q : q[i].id <= writes /\ q[i].write <= writes /\ q[i].id < nextBatchId
  BY <1>2 DEF StoreInv, QueuesInOrder, NextIdIsNew
<1>8. \A i \in DOMAIN q : q[i].id \in Nat /\ q[i].write \in Nat
  <2>1. \A i \in DOMAIN q : q[i] \in Batch
    BY <1>3, <1>5
  <2> QED BY <2>1 DEF Batch, Write
<1> HIDE DEF q, a
<1>9. b.id = nextBatchId /\ b.write = writes + 1
  BY DEF b
<1>10. /\ Ascending(a)
       /\ \A i \in DOMAIN a : a[i].id <= writes + 1 /\ a[i].write <= writes + 1
                              /\ a[i].id < nextBatchId + 1
  <2>1. ASSUME NEW i \in DOMAIN a, NEW j \in DOMAIN a, i < j
        PROVE  a[i].id < a[j].id /\ a[i].write < a[j].write
    <3>1. i \in DOMAIN q /\ a[i] = q[i]
      BY <1>4, <1>5, <2>1
    <3>2. CASE j \in DOMAIN q
      BY <1>4, <1>5, <1>7, <2>1, <3>1, <3>2 DEF Ascending
    <3>3. CASE j = Len(q) + 1
      BY <1>3, <1>4, <1>7, <1>8, <1>9, <3>1, <3>3
    <3> QED BY <1>5, <3>2, <3>3
  <2>2. ASSUME NEW i \in DOMAIN a
        PROVE  a[i].id <= writes + 1 /\ a[i].write <= writes + 1 /\ a[i].id < nextBatchId + 1
    <3>1. CASE i \in DOMAIN q
      BY <1>3, <1>4, <1>5, <1>7, <1>8, <3>1
    <3>2. CASE i = Len(q) + 1
      BY <1>3, <1>4, <1>7, <1>9, <3>2
    <3> QED BY <1>5, <3>1, <3>2
  <2> QED BY <2>1, <2>2 DEF Ascending
<1>11. QueuesInOrder'
  <2> SUFFICES ASSUME NEW u \in User
               PROVE  /\ Ascending(mutations'[u])
                      /\ \A i \in DOMAIN mutations'[u] :
                            /\ mutations'[u][i].id <= writes + 1
                            /\ mutations'[u][i].write <= writes + 1
    BY <1>1 DEF QueuesInOrder, Ascending
  <2>1. CASE u = user
    BY <1>6, <1>10, <2>1
  <2>2. CASE u # user
    <3>1. mutations'[u] = mutations[u] /\ mutations[u] \in Seq(Batch)
      BY <1>2, <1>6, <2>2 DEF StoreInv
    <3>2. \A i \in DOMAIN mutations[u] : /\ mutations[u][i] \in Batch
                                         /\ mutations[u][i].id <= writes
                                         /\ mutations[u][i].write <= writes
      BY <1>2, <3>1 DEF StoreInv, QueuesInOrder
    <3>3. \A i \in DOMAIN mutations[u] : /\ mutations[u][i].id <= writes + 1
                                         /\ mutations[u][i].write <= writes + 1
      BY <1>3, <3>2 DEF Batch, Write
    <3> QED BY <1>2, <3>1, <3>3 DEF StoreInv, QueuesInOrder
  <2> QED BY <2>1, <2>2
<1>12. NextIdIsNew'
  BY <1>1, <1>3, <1>6, <1>7, <1>10 DEF NextIdIsNew
<1>13. \A i \in DOMAIN q : i \in DOMAIN a /\ a[i] = q[i]
  BY <1>4, <1>5
<1>14. WaitersStored'
  <2> SUFFICES ASSUME NEW n \in waiters
               PROVE  \E i \in DOMAIN a : n.id = a[i].id /\ n.last = a[i].write
    BY <1>1, <1>6 DEF WaitersStored
  <2>1. PICK i \in DOMAIN q : n.id = q[i].id /\ n.last = q[i].write
    BY <1>2 DEF StoreInv, WaitersStored, q
  <2> QED BY <1>13, <2>1
<1>15. CallbacksStored'
  <2> SUFFICES ASSUME NEW u \in User, NEW k \in callbacks'[u]
               PROVE  k \in Ids(mutations'[u])
    BY DEF CallbacksStored
  <2>1. CASE u # user
    BY <1>1, <1>2, <1>6, <2>1 DEF StoreInv, CallbacksStored
  <2>2. CASE u = user /\ k = nextBatchId
    BY <1>4, <1>5, <1>6, <1>9, <2>2 DEF Ids
  <2>3. CASE u = user /\ k # nextBatchId
    <3>1. k \in callbacks[user]
      BY <1>1, <1>2, <2>3 DEF StoreInv
    <3>2. PICK i \in DOMAIN q : k = q[i].id
      BY <1>2, <3>1 DEF StoreInv, CallbacksStored, Ids, q
    <3> QED BY <1>6, <1>13, <2>3, <3>2 DEF Ids
  <2> QED BY <2>1, <2>2, <2>3
<1>16. OutcomesToCome'
  BY <1>1, <1>2, <1>3 DEF StoreInv, OutcomesToCome, Write
<1>17. /\ callbacks' \in [User -> SUBSET Nat] /\ waiters' \subseteq [id : Nat, last : Write]
       /\ outcome' \in [Write -> {"none", "accepted", "acknowledged", "rejected"}]
       /\ nextBatchId' \in Nat \ {0} /\ writes' \in 0 .. MaxWrites
  BY <1>1, <1>2, <1>3, WriteBounds DEF StoreInv
<1>18. StoreInv'
  BY <1>6, <1>11, <1>12, <1>14, <1>15, <1>16, <1>17 DEF StoreInv
<1>19. CASE networkEnabled
  <2>1. FillWritePipeline(pipeline, a, stream, toServer)
    BY <1>19 DEF WriteMutations, a, b, q
  <2>2. /\ IsPrefix(pipeline, q) /\ Len(pipeline) <= MaxPendingWrites
        /\ pipeline \in Seq(Batch) /\ stream \in Stream
        /\ toClient \in Seq(Message) /\ toServer \in Seq(Message)
        /\ InStep(stream, pipeline, toClient, toServer)
    BY <1>2, <1>19 DEF LinkInv, PipelineFits, AtFront, StreamInStep, q
  <2>3. IsPrefix(pipeline, a)
    BY <1>3, <2>2, PrefixOfAppend DEF a, q
  <2>4. /\ pipeline' \in Seq(Batch) /\ toServer' \in Seq(Message) /\ stream' \in Stream
        /\ AtFront(pipeline', a)
        /\ InStep(stream', pipeline', toClient, toServer')
        /\ stream'.state = "open" <=> stream.state = "open"
        /\ stream'.handshake = stream.handshake
    BY <1>4, <1>10, <2>1, <2>2, <2>3, FillKeepsStep
  <2>5. PipelineFits' /\ StreamInStep' /\ AnswersCommitted'
    BY <1>1, <1>2, <1>6, <1>19, <2>4
       DEF PipelineFits, StreamInStep, AnswersCommitted, LinkInv, IsReady
  <2> QED BY <1>1, <1>2, <1>18, <2>4, <2>5 DEF LinkInv
<1>20. CASE ~networkEnabled
  <2>1. UNCHANGED <<pipeline, stream, toServer, toClient, status, log, networkEnabled>>
    BY <1>1, <1>20 DEF WriteMutations
  <2>2. PipelineFits' /\ StreamInStep' /\ AnswersCommitted'
    BY <1>2, <1>20, <2>1 DEF PipelineFits, StreamInStep, InStep, AnswersCommitted, LinkInv
  <2> QED BY <1>1, <1>2, <1>18, <2>1, <2>2 DEF LinkInv
<1> QED BY <1>19, <1>20

\* Another caller waits for the last batch of the user's queue.
LEMMA RegisterInv == ASSUME IInv, RegisterPendingWritesCallback PROVE StoreInv' /\ LinkInv'
<1> DEFINE q == mutations[user]
           e == [id |-> Highest(q), last |-> Last(q).write]
<1>1. /\ q # <<>> /\ waiters' = waiters \cup {e}
      /\ UNCHANGED <<mutations, user, nextBatchId, callbacks, outcome, writes>>
      /\ UNCHANGED <<networkEnabled, pipeline, stream, assertFailed, toServer, toClient,
                     status, log>>
  BY DEF RegisterPendingWritesCallback, disk, session, remote, call, counters
<1>2. StoreInv /\ LinkInv
  BY DEF IInv
<1>3. /\ q \in Seq(Batch) /\ Len(q) \in Nat \ {0} /\ DOMAIN q = 1 .. Len(q)
      /\ q[Len(q)] \in Batch
  <2>1. q \in Seq(Batch)
    BY <1>2 DEF StoreInv
  <2>2. Len(q) \in Nat \ {0} /\ DOMAIN q = 1 .. Len(q)
    BY <1>1, <2>1, EmptySeq, LenProperties
  <2> QED BY <2>1, <2>2, ElementOfSeq
<1>4. Len(q) \in DOMAIN q /\ e.id = q[Len(q)].id /\ e.last = q[Len(q)].write
  BY <1>3 DEF Highest, Last
<1>5. e \in [id : Nat, last : Write]
  BY <1>3 DEF Highest, Last, Batch
<1> HIDE DEF e
<1>6. WaitersStored'
  BY <1>1, <1>2, <1>4 DEF StoreInv, WaitersStored
<1>7. StoreInv'
  <2>1. QueuesInOrder' /\ NextIdIsNew' /\ CallbacksStored' /\ OutcomesToCome'
    BY <1>1, <1>2 DEF StoreInv, QueuesInOrder, Ascending, NextIdIsNew, CallbacksStored,
                      Ids, OutcomesToCome
  <2> QED BY <1>1, <1>2, <1>5, <1>6, <2>1 DEF StoreInv
<1>8. LinkInv'
  BY <1>1, <1>2 DEF LinkInv, PipelineFits, AtFront, StreamInStep, InStep, AnswersCommitted
<1> QED BY <1>7, <1>8

\* What stays when neither the queues nor those who wait are touched.
LEMMA StoreKept ==
    ASSUME StoreInv, UNCHANGED <<disk, session, asked, outcome, writes>>
    PROVE  StoreInv'
<1>1. UNCHANGED <<mutations, user, nextBatchId, callbacks, waiters, outcome, writes>>
  BY DEF disk, session, asked
<1>2. QueuesInOrder' /\ NextIdIsNew' /\ WaitersStored' /\ CallbacksStored' /\ OutcomesToCome'
  BY <1>1 DEF StoreInv, QueuesInOrder, Ascending, NextIdIsNew, WaitersStored, CallbacksStored,
              Ids, OutcomesToCome
<1> QED BY <1>1, <1>2 DEF StoreInv

\* The user's queue, or that of another who signs in, is sent from its start.
LEMMA HandleCredentialChangeInv ==
    ASSUME IInv, HandleCredentialChange PROVE StoreInv' /\ LinkInv'
<1>1. PICK u \in User :
        /\ user' = u
        /\ nextBatchId' = IF u = user THEN nextBatchId ELSE NextIdAbove(mutations)
        /\ waiters' = WaitersLeft(u)
        /\ IF networkEnabled THEN RestartNetwork(mutations[u]) ELSE UNCHANGED <<remote, call>>
  BY DEF HandleCredentialChange
<1>2. /\ UNCHANGED <<mutations, callbacks, assertFailed, log, outcome, writes>>
      /\ StoreInv /\ LinkInv
  BY DEF HandleCredentialChange, disk, IInv
<1>3. StoreInv'
  <2>1. QueuesInOrder' /\ CallbacksStored' /\ OutcomesToCome'
    BY <1>2 DEF StoreInv, QueuesInOrder, Ascending, CallbacksStored, Ids, OutcomesToCome
  <2>2. NextIdIsNew' /\ nextBatchId' \in Nat \ {0}
    BY <1>1, <1>2, NextIdProperties DEF StoreInv, NextIdIsNew
  <2>3. WaitersStored' /\ waiters' \subseteq [id : Nat, last : Write]
    <3>1. CASE u = user
      <4>1. waiters' = waiters /\ user' = user /\ mutations' = mutations
        BY <1>1, <1>2, <3>1 DEF WaitersLeft
      <4> QED BY <1>2, <4>1 DEF StoreInv, WaitersStored
    <3>2. CASE u # user
      BY <1>1, <3>2 DEF WaitersLeft, WaitersStored
    <3> QED BY <3>1, <3>2
  <2> QED BY <1>1, <1>2, <2>1, <2>2, <2>3 DEF StoreInv
<1>4. CASE networkEnabled
  <2> DEFINE s == InhibitBackoff(Stop(stream))
  <2>1. s \in Stream /\ ~IsStarted(s) /\ ~s.handshake /\ ~s.idle
    BY <1>2, StoppedStream
  <2>2. /\ networkEnabled' /\ toClient' = <<>> /\ status' = "open"
        /\ FillWritePipeline(<<>>, mutations'[user'], s, <<>>)
    BY <1>1, <1>2, <1>4 DEF RestartNetwork
  <2> HIDE DEF s
  <2> QED BY <1>2, <1>3, <2>1, <2>2, RestartKeeps
<1>5. CASE ~networkEnabled
  <2>1. UNCHANGED <<networkEnabled, pipeline, stream, toServer, toClient, status>>
    BY <1>1, <1>5 DEF remote, call
  <2> QED BY <1>2, <1>3, <1>5, <2>1 DEF LinkInv, PipelineFits, StreamInStep, InStep,
                                        AnswersCommitted
<1> QED BY <1>4, <1>5

LEMMA DisableNetworkInv == ASSUME IInv, DisableNetwork PROVE StoreInv' /\ LinkInv'
<1>1. /\ ~networkEnabled' /\ pipeline' = <<>> /\ stream' = Stop(stream)
      /\ toServer' = <<>> /\ toClient' = <<>> /\ status' = "open"
      /\ UNCHANGED <<disk, session, asked, outcome, writes>> /\ UNCHANGED <<assertFailed, log>>
      /\ networkEnabled' \in BOOLEAN
  BY DEF DisableNetwork
<1>2. StoreInv /\ LinkInv
  BY DEF IInv
<1>3. StoreInv'
  BY <1>1, <1>2, StoreKept
<1>4. /\ Stop(stream) \in Stream /\ ~IsStarted(Stop(stream)) /\ Stop(stream).state # "open"
      /\ ~Stop(stream).handshake /\ ~Stop(stream).idle
  BY <1>2, StoppedStream
<1>5. StreamInStep'
  <2>1. <<>> \o <<>> = <<>>
    BY EmptySeq, ConcatEmptySeq
  <2> QED BY <1>1, <1>4, <2>1 DEF StreamInStep, InStep, UnderWay
<1>6. PipelineFits' /\ AnswersCommitted'
  BY <1>1, <1>4 DEF PipelineFits, AnswersCommitted, IsReady
<1> QED BY <1>1, <1>2, <1>3, <1>4, <1>5, <1>6, EmptySeq DEF LinkInv

LEMMA EnableNetworkInv == ASSUME IInv, EnableNetwork PROVE StoreInv' /\ LinkInv'
<1>1. /\ ~networkEnabled /\ networkEnabled'
      /\ FillWritePipeline(pipeline, mutations[user], stream, toServer)
      /\ UNCHANGED <<disk, session, asked, outcome, writes>>
      /\ UNCHANGED <<assertFailed, log, toClient, status>>
  BY DEF EnableNetwork
<1>2. StoreInv /\ LinkInv
  BY DEF IInv
<1>3. StoreInv'
  BY <1>1, <1>2, StoreKept
<1>4. pipeline = <<>> /\ ~IsStarted(stream) /\ ~stream.handshake /\ ~stream.idle /\ stream \in Stream
  BY <1>1, <1>2 DEF LinkInv, PipelineFits, StreamInStep, InStep, IsStarted
<1>5. toServer = <<>> /\ toClient = <<>> /\ status = "open"
  <2>1. toClient \o toServer = <<>> /\ toClient \in Seq(Message) /\ toServer \in Seq(Message)
    BY <1>2, <1>4 DEF LinkInv, StreamInStep, InStep, UnderWay, IsStarted
  <2>2. toClient = <<>> /\ toServer = <<>>
    BY <2>1, ConcatEqualIffEmpty
  <2> QED BY <1>2, <1>4, <2>2 DEF LinkInv, StreamInStep, IsStarted
<1>6. FillWritePipeline(<<>>, mutations'[user'], stream, <<>>)
  BY <1>1, <1>4, <1>5 DEF disk, session
<1> QED BY <1>1, <1>2, <1>3, <1>4, <1>5, <1>6, RestartKeeps

LEMMA ConnectivityChangedInv == ASSUME IInv, ConnectivityChanged PROVE StoreInv' /\ LinkInv'
<1> DEFINE s == InhibitBackoff(Stop(stream))
<1>1. /\ UNCHANGED <<disk, session, asked, outcome, writes>> /\ UNCHANGED <<assertFailed, log>>
      /\ StoreInv /\ LinkInv
  BY DEF ConnectivityChanged, IInv
<1>2. /\ networkEnabled' /\ toClient' = <<>> /\ status' = "open"
      /\ FillWritePipeline(<<>>, mutations'[user'], s, <<>>)
  BY <1>1 DEF ConnectivityChanged, RestartNetwork, disk, session
<1>3. s \in Stream /\ ~IsStarted(s) /\ ~s.handshake /\ ~s.idle
  BY <1>1, StoppedStream
<1>4. StoreInv'
  BY <1>1, StoreKept
<1> HIDE DEF s
<1> QED BY <1>1, <1>2, <1>3, <1>4, RestartKeeps

\* A new process reads the queues again and nobody waits any more.
LEMMA RelaunchInv == ASSUME IInv, Relaunch PROVE StoreInv' /\ LinkInv'
<1>1. /\ nextBatchId' = NextIdAbove(mutations)
      /\ callbacks' = [u \in User |-> {}] /\ waiters' = {}
      /\ networkEnabled' /\ toClient' = <<>> /\ status' = "open"
      /\ UNCHANGED <<mutations, user, assertFailed, log, outcome, writes>>
      /\ FillWritePipeline(<<>>, mutations'[user'], NewStream, <<>>)
  BY DEF Relaunch, disk
<1>2. StoreInv /\ LinkInv
  BY DEF IInv
<1>3. StoreInv'
  <2>1. QueuesInOrder' /\ OutcomesToCome'
    BY <1>1, <1>2 DEF StoreInv, QueuesInOrder, Ascending, OutcomesToCome
  <2>2. NextIdIsNew' /\ nextBatchId' \in Nat \ {0}
    BY <1>1, <1>2, NextIdProperties DEF StoreInv, NextIdIsNew
  <2>3. WaitersStored' /\ CallbacksStored'
    BY <1>1 DEF WaitersStored, CallbacksStored
  <2> QED BY <1>1, <1>2, <2>1, <2>2, <2>3 DEF StoreInv
<1>4. /\ NewStream \in Stream /\ ~IsStarted(NewStream)
      /\ ~NewStream.handshake /\ ~NewStream.idle
  BY DEF NewStream, Stream, StreamState, IsStarted
<1> QED BY <1>1, <1>2, <1>3, <1>4, RestartKeeps

-----------------------------------------------------------------------------
(* The events of the stream keep the invariant.                            *)

\* A stream that is not open has nothing under way.
LEMMA NothingUnderWay ==
    ASSUME LinkInv, stream.state # "open"
    PROVE  toClient = <<>> /\ toServer = <<>> /\ status = "open" /\ ~stream.handshake
           /\ ~stream.idle
<1>1. toClient \o toServer = <<>> /\ toClient \in Seq(Message) /\ toServer \in Seq(Message)
  BY DEF LinkInv, StreamInStep, InStep, UnderWay
<1>2. toClient = <<>> /\ toServer = <<>>
  BY <1>1, ConcatEqualIffEmpty
<1> QED BY <1>2 DEF LinkInv, StreamInStep, InStep

\* The stream is closed with an error; the pipeline goes on, less a batch
\* that was refused.
LEMMA CloseStreamInv ==
    ASSUME IInv, IsStarted(stream), NEW how \in {"transient", "permanent"}, CloseStream(how)
    PROVE  StoreInv' /\ LinkInv'
<1> DEFINE s == Closed(stream, "error")
           r == InhibitBackoff(s)
<1>1. /\ toClient' = <<>> /\ status' = "open"
      /\ UNCHANGED <<user, nextBatchId, networkEnabled, log, writes, changes>>
  BY DEF CloseStream, session
<1>2. StoreInv /\ LinkInv
  BY DEF IInv
<1>3. /\ s \in Stream /\ s.state = "error" /\ ~s.handshake /\ ~s.idle
      /\ r \in Stream /\ r.state = "initial" /\ ~r.handshake /\ ~r.idle
      /\ Start(s) \in Stream /\ Start(s).state = "backoff"
      /\ ~Start(s).handshake /\ ~Start(s).idle
  <2>1. stream \in Stream
    BY <1>2 DEF LinkInv
  <2>2. s \in Stream /\ s.state = "error" /\ ~s.handshake /\ ~s.idle
    BY <2>1 DEF Closed, Stream, StreamState
  <2> HIDE DEF s
  <2> QED BY <2>2 DEF InhibitBackoff, Start, Stream, StreamState
<1>4. <<>> \in Seq(Message) /\ <<>> \o <<>> = <<>>
  BY EmptySeq, ConcatEmptySeq
<1> HIDE DEF s, r
<1>5. CASE ErrorIsOfWrite(how)
  <2>1. pipeline # <<>>
    BY <1>5 DEF ErrorIsOfWrite
  <2>2. /\ FrontAnswered("rejected", r, <<>>)
        /\ HardAssert(IsStarted(stream) /\ FrontIsStored)
    BY <1>5 DEF CloseStream, s, r
  <2>3. InStep(r, Tail(pipeline), <<>>, <<>>)
    BY <1>3, <1>4 DEF InStep, UnderWay, IsStarted
  <2>4. UNCHANGED <<session, networkEnabled, writes>>
    BY <1>1 DEF session
  <2>5. /\ StoreInv' /\ PipelineFits'
        /\ pipeline' \in Seq(Batch) /\ stream' \in Stream /\ toServer' \in Seq(Message)
        /\ InStep(stream', pipeline', <<>>, toServer')
        /\ stream'.state = "open" <=> r.state = "open"
        /\ stream'.handshake = r.handshake
    BY <1>3, <1>4, <2>1, <2>2, <2>3, <2>4, FrontAnsweredStep
  <2>6. FrontIsStored /\ networkEnabled
    BY <2>1, FrontLeaves
  <2>7. assertFailed' = FALSE
    BY <1>2, <2>2, <2>6 DEF HardAssert, LinkInv
  <2>8. StreamInStep' /\ AnswersCommitted'
    BY <1>1, <1>3, <2>5, <2>6 DEF StreamInStep, AnswersCommitted, IsReady
  <2> QED BY <1>1, <1>2, <1>4, <2>5, <2>7, <2>8 DEF LinkInv
<1>6. CASE ~ErrorIsOfWrite(how)
  <2>1. /\ stream' = IF pipeline # <<>> THEN Start(s) ELSE s
        /\ toServer' = <<>>
        /\ HardAssert(IsStarted(stream))
        /\ UNCHANGED <<mutations, callbacks, waiters, outcome, pipeline>>
    BY <1>6 DEF CloseStream, s
  <2>2. StoreInv'
    BY <1>1, <1>2, <2>1, StoreKept DEF disk, session, asked
  <2>3. assertFailed' = FALSE
    BY <1>2, <2>1 DEF HardAssert, LinkInv
  <2>4. PipelineFits'
    BY <1>1, <1>2, <2>1 DEF LinkInv, PipelineFits
  <2>5. networkEnabled
    BY <1>2 DEF LinkInv, StreamInStep
  <2>6. /\ stream' \in Stream /\ stream'.state # "open" /\ ~stream'.handshake /\ ~stream'.idle
        /\ IsStarted(stream') => pipeline # <<>>
    BY <1>3, <2>1 DEF IsStarted
  <2>7. StreamInStep' /\ AnswersCommitted'
    BY <1>1, <1>4, <2>1, <2>5, <2>6
       DEF StreamInStep, InStep, UnderWay, AnswersCommitted, IsReady
  <2> QED BY <1>1, <1>2, <1>4, <2>1, <2>2, <2>3, <2>4, <2>6, <2>7 DEF LinkInv
<1> QED BY <1>5, <1>6

LEMMA TokenArrivesInv == ASSUME IInv, TokenArrives PROVE StoreInv' /\ LinkInv'
<1>1. /\ stream.state = "starting" /\ stream' = [stream EXCEPT !.state = "open"]
      /\ toServer' = <<Handshake>>
      /\ UNCHANGED <<disk, session, asked, outcome, writes>>
      /\ UNCHANGED <<networkEnabled, pipeline, assertFailed, toClient, status, log>>
  BY DEF TokenArrives, counters
<1>2. StoreInv /\ LinkInv
  BY DEF IInv
<1>3. StoreInv'
  BY <1>1, <1>2, StoreKept
<1>4. toClient = <<>> /\ status = "open" /\ ~stream.handshake /\ ~stream.idle
  BY <1>1, <1>2, NothingUnderWay
<1>5. /\ stream' \in Stream /\ stream'.state = "open" /\ ~stream'.handshake /\ ~stream'.idle
  BY <1>1, <1>2, <1>4 DEF LinkInv, Stream, StreamState
<1>6. pipeline # <<>> /\ networkEnabled
  BY <1>1, <1>2, <1>4 DEF LinkInv, StreamInStep, InStep, IsStarted
<1>7. <<Handshake>> \in Seq(Message) /\ <<>> \o <<Handshake>> = <<Handshake>>
  BY MessageTypes, ConcatEmptySeq
<1>8. StreamInStep' /\ AnswersCommitted'
  BY <1>1, <1>4, <1>5, <1>6, <1>7 DEF StreamInStep, InStep, UnderWay, AnswersCommitted, IsReady
<1>9. PipelineFits'
  BY <1>1, <1>2 DEF LinkInv, PipelineFits, disk, session
<1> QED BY <1>1, <1>2, <1>3, <1>5, <1>7, <1>8, <1>9 DEF LinkInv

LEMMA StaleTokenArrivesInv == ASSUME IInv, StaleTokenArrives PROVE StoreInv' /\ LinkInv'
<1>1. /\ stream.stale > 0 /\ stream' = [stream EXCEPT !.stale = @ - 1]
      /\ UNCHANGED <<disk, session, asked, outcome, writes>>
      /\ UNCHANGED <<networkEnabled, pipeline, assertFailed, toServer, toClient, status, log>>
  BY DEF StaleTokenArrives, TokenIsCurrent, counters
<1>2. StoreInv /\ LinkInv
  BY DEF IInv
<1>3. StoreInv'
  BY <1>1, <1>2, StoreKept
<1>4. /\ stream' \in Stream /\ stream'.state = stream.state
      /\ stream'.handshake = stream.handshake /\ stream'.idle = stream.idle
  <2>1. stream \in Stream /\ stream.stale \in Nat
    BY <1>2 DEF LinkInv, Stream
  <2>2. stream.stale - 1 \in Nat
    BY <1>1, <2>1
  <2> QED BY <1>1, <2>1, <2>2 DEF Stream
<1>5. StreamInStep' /\ AnswersCommitted'
  BY <1>1, <1>2, <1>4 DEF LinkInv, StreamInStep, InStep, UnderWay, AnswersCommitted, IsReady,
                          IsStarted
<1>6. PipelineFits'
  BY <1>1, <1>2 DEF LinkInv, PipelineFits, disk, session
<1> QED BY <1>1, <1>2, <1>3, <1>4, <1>5, <1>6 DEF LinkInv

LEMMA BackoffElapsedInv == ASSUME IInv, BackoffElapsed PROVE StoreInv' /\ LinkInv'
<1>1. /\ stream.state = "backoff" /\ stream' = Start([stream EXCEPT !.state = "initial"])
      /\ UNCHANGED <<disk, session, asked, outcome, writes>>
      /\ UNCHANGED <<networkEnabled, pipeline, assertFailed, toServer, toClient, status, log>>
  BY DEF BackoffElapsed, counters, call
<1>2. StoreInv /\ LinkInv
  BY DEF IInv
<1>3. StoreInv'
  BY <1>1, <1>2, StoreKept
<1>4. /\ stream' \in Stream /\ stream'.state = "starting"
      /\ stream'.handshake = stream.handshake /\ stream'.idle = stream.idle
  BY <1>1, <1>2 DEF LinkInv, Stream, StreamState, Start
<1>5. StreamInStep' /\ AnswersCommitted'
  BY <1>1, <1>2, <1>4 DEF LinkInv, StreamInStep, InStep, UnderWay, AnswersCommitted, IsReady,
                          IsStarted
<1>6. PipelineFits'
  BY <1>1, <1>2 DEF LinkInv, PipelineFits, disk, session
<1> QED BY <1>1, <1>2, <1>3, <1>4, <1>5, <1>6 DEF LinkInv

\* An idle stream has no pipeline to lose.
LEMMA IdleTimeoutInv == ASSUME IInv, IdleTimeout PROVE StoreInv' /\ LinkInv'
<1>1. /\ stream.idle /\ stream' = Stop(stream) /\ HardAssert(pipeline = <<>>)
      /\ toServer' = <<>> /\ toClient' = <<>> /\ status' = "open"
      /\ UNCHANGED <<disk, session, asked, outcome, writes>>
      /\ UNCHANGED <<networkEnabled, pipeline, log>>
  BY DEF IdleTimeout, counters
<1>2. StoreInv /\ LinkInv
  BY DEF IInv
<1>3. StoreInv'
  BY <1>1, <1>2, StoreKept
<1>4. /\ Stop(stream) \in Stream /\ ~IsStarted(Stop(stream)) /\ Stop(stream).state # "open"
      /\ ~Stop(stream).handshake /\ ~Stop(stream).idle
  BY <1>2, StoppedStream
<1>5. <<>> \o <<>> = <<>> /\ <<>> \in Seq(Message)
  BY EmptySeq, ConcatEmptySeq
<1>6. StreamInStep' /\ AnswersCommitted'
  BY <1>1, <1>4, <1>5 DEF StreamInStep, InStep, UnderWay, AnswersCommitted, IsReady
<1>7. assertFailed' = FALSE
  BY <1>1, <1>2 DEF LinkInv, StreamInStep, InStep, HardAssert
<1>8. PipelineFits'
  BY <1>1, <1>2 DEF LinkInv, PipelineFits, disk, session
<1> QED BY <1>1, <1>2, <1>3, <1>4, <1>5, <1>6, <1>7, <1>8 DEF LinkInv

\* The answer to the handshake lets the whole pipeline go.
LEMMA ReadHandshakeInv == ASSUME IInv, ReadHandshake PROVE StoreInv' /\ LinkInv'
<1> DEFINE s == [stream EXCEPT !.handshake = TRUE]
<1>1. /\ toClient # <<>> /\ ~stream.handshake
      /\ toClient' = Tail(toClient)
      /\ toServer' = toServer \o Messages(pipeline)
      /\ stream' = IF pipeline = <<>> THEN s ELSE CancelIdleCheck(s)
      /\ HardAssert(stream.state = "open")
      /\ UNCHANGED <<disk, session, asked, outcome, writes>>
      /\ UNCHANGED <<networkEnabled, pipeline, status, log>>
  BY DEF ReadHandshake, Messages, counters
<1>2. StoreInv /\ LinkInv
  BY DEF IInv
<1>3. StoreInv'
  BY <1>1, <1>2, StoreKept
<1>4. stream.state = "open"
  BY <1>1, <1>2, NothingUnderWay
<1>5. /\ toClient = <<Handshake>> /\ toServer = <<>> /\ pipeline # <<>> /\ ~stream.idle
      /\ networkEnabled
  <2>1. /\ toClient \o toServer = <<Handshake>>
        /\ toClient \in Seq(Message) /\ toServer \in Seq(Message)
        /\ pipeline # <<>> /\ ~stream.idle /\ networkEnabled
    BY <1>1, <1>2, <1>4 DEF LinkInv, StreamInStep, InStep, UnderWay, IsStarted
  <2>2. Handshake \in Message
    BY MessageTypes
  <2>3. toClient # <<>>
    BY <1>1
  <2>4. toClient # <<>> => toClient = <<Handshake>> /\ toServer = <<>>
    BY <2>1, <2>2, ConcatIsOne
  <2> QED BY <2>1, <2>3, <2>4
<1>6. Messages(pipeline) \in Seq(Message)
  BY <1>2, MessagesProperties DEF LinkInv
<1>7. toClient' = <<>> /\ toServer' = Messages(pipeline)
  <2>1. Tail(<<Handshake>>) = <<>>
    OBVIOUS
  <2> QED BY <1>1, <1>5, <1>6, <2>1, ConcatEmptySeq
<1>8. /\ stream' \in Stream /\ stream'.state = "open" /\ stream'.handshake /\ ~stream'.idle
  BY <1>1, <1>2, <1>4, <1>5 DEF LinkInv, Stream, StreamState, CancelIdleCheck
<1>9. StreamInStep' /\ AnswersCommitted'
  <2>1. <<>> \o Messages(pipeline) = Messages(pipeline)
    BY <1>6, ConcatEmptySeq
  <2> QED BY <1>1, <1>5, <1>7, <1>8, <2>1
          DEF StreamInStep, InStep, UnderWay, AnswersCommitted, Messages
<1>10. assertFailed' = FALSE
  BY <1>1, <1>2, <1>4 DEF LinkInv, HardAssert
<1>11. PipelineFits'
  BY <1>1, <1>2 DEF LinkInv, PipelineFits, disk, session
<1> QED BY <1>1, <1>2, <1>3, <1>6, <1>7, <1>8, <1>9, <1>10, <1>11, EmptySeq DEF LinkInv

\* When the stream is ready, the first answer is that of the front batch.
LEMMA AnswerIsOfFront ==
    ASSUME LinkInv, stream.handshake, toClient # <<>>
    PROVE  /\ IsReady(stream) /\ pipeline # <<>>
           /\ toClient \o toServer = Messages(pipeline)
           /\ Head(toClient) = Writing(Head(pipeline))
           /\ Tail(toClient) \in Seq(Message)
           /\ Tail(toClient) \o toServer = Messages(Tail(pipeline))
<1>1. /\ IsReady(stream) /\ toClient \o toServer = Messages(pipeline)
      /\ toClient \in Seq(Message) /\ toServer \in Seq(Message) /\ pipeline \in Seq(Batch)
  BY DEF LinkInv, StreamInStep, InStep, UnderWay, IsReady
<1>2. toClient \o toServer # <<>>
  BY <1>1, ConcatEqualIffEmpty
<1>3. pipeline # <<>>
  <2>1. CASE pipeline = <<>>
    <3>1. Messages(pipeline) \in Seq(Message) /\ Len(Messages(pipeline)) = 0
      BY <1>1, <2>1, MessagesProperties, EmptySeq
    <3> QED BY <1>1, <1>2, <3>1, EmptySeq
  <2> QED BY <2>1
<1>4. /\ Tail(toClient \o toServer) = Tail(toClient) \o toServer
      /\ Head(toClient \o toServer) = Head(toClient)
  BY <1>1, TailOfConcat
<1>5. /\ Head(Messages(pipeline)) = Writing(Head(pipeline))
      /\ Tail(Messages(pipeline)) = Messages(Tail(pipeline))
  BY <1>1, <1>3, MessagesOfTail
<1>6. Tail(toClient) \in Seq(Message)
  BY <1>1, HeadTailProperties
<1> QED BY <1>1, <1>3, <1>4, <1>5, <1>6

LEMMA ReadResultInv == ASSUME IInv, ReadResult PROVE StoreInv' /\ LinkInv'
<1>1. /\ toClient # <<>> /\ stream.handshake /\ toClient' = Tail(toClient)
      /\ HardAssert(stream.state = "open" /\ FrontIsStored)
      /\ FrontAnswered("acknowledged", stream, toServer)
      /\ UNCHANGED <<session, networkEnabled, writes>> /\ UNCHANGED <<status, log>>
  BY DEF ReadResult, counters
<1>2. StoreInv /\ LinkInv
  BY DEF IInv
<1>3. /\ IsReady(stream) /\ pipeline # <<>>
      /\ Tail(toClient) \in Seq(Message)
      /\ Tail(toClient) \o toServer = Messages(Tail(pipeline))
  BY <1>1, <1>2, AnswerIsOfFront
<1>4. ~stream.idle /\ stream \in Stream /\ toServer \in Seq(Message) /\ stream.state = "open"
  BY <1>2, <1>3 DEF LinkInv, StreamInStep, InStep, IsReady
<1>5. InStep(stream, Tail(pipeline), Tail(toClient), toServer)
  BY <1>1, <1>3, <1>4 DEF InStep, UnderWay
<1>6. /\ StoreInv' /\ PipelineFits'
      /\ pipeline' \in Seq(Batch) /\ stream' \in Stream /\ toServer' \in Seq(Message)
      /\ InStep(stream', pipeline', Tail(toClient), toServer')
      /\ stream'.state = "open" <=> stream.state = "open"
      /\ stream'.handshake = stream.handshake
  BY <1>1, <1>3, <1>4, <1>5, FrontAnsweredStep
<1>7. networkEnabled /\ FrontIsStored
  BY <1>3, FrontLeaves
<1>8. assertFailed' = FALSE
  BY <1>1, <1>2, <1>4, <1>7 DEF LinkInv, HardAssert
<1>9. StreamInStep'
  BY <1>1, <1>4, <1>6, <1>7 DEF StreamInStep
<1>10. AnswersCommitted'
  <2>1. /\ toClient \in Seq(Message)
        /\ \A i \in DOMAIN toClient : toClient[i].batch.write \in ToSet(log)
    BY <1>2, <1>3 DEF LinkInv, AnswersCommitted
  <2>2. /\ Len(toClient) \in Nat \ {0} /\ Len(Tail(toClient)) = Len(toClient) - 1
        /\ \A i \in 1 .. Len(toClient) - 1 : Tail(toClient)[i] = toClient[i + 1]
    BY <1>1, <2>1, TailElements
  <2>3. DOMAIN toClient = 1 .. Len(toClient) /\ DOMAIN Tail(toClient) = 1 .. Len(toClient) - 1
    BY <1>3, <2>1, <2>2, LenProperties
  <2>4. \A i \in DOMAIN Tail(toClient) : i + 1 \in DOMAIN toClient
    BY <2>2, <2>3
  <2> QED BY <1>1, <2>1, <2>2, <2>3, <2>4 DEF AnswersCommitted
<1> QED BY <1>1, <1>2, <1>3, <1>6, <1>8, <1>9, <1>10 DEF LinkInv

-----------------------------------------------------------------------------
(* The backend keeps the invariant.                                        *)

LEMMA ServerHandshakeInv == ASSUME IInv, ServerHandshake PROVE StoreInv' /\ LinkInv'
<1>1. /\ toServer # <<>> /\ Head(toServer) = Handshake
      /\ toServer' = Tail(toServer) /\ toClient' = Append(toClient, Head(toServer))
      /\ UNCHANGED <<disk, session, asked, outcome, writes>>
      /\ UNCHANGED <<networkEnabled, pipeline, stream, assertFailed, status, log>>
  BY DEF ServerHandshake, Serving, remote, counters
<1>2. StoreInv /\ LinkInv
  BY DEF IInv
<1>3. StoreInv'
  BY <1>1, <1>2, StoreKept
<1>4. /\ toClient \in Seq(Message) /\ toServer \in Seq(Message)
      /\ toClient' \in Seq(Message) /\ toServer' \in Seq(Message)
      /\ toClient' \o toServer' = toClient \o toServer
  <2>1. toClient \in Seq(Message) /\ toServer \in Seq(Message)
    BY <1>2 DEF LinkInv
  <2>2. Head(toServer) \in Message /\ Tail(toServer) \in Seq(Message)
    BY <1>1, <2>1, HeadTailProperties
  <2>3. Append(toClient, Head(toServer)) \in Seq(Message)
    BY <2>1, <2>2, AppendProperties
  <2>4. Append(toClient, Head(toServer)) \o Tail(toServer) = toClient \o toServer
    BY <1>1, <2>1, HeadMoves
  <2> QED BY <1>1, <2>1, <2>2, <2>3, <2>4
<1>5. StreamInStep'
  BY <1>1, <1>2, <1>4 DEF LinkInv, StreamInStep, InStep
<1>6. ~IsReady(stream)
  <2> SUFFICES ASSUME IsReady(stream)
               PROVE  FALSE
    OBVIOUS
  <2>1. toClient \o toServer = Messages(pipeline) /\ pipeline \in Seq(Batch)
    BY <1>2 DEF LinkInv, StreamInStep, InStep, UnderWay, IsReady
  <2>2. /\ Len(toClient) \in Nat /\ Len(toServer) \in Nat \ {0} /\ Head(toServer) = toServer[1]
    BY <1>1, <1>4, TailElements
  <2>3. /\ Len(toClient \o toServer) = Len(toClient) + Len(toServer)
        /\ (toClient \o toServer)[Len(toClient) + 1] = toServer[1]
    BY <1>4, <2>2, ConcatProperties
  <2>4. /\ Len(pipeline) = Len(toClient) + Len(toServer)
        /\ toServer[1] = Writing(pipeline[Len(toClient) + 1])
        /\ pipeline[Len(toClient) + 1] \in Batch
    <3>1. /\ Len(Messages(pipeline)) = Len(pipeline)
          /\ \A i \in 1 .. Len(pipeline) : Messages(pipeline)[i] = Writing(pipeline[i])
          /\ \A i \in 1 .. Len(pipeline) : pipeline[i] \in Batch
      BY <2>1, MessagesProperties, ElementOfSeq
    <3>2. Len(toClient) + 1 \in 1 .. Len(pipeline)
      BY <2>1, <2>2, <2>3, <3>1
    <3> QED BY <2>1, <2>3, <3>1, <3>2
  <2> QED BY <1>1, <2>2, <2>4, MessageTypes
<1>7. AnswersCommitted'
  BY <1>1, <1>6 DEF AnswersCommitted, IsReady
<1>8. PipelineFits'
  BY <1>1, <1>2 DEF LinkInv, PipelineFits, disk, session
<1> QED BY <1>1, <1>2, <1>3, <1>4, <1>5, <1>7, <1>8 DEF LinkInv

\* A write that the backend handles is the next of the pipeline.
LEMMA ServerHandlesNext ==
    ASSUME LinkInv, toServer # <<>>, Head(toServer).type = "write"
    PROVE  /\ IsReady(stream)
           /\ Len(toClient) + 1 \in 1 .. Len(pipeline)
           /\ Head(toServer) = Writing(pipeline[Len(toClient) + 1])
           /\ pipeline[Len(toClient) + 1] \in Batch
           /\ \A i \in 1 .. Len(toClient) : toClient[i] = Writing(pipeline[i])
<1>1. /\ toClient \in Seq(Message) /\ toServer \in Seq(Message) /\ pipeline \in Seq(Batch)
      /\ toClient \o toServer = UnderWay(stream, pipeline)
  BY DEF LinkInv, StreamInStep, InStep
<1>2. stream.state = "open"
  BY NothingUnderWay
<1>3. stream.handshake
  <2> SUFFICES ASSUME ~stream.handshake
               PROVE  FALSE
    OBVIOUS
  <2>1. toClient \o toServer = <<Handshake>> /\ Handshake \in Message
    BY <1>1, <1>2, MessageTypes DEF UnderWay
  <2>2. toServer = <<Handshake>>
    BY <1>1, <2>1, ConcatIsOne
  <2>3. Head(toServer) = Handshake
    BY <2>2
  <2> QED BY <2>3 DEF Handshake
<1>4. toClient \o toServer = Messages(pipeline)
  BY <1>1, <1>2, <1>3 DEF UnderWay
<1>5. /\ Len(toClient) \in Nat /\ Len(toServer) \in Nat \ {0} /\ Head(toServer) = toServer[1]
  BY <1>1, TailElements
<1>6. /\ Len(toClient \o toServer) = Len(toClient) + Len(toServer)
      /\ \A i \in 1 .. Len(toClient) : (toClient \o toServer)[i] = toClient[i]
      /\ (toClient \o toServer)[Len(toClient) + 1] = toServer[1]
  BY <1>1, <1>5, ConcatProperties
<1>7. /\ Len(Messages(pipeline)) = Len(pipeline)
      /\ \A i \in 1 .. Len(pipeline) : Messages(pipeline)[i] = Writing(pipeline[i])
      /\ \A i \in 1 .. Len(pipeline) : pipeline[i] \in Batch
  BY <1>1, MessagesProperties, ElementOfSeq
<1>8. Len(toClient) + 1 \in 1 .. Len(pipeline)
  BY <1>4, <1>5, <1>6, <1>7
<1>9. \A i \in 1 .. Len(toClient) : i \in 1 .. Len(pipeline)
  BY <1>5, <1>8
<1> QED BY <1>2, <1>3, <1>4, <1>5, <1>6, <1>7, <1>8, <1>9 DEF IsReady

LEMMA ServerCommitInv == ASSUME IInv, ServerCommit PROVE StoreInv' /\ LinkInv'
<1> DEFINE m == Head(toServer)
<1>1. /\ toServer # <<>> /\ m.type = "write"
      /\ toServer' = Tail(toServer) /\ toClient' = Append(toClient, m)
      /\ log' = Append(log, m.batch.write)
      /\ UNCHANGED <<disk, session, asked, outcome, writes>>
      /\ UNCHANGED <<networkEnabled, pipeline, stream, assertFailed, status>>
  BY DEF ServerCommit, Serving, remote, counters
<1>2. StoreInv /\ LinkInv
  BY DEF IInv
<1>3. StoreInv'
  BY <1>1, <1>2, StoreKept
<1>4. /\ toClient \in Seq(Message) /\ toServer \in Seq(Message) /\ m \in Message
      /\ toClient' \in Seq(Message) /\ toServer' \in Seq(Message)
      /\ toClient' \o toServer' = toClient \o toServer
  <2>1. toClient \in Seq(Message) /\ toServer \in Seq(Message)
    BY <1>2 DEF LinkInv
  <2>2. m \in Message /\ Tail(toServer) \in Seq(Message)
    BY <1>1, <2>1, HeadTailProperties
  <2>3. Append(toClient, m) \in Seq(Message)
    BY <2>1, <2>2, AppendProperties
  <2>4. Append(toClient, m) \o Tail(toServer) = toClient \o toServer
    BY <1>1, <2>1, HeadMoves
  <2> QED BY <1>1, <2>1, <2>2, <2>3, <2>4
<1>5. StreamInStep'
  BY <1>1, <1>2, <1>4 DEF LinkInv, StreamInStep, InStep
<1>6. IsReady(stream) /\ m.batch.write \in Write
  <2> DEFINE b == pipeline[Len(toClient) + 1]
  <2>1. IsReady(stream) /\ m = Writing(b) /\ b \in Batch
    BY <1>1, <1>2, ServerHandlesNext
  <2> HIDE DEF b
  <2> QED BY <2>1 DEF Writing, Batch
<1> HIDE DEF m
<1>7. /\ log \in Seq(Write) /\ log' \in Seq(Write)
      /\ ToSet(log) \subseteq ToSet(log') /\ m.batch.write \in ToSet(log')
  <2> DEFINE x == m.batch.write
             l == Append(log, x)
  <2>1. log \in Seq(Write) /\ x \in Write
    BY <1>2, <1>6 DEF LinkInv
  <2> HIDE DEF x
  <2>2. /\ l \in Seq(Write) /\ Len(l) = Len(log) + 1
        /\ \A i \in 1 .. Len(log) : l[i] = log[i]
        /\ l[Len(log) + 1] = x
    BY <2>1, AppendProperties
  <2>3. Len(log) \in Nat /\ DOMAIN log = 1 .. Len(log) /\ DOMAIN l = 1 .. Len(log) + 1
    BY <2>1, <2>2, LenProperties
  <2>4. log' = l
    BY <1>1 DEF x
  <2> HIDE DEF l
  <2>5. ToSet(log) \subseteq ToSet(l)
    BY <2>2, <2>3 DEF ToSet
  <2>6. Len(log) + 1 \in DOMAIN l
    BY <2>3
  <2>7. x \in ToSet(l)
    BY <2>2, <2>6 DEF ToSet
  <2> QED BY <2>1, <2>2, <2>4, <2>5, <2>7 DEF x
<1>8. AnswersCommitted'
  <2>1. /\ Len(toClient) \in Nat /\ Len(toClient') = Len(toClient) + 1
        /\ \A i \in 1 .. Len(toClient) : toClient'[i] = toClient[i]
        /\ toClient'[Len(toClient) + 1] = m
    BY <1>1, <1>4, AppendProperties
  <2>2. DOMAIN toClient' = 1 .. Len(toClient) + 1 /\ DOMAIN toClient = 1 .. Len(toClient)
    BY <1>4, <2>1, LenProperties
  <2>3. \A i \in 1 .. Len(toClient) : toClient[i].batch.write \in ToSet(log)
    BY <1>2, <1>6, <2>2 DEF LinkInv, AnswersCommitted
  <2>4. ASSUME NEW i \in 1 .. Len(toClient) + 1
        PROVE  toClient'[i].batch.write \in ToSet(log')
    <3>1. CASE i = Len(toClient) + 1
      BY <1>7, <2>1, <3>1
    <3>2. CASE i \in 1 .. Len(toClient)
      BY <1>7, <2>1, <2>3, <3>2
    <3> QED BY <2>1, <3>1, <3>2
  <2> QED BY <2>2, <2>4 DEF AnswersCommitted
<1>9. PipelineFits'
  BY <1>1, <1>2 DEF LinkInv, PipelineFits, disk, session
<1> QED BY <1>1, <1>2, <1>3, <1>4, <1>5, <1>7, <1>8, <1>9 DEF LinkInv

\* A call that has ended is one of an open stream.
LEMMA CallEndsInv ==
    ASSUME IInv, ServerReject \/ CallFails
    PROVE  StoreInv' /\ LinkInv'
<1>1. /\ status' \in {"transient", "permanent"}
      /\ UNCHANGED <<disk, session, asked, outcome, writes>>
      /\ UNCHANGED <<networkEnabled, pipeline, stream, assertFailed, toServer, toClient, log>>
  BY DEF ServerReject, CallFails, remote, counters
<1>2. StoreInv /\ LinkInv
  BY DEF IInv
<1>3. StoreInv'
  BY <1>1, <1>2, StoreKept
<1>4. stream.state = "open"
  <2>1. CASE ServerReject
    BY <1>2, <2>1, NothingUnderWay DEF ServerReject, Serving
  <2>2. CASE CallFails
    BY <2>2 DEF CallFails
  <2> QED BY <2>1, <2>2
<1>5. StreamInStep' /\ AnswersCommitted' /\ PipelineFits'
  BY <1>1, <1>2, <1>4
     DEF LinkInv, StreamInStep, InStep, AnswersCommitted, PipelineFits, disk, session
<1> QED BY <1>1, <1>2, <1>3, <1>5 DEF LinkInv

-----------------------------------------------------------------------------
(* The theorems.                                                           *)

LEMMA NextInv == IInv /\ [Next]_vars => IInv'
<1> SUFFICES ASSUME IInv, [Next]_vars
             PROVE  IInv'
  OBVIOUS
<1>1. BoundsInv'
  <2>1. faults \in Nat /\ changes \in Nat /\ MaxFaults \in Nat /\ MaxChanges \in Nat
        /\ faults \in 0 .. MaxFaults /\ changes \in 0 .. MaxChanges
    BY WriteBounds DEF IInv, BoundsInv
  <2>2. /\ faults' = faults \/ (faults' = faults + 1 /\ faults < MaxFaults)
        /\ changes' = changes \/ (changes' = changes + 1 /\ changes < MaxChanges)
    BY DEF Next, App, Around, StreamEvent, Backend, vars, counters, Changing, WriteMutations,
           RegisterPendingWritesCallback, DisableNetwork, EnableNetwork,
           HandleCredentialChange, ConnectivityChanged, Relaunch, TokenArrives, TokenFails,
           StaleTokenArrives, BackoffElapsed, IdleTimeout, ReadHandshake, ReadResult,
           StreamFinishes, CloseStream, ServerHandshake, ServerCommit, ServerReject, CallFails
  <2> QED BY <2>1, <2>2 DEF BoundsInv
<1>2. StoreInv' /\ LinkInv'
  <2>1. CASE WriteMutations
    BY <2>1, WriteMutationsInv
  <2>2. CASE RegisterPendingWritesCallback
    BY <2>2, RegisterInv
  <2>3. CASE DisableNetwork
    BY <2>3, DisableNetworkInv
  <2>4. CASE EnableNetwork
    BY <2>4, EnableNetworkInv
  <2>5. CASE HandleCredentialChange
    BY <2>5, HandleCredentialChangeInv
  <2>6. CASE ConnectivityChanged
    BY <2>6, ConnectivityChangedInv
  <2>7. CASE Relaunch
    BY <2>7, RelaunchInv
  <2>8. CASE TokenArrives
    BY <2>8, TokenArrivesInv
  <2>9. CASE TokenFails
    BY <2>9, CloseStreamInv DEF TokenFails, IsStarted
  <2>10. CASE StaleTokenArrives
    BY <2>10, StaleTokenArrivesInv
  <2>11. CASE BackoffElapsed
    BY <2>11, BackoffElapsedInv
  <2>12. CASE IdleTimeout
    BY <2>12, IdleTimeoutInv
  <2>13. CASE ReadHandshake
    BY <2>13, ReadHandshakeInv
  <2>14. CASE ReadResult
    BY <2>14, ReadResultInv
  <2>15. CASE StreamFinishes
    <3>1. status \in {"transient", "permanent"} /\ CloseStream(status)
      BY <2>15 DEF StreamFinishes, IInv, LinkInv
    <3>2. IsStarted(stream)
      BY <3>1 DEF IInv, LinkInv, StreamInStep, IsStarted
    <3> QED BY <3>1, <3>2, CloseStreamInv
  <2>16. CASE ServerHandshake
    BY <2>16, ServerHandshakeInv
  <2>17. CASE ServerCommit
    BY <2>17, ServerCommitInv
  <2>18. CASE ServerReject \/ CallFails
    BY <2>18, CallEndsInv
  <2>19. CASE UNCHANGED vars
    <3>1. /\ UNCHANGED <<disk, session, asked, outcome, writes>>
          /\ UNCHANGED <<networkEnabled, pipeline, stream, assertFailed, toServer, toClient,
                         status, log>>
      BY <2>19 DEF vars, remote, call, counters
    <3>2. StoreInv'
      BY <3>1, StoreKept DEF IInv
    <3> QED BY <3>1, <3>2 DEF IInv, LinkInv, StreamInStep, InStep, AnswersCommitted,
                            PipelineFits, disk, session
  <2> QED BY <2>1, <2>2, <2>3, <2>4, <2>5, <2>6, <2>7, <2>8, <2>9, <2>10, <2>11, <2>12,
             <2>13, <2>14, <2>15, <2>16, <2>17, <2>18, <2>19
          DEF Next, App, Around, StreamEvent, Backend
<1> QED BY <1>1, <1>2 DEF IInv

LEMMA Invariance == Spec => []IInv
BY InitInv, NextInv, PTL DEF Spec

\* Batches, callbacks, the stream and its messages keep their types.
THEOREM TypeCorrect == Spec => []TypeOK
<1>1. IInv => TypeOK
  BY DEF IInv, StoreInv, LinkInv, BoundsInv, TypeOK
<1> QED BY <1>1, Invariance, PTL

\* No assertion that the actions evaluate, of remote_store.cc, stream.cc and the
\* files around them, fails, in any order of calls, timers, answers, failures and
\* restarts, as long as the backend ends no call with status OK.
THEOREM NoAssertionFails == Spec => []AssertionsHold
<1>1. IInv => AssertionsHold
  BY DEF IInv, LinkInv, AssertionsHold
<1> QED BY <1>1, Invariance, PTL

\* What is sent is what is stored, from its front, and as many as fit.
THEOREM FrontIsSent == Spec => []PipelineIsFront
<1>1. IInv => PipelineIsFront
  BY DEF IInv, LinkInv, PipelineFits, AtFront, PipelineIsFront
<1> QED BY <1>1, Invariance, PTL

\* The nth answer is that of the nth batch of the pipeline.
THEOREM ResponsesMatch == Spec => []ResponsesMatchPipeline
<1>1. IInv => ResponsesMatchPipeline
  BY DEF IInv, LinkInv, StreamInStep, InStep, UnderWay, IsReady, Messages,
         ResponsesMatchPipeline
<1> QED BY <1>1, Invariance, PTL

\* No batch leaves without its callback, and no ID is given twice while a
\* callback waits for it.
THEOREM CallbacksArePending == Spec => []CallbacksPending
<1>1. IInv => CallbacksPending
  BY DEF IInv, StoreInv, CallbacksStored, WaitersStored, Ids, CallbacksPending
<1> QED BY <1>1, Invariance, PTL

\* waitForPendingWrites calls back when every batch that was pending at the
\* time of the call has been answered, and no earlier.
THEOREM WaitersAreSettled == Spec => WaitersSettled
<1> DEFINE A == changes' = changes =>
                    \A n \in waiters \ waiters' :
                        \A i \in DOMAIN mutations'[user] : mutations'[user][i].write > n.last
<1>1. IInv /\ [Next]_vars => A \/ UNCHANGED vars
  <2> SUFFICES ASSUME IInv, Next, changes' = changes,
                      NEW n \in waiters \ waiters',
                      NEW i \in DOMAIN mutations'[user]
               PROVE  mutations'[user][i].write > n.last
    OBVIOUS
  <2> DEFINE q == mutations[user]
             t == Tail(q)
             b == Head(q)
  <2>1. changes \in Nat
    BY WriteBounds DEF IInv, BoundsInv
  <2>2. /\ ~HandleCredentialChange /\ ~Relaunch /\ ~DisableNetwork /\ ~EnableNetwork
        /\ ~ConnectivityChanged
    BY <2>1 DEF HandleCredentialChange, Relaunch, DisableNetwork, EnableNetwork,
                ConnectivityChanged, Changing
  <2>3. /\ pipeline # <<>>
        /\ \E how \in {"acknowledged", "rejected"} : \E s, w : FrontAnswered(how, s, w)
    <3>1. waiters' # waiters /\ ~(waiters \subseteq waiters')
      OBVIOUS
    <3>2. CASE ReadResult
      BY <3>2, AnswerIsOfFront DEF ReadResult, IInv
    <3>3. ASSUME NEW how, CloseStream(how)
          PROVE  /\ pipeline # <<>>
                 /\ \E s, w : FrontAnswered("rejected", s, w)
      BY <3>1, <3>3 DEF CloseStream, ErrorIsOfWrite
    <3>4. ~WriteMutations /\ ~RegisterPendingWritesCallback
      BY <3>1 DEF WriteMutations, RegisterPendingWritesCallback
    <3>5. /\ ~TokenArrives /\ ~StaleTokenArrives /\ ~BackoffElapsed /\ ~IdleTimeout
          /\ ~ReadHandshake /\ ~ServerHandshake /\ ~ServerCommit /\ ~ServerReject
          /\ ~CallFails
      BY <3>1 DEF TokenArrives, StaleTokenArrives, BackoffElapsed, IdleTimeout,
                  ReadHandshake, ServerHandshake, ServerCommit, ServerReject, CallFails, asked
    <3> QED BY <2>2, <3>2, <3>3, <3>4, <3>5
            DEF Next, App, Around, StreamEvent, Backend, TokenFails, StreamFinishes
  <2>4. /\ q \in Seq(Batch) /\ q # <<>> /\ Head(pipeline) = b
        /\ Without(q, Head(pipeline)) = t
    BY <2>3, FrontLeaves
  <2>5. mutations' = [mutations EXCEPT ![user] = t] /\ waiters' = {m \in waiters : m.id # b.id}
    BY <2>3, <2>4 DEF FrontAnswered
  <2>6. StoreInv
    BY DEF IInv
  <2>7. mutations'[user] = t /\ n.id = b.id
    BY <2>5, <2>6 DEF StoreInv
  <2>8. PICK k \in DOMAIN q : n.id = q[k].id /\ n.last = q[k].write
    BY <2>6 DEF StoreInv, WaitersStored
  <2>9. Ascending(q)
    BY <2>6 DEF StoreInv, QueuesInOrder
  <2>10. /\ \A j \in DOMAIN t : b.id < t[j].id /\ b.write < t[j].write
         /\ q[k] = b \/ \E j \in DOMAIN t : q[k] = t[j]
    BY <2>4, <2>8, <2>9, TailAscending
  <2>11. b \in Batch /\ \A j \in DOMAIN t : t[j] \in Batch
    BY <2>4, HeadTailProperties
  <2> HIDE DEF q, t, b
  <2>12. q[k] = b
    BY <2>7, <2>8, <2>10, <2>11 DEF Batch
  <2>13. b.write < t[i].write /\ t[i].write \in Nat /\ n.last = b.write /\ b.write \in Nat
    BY <2>7, <2>8, <2>10, <2>11, <2>12 DEF Batch, Write
  <2> QED BY <2>7, <2>13
<1>2. IInv /\ [Next]_vars => [A]_vars
  BY <1>1
<1> QED BY <1>2, Invariance, PTL DEF Spec, WaitersSettled

-----------------------------------------------------------------------------
(* The client implements AcceptedWrites.                                   *)

\* The writes of a queue
WritesOf(q) == [i \in DOMAIN q |-> q[i].write]

Pending == [u \in User |-> WritesOf(mutations[u])]

\* Adding a batch and removing the first do the same to the writes.
LEMMA WritesOfProperties ==
    ASSUME NEW q \in Seq(Batch)
    PROVE  /\ \A b \in Batch : WritesOf(Append(q, b)) = Append(WritesOf(q), b.write)
           /\ q # <<>> => /\ WritesOf(q) # <<>>
                          /\ Head(WritesOf(q)) = Head(q).write
                          /\ WritesOf(Tail(q)) = Tail(WritesOf(q))
<1> DEFINE v == WritesOf(q)
<1>1. Len(q) \in Nat /\ DOMAIN q = 1 .. Len(q) /\ \A i \in 1 .. Len(q) : q[i] \in Batch
  BY LenProperties, ElementOfSeq
<1>2. /\ v \in Seq(Write) /\ Len(v) = Len(q)
      /\ \A i \in 1 .. Len(q) : v[i] = q[i].write
  <2>1. v \in [1 .. Len(q) -> Write] /\ \A i \in 1 .. Len(q) : v[i] = q[i].write
    BY <1>1 DEF WritesOf, Batch
  <2>2. v \in Seq(Write)
    BY <1>1, <2>1, SeqDef
  <2> QED BY <1>1, <2>1, <2>2, LenProperties
<1> HIDE DEF v
<1>3. ASSUME NEW b \in Batch
      PROVE  WritesOf(Append(q, b)) = Append(v, b.write)
  <2> DEFINE a == Append(q, b)
             x == b.write
             l == WritesOf(a)
             r == Append(v, x)
  <2>1. /\ a \in Seq(Batch) /\ Len(a) = Len(q) + 1
        /\ \A i \in 1 .. Len(q) : a[i] = q[i]
        /\ a[Len(q) + 1] = b
    BY AppendProperties
  <2>2. DOMAIN a = 1 .. Len(q) + 1
    BY <2>1, LenProperties
  <2>3. x \in Write
    BY DEF Batch
  <2> HIDE DEF a
  <2>4. /\ r \in Seq(Write) /\ Len(r) = Len(q) + 1
        /\ \A i \in 1 .. Len(q) : r[i] = v[i]
        /\ r[Len(q) + 1] = x
    <3> HIDE DEF x
    <3>1. /\ r \in Seq(Write) /\ Len(r) = Len(v) + 1
          /\ \A i \in 1 .. Len(v) : r[i] = v[i]
          /\ r[Len(v) + 1] = x
      BY <1>2, <2>3, AppendProperties
    <3> HIDE DEF r
    <3> QED BY <1>2, <3>1
  <2>5. DOMAIN r = 1 .. Len(q) + 1
    BY <2>4, LenProperties
  <2>6. r \in [1 .. Len(q) + 1 -> Write]
    BY <2>4, LenProperties
  <2>7. \A i \in 1 .. Len(q) + 1 : r[i] = a[i].write
    BY <1>1, <1>2, <2>1, <2>4
  <2>8. l = [i \in 1 .. Len(q) + 1 |-> a[i].write]
    BY <2>2 DEF WritesOf
  <2> HIDE DEF r, l
  <2>9. l = r
    BY <2>6, <2>7, <2>8
  <2> QED BY <2>9 DEF l, r, a, x
<1>4. ASSUME q # <<>>
      PROVE  v # <<>> /\ Head(v) = Head(q).write /\ WritesOf(Tail(q)) = Tail(v)
  <2>1. /\ Len(q) \in Nat \ {0} /\ Head(q) = q[1] /\ Tail(q) \in Seq(Batch)
        /\ Len(Tail(q)) = Len(q) - 1
        /\ \A i \in 1 .. Len(q) - 1 : Tail(q)[i] = q[i + 1]
    BY <1>4, TailElements
  <2>2. v # <<>>
    BY <1>2, <2>1, EmptySeq
  <2>3. /\ Head(v) = v[1] /\ Tail(v) \in Seq(Write) /\ Len(Tail(v)) = Len(v) - 1
        /\ \A i \in 1 .. Len(v) - 1 : Tail(v)[i] = v[i + 1]
    BY <1>2, <2>2, TailElements
  <2>4. DOMAIN Tail(q) = 1 .. Len(q) - 1 /\ Tail(v) \in [1 .. Len(q) - 1 -> Write]
    BY <1>2, <2>1, <2>3, LenProperties
  <2>5. \A i \in 1 .. Len(q) - 1 : Tail(v)[i] = Tail(q)[i].write
    BY <1>2, <2>1, <2>3
  <2>6. WritesOf(Tail(q)) = [i \in 1 .. Len(q) - 1 |-> Tail(q)[i].write]
    BY <2>4 DEF WritesOf
  <2>7. WritesOf(Tail(q)) = Tail(v)
    BY <2>4, <2>5, <2>6
  <2>8. Head(v) = Head(q).write
    BY <1>2, <2>1, <2>3
  <2> QED BY <2>2, <2>7, <2>8
<1> QED BY <1>3, <1>4 DEF v

\* The batch at the front leaves its queue, whatever has become of it.
LEMMA FrontLeavesPending ==
    ASSUME IInv, pipeline # <<>>, NEW how \in {"acknowledged", "rejected"},
           NEW s, NEW w, FrontAnswered(how, s, w), log' = log,
           NEW u \in User, u = user
    PROVE  Accepted!Leave(u, how)
<1> DEFINE q == mutations[u]
<1>1. /\ q \in Seq(Batch) /\ q # <<>> /\ Head(pipeline) = Head(q)
      /\ Without(q, Head(pipeline)) = Tail(q)
  BY FrontLeaves
<1>2. /\ mutations' = [mutations EXCEPT ![u] = Tail(q)]
      /\ outcome' = [outcome EXCEPT ![Head(q).write] = how]
  BY <1>1 DEF FrontAnswered
<1>3. mutations \in [User -> Seq(Batch)]
  BY DEF IInv, StoreInv
<1>4. /\ WritesOf(q) # <<>> /\ Head(WritesOf(q)) = Head(q).write
      /\ WritesOf(Tail(q)) = Tail(WritesOf(q))
  BY <1>1, WritesOfProperties
<1>5. Pending[u] = WritesOf(q)
  BY <1>3 DEF Pending
<1>6. Pending' = [Pending EXCEPT ![u] = Tail(@)]
  <2>1. Pending' = [v \in User |-> WritesOf(mutations'[v])]
    BY DEF Pending, WritesOf
  <2> HIDE DEF q
  <2>2. \A v \in User : mutations'[v] = IF v = u THEN Tail(q) ELSE mutations[v]
    BY <1>2, <1>3
  <2>3. \A v \in User : WritesOf(mutations'[v]) = IF v = u THEN Tail(WritesOf(q))
                                                  ELSE WritesOf(mutations[v])
    BY <1>4, <2>2
  <2> QED BY <1>3, <1>5, <2>1, <2>3 DEF Pending
<1> QED BY <1>2, <1>4, <1>5, <1>6 DEF Accepted!Leave, Pending, WritesOf

LEMMA AcceptedInit == Init => Accepted!Init
<1> SUFFICES ASSUME Init
             PROVE  Accepted!Init
  OBVIOUS
<1>1. \A u \in User : mutations[u] = <<>> /\ DOMAIN mutations[u] = {}
  BY EmptySeq, LenProperties DEF Init
<1>2. \A u \in User : [i \in DOMAIN mutations[u] |-> mutations[u][i].write] = <<>>
  BY <1>1
<1> QED BY <1>2 DEF Init, Accepted!Init

\* A step for one of the users is a step of AcceptedWrites.
LEMMA AcceptedStep ==
    ASSUME NEW u \in User,
           \/ \E w \in Write : Accepted!Accept(u, w)
           \/ \E i \in DOMAIN Pending[u] : Accepted!Commit(u, i)
           \/ Accepted!Acknowledge(u)
           \/ Accepted!Reject(u)
    PROVE  Accepted!Next
BY DEF Accepted!Next, Pending, WritesOf

\* Each step accepts a write, commits one, lets the first leave, or does
\* nothing that AcceptedWrites can see.
LEMMA AcceptedNext == IInv /\ [Next]_vars => [Accepted!Next]_(Accepted!vars)
<1> SUFFICES ASSUME IInv, [Next]_vars
             PROVE  Accepted!Next \/ UNCHANGED Accepted!vars
  OBVIOUS
<1>0. PICK u \in User : u = user
  BY DEF IInv, StoreInv
<1> DEFINE q == mutations[user]
<1>1. StoreInv /\ LinkInv /\ q \in Seq(Batch) /\ user \in User
  BY DEF IInv, StoreInv
<1>2. Pending[u] = WritesOf(q) /\ DOMAIN WritesOf(q) = DOMAIN q
  BY <1>0 DEF Pending, WritesOf
<1>3. ASSUME UNCHANGED <<mutations, outcome, log>>
      PROVE  UNCHANGED Accepted!vars
  BY <1>3 DEF Accepted!vars
<1>4. CASE WriteMutations
  <2> DEFINE b == [id |-> nextBatchId, write |-> writes + 1]
  <2>1. /\ mutations' = [mutations EXCEPT ![user] = Append(q, b)]
        /\ outcome' = [outcome EXCEPT ![writes + 1] = "accepted"]
        /\ writes < MaxWrites /\ log' = log
    BY <1>4 DEF WriteMutations
  <2>2. nextBatchId \in Nat \ {0} /\ writes \in Nat /\ writes + 1 \in Write
    BY <1>1, <2>1, WriteBounds DEF StoreInv, Write
  <2>3. b \in Batch /\ b.write = writes + 1
    BY <2>2 DEF Batch
  <2>4. outcome[writes + 1] = "none"
    BY <1>1, <2>2 DEF StoreInv, OutcomesToCome
  <2> HIDE DEF b
  <2>0. PICK w \in Write : w = writes + 1
    BY <2>2
  <2>5. WritesOf(Append(q, b)) = Append(WritesOf(q), w)
    BY <1>1, <2>3, <2>0, WritesOfProperties
  <2>6. Pending' = [Pending EXCEPT ![u] = Append(@, w)]
    <3>1. Pending' = [v \in User |-> WritesOf(mutations'[v])]
      BY DEF Pending, WritesOf
    <3>2. \A v \in User : mutations'[v] = IF v = u THEN Append(q, b) ELSE mutations[v]
      BY <1>0, <1>1, <2>1 DEF StoreInv
    <3> HIDE DEF q
    <3>3. \A v \in User : WritesOf(mutations'[v]) = IF v = u THEN Append(WritesOf(q), w)
                                                    ELSE WritesOf(mutations[v])
      BY <2>5, <3>2
    <3> QED BY <1>1, <1>2, <3>1, <3>3 DEF Pending
  <2>7. Accepted!Accept(u, w)
    BY <2>1, <2>4, <2>6, <2>0 DEF Accepted!Accept, Pending, WritesOf
  <2> QED BY <2>7, AcceptedStep
<1>5. CASE ReadResult
  <2>1. /\ stream.handshake /\ toClient # <<>> /\ log' = log
        /\ FrontAnswered("acknowledged", stream, toServer)
    BY <1>5 DEF ReadResult
  <2>2. /\ IsReady(stream) /\ pipeline # <<>> /\ Head(toClient) = Writing(Head(pipeline))
    BY <1>1, <2>1, AnswerIsOfFront
  <2>3. Accepted!Leave(u, "acknowledged")
    BY <1>0, <2>1, <2>2, FrontLeavesPending
  <2>4. Head(pipeline).write \in ToSet(log)
    <3>1. toClient \in Seq(Message) /\ Len(toClient) \in Nat \ {0} /\ Head(toClient) = toClient[1]
      BY <1>1, <2>1, TailElements DEF LinkInv
    <3>2. 1 \in DOMAIN toClient
      BY <3>1, LenProperties
    <3>3. toClient[1].batch.write \in ToSet(log)
      BY <1>1, <2>2, <3>2 DEF LinkInv, AnswersCommitted
    <3>4. Writing(Head(pipeline)).batch = Head(pipeline)
      BY DEF Writing
    <3> QED BY <2>2, <3>1, <3>3, <3>4
  <2>5. q # <<>> /\ Head(pipeline) = Head(q)
    BY <2>2, FrontLeaves
  <2>6. Head(Pending[u]) = Head(pipeline).write
    BY <1>1, <1>2, <2>5, WritesOfProperties
  <2>7. Accepted!Acknowledge(u)
    BY <2>3, <2>4, <2>6 DEF Accepted!Acknowledge, Pending, WritesOf, Accepted!ToSet, ToSet
  <2> QED BY <2>7, AcceptedStep
<1>6. CASE TokenFails \/ StreamFinishes
  <2>1. PICK how : CloseStream(how)
    BY <1>6 DEF TokenFails, StreamFinishes
  <2>2. log' = log
    BY <2>1 DEF CloseStream
  <2>3. CASE ErrorIsOfWrite(how)
    <3>1. pipeline # <<>> /\ \E s, w : FrontAnswered("rejected", s, w)
      BY <2>1, <2>3 DEF CloseStream, ErrorIsOfWrite
    <3>2. Accepted!Reject(u)
      BY <1>0, <2>2, <3>1, FrontLeavesPending DEF Accepted!Reject
    <3> QED BY <3>2, AcceptedStep
  <2>4. CASE ~ErrorIsOfWrite(how)
    BY <1>3, <2>1, <2>2, <2>4 DEF CloseStream
  <2> QED BY <2>3, <2>4
<1>7. CASE ServerCommit
  <2> DEFINE i == Len(toClient) + 1
             b == pipeline[i]
  <2>1. /\ toServer # <<>> /\ Head(toServer).type = "write"
        /\ log' = Append(log, Head(toServer).batch.write)
        /\ mutations' = mutations /\ outcome' = outcome
    BY <1>7 DEF ServerCommit, Serving, disk
  <2>2. /\ IsReady(stream)
        /\ i \in 1 .. Len(pipeline)
        /\ Head(toServer) = Writing(b)
        /\ \A j \in 1 .. Len(toClient) : toClient[j] = Writing(pipeline[j])
    BY <1>1, <2>1, ServerHandlesNext
  <2>3. /\ toClient \in Seq(Message) /\ pipeline \in Seq(Batch) /\ Len(toClient) \in Nat
        /\ DOMAIN toClient = 1 .. Len(toClient)
    BY <1>1, LenProperties DEF LinkInv
  <2>4. \A j \in 1 .. Len(toClient) : toClient[j].batch.write \in ToSet(log)
    BY <1>1, <2>2, <2>3 DEF LinkInv, AnswersCommitted
  <2>5. Len(pipeline) <= Len(q) /\ \A j \in 1 .. Len(pipeline) : pipeline[j] = q[j]
    <3>1. pipeline # <<>>
      BY <2>2, <2>3, EmptySeq
    <3>2. IsPrefix(pipeline, q)
      BY <1>1, <3>1 DEF LinkInv, PipelineFits, AtFront
    <3> QED BY <1>1, <2>3, <3>2, PrefixElements
  <2>6. DOMAIN q = 1 .. Len(q) /\ Len(q) \in Nat /\ Len(pipeline) \in Nat
    BY <1>1, <2>3, LenProperties
  <2>7. i \in DOMAIN q /\ q[i] = b
    BY <2>2, <2>5, <2>6
  <2>8. ASSUME NEW j \in 1 .. i - 1
        PROVE  Pending[u][j] \in ToSet(log)
    <3>1. j \in 1 .. Len(toClient) /\ j \in 1 .. Len(pipeline) /\ j \in DOMAIN q
      BY <2>2, <2>3, <2>5, <2>6
    <3>2. toClient[j].batch = q[j]
      <4>1. toClient[j] = Writing(pipeline[j]) /\ pipeline[j] = q[j]
        BY <2>2, <2>5, <3>1
      <4> QED BY <4>1 DEF Writing
    <3>3. Pending[u][j] = q[j].write
      BY <1>2, <3>1 DEF WritesOf
    <3> QED BY <2>4, <3>1, <3>2, <3>3
  <2>9. log' = Append(log, Pending[u][i])
    <3>1. Head(toServer).batch = q[i]
      BY <2>2, <2>7 DEF Writing
    <3> QED BY <1>2, <2>1, <2>7, <3>1 DEF WritesOf
  <2>10. i \in DOMAIN Pending[u]
    BY <1>2, <2>7
  <2> HIDE DEF i, q
  <2>11. UNCHANGED <<Pending, outcome>>
    BY <2>1 DEF Pending
  <2>12. PICK k \in DOMAIN Pending[u] : k = i
    BY <2>10
  <2>13. Accepted!Commit(u, k)
    BY <2>8, <2>9, <2>11, <2>12 DEF Accepted!Commit, Pending, WritesOf, Accepted!ToSet, ToSet
  <2> QED BY <2>13, AcceptedStep
<1>8. CASE \/ RegisterPendingWritesCallback \/ DisableNetwork \/ EnableNetwork
           \/ HandleCredentialChange \/ ConnectivityChanged \/ Relaunch
           \/ TokenArrives \/ StaleTokenArrives \/ BackoffElapsed \/ IdleTimeout
           \/ ReadHandshake \/ ServerHandshake \/ ServerReject \/ CallFails
           \/ UNCHANGED vars
  <2>1. UNCHANGED <<mutations, outcome, log>>
    BY <1>8 DEF RegisterPendingWritesCallback, DisableNetwork, EnableNetwork,
                HandleCredentialChange, ConnectivityChanged, Relaunch, TokenArrives,
                StaleTokenArrives, BackoffElapsed, IdleTimeout, ReadHandshake,
                ServerHandshake, ServerReject, CallFails, vars, disk
  <2> QED BY <1>3, <2>1
<1> QED BY <1>4, <1>5, <1>6, <1>7, <1>8 DEF Next, App, Around, StreamEvent, Backend

\* A write that was accepted waits, in order, until the backend has committed
\* it or refused it, across failures, restarts and changes of user.
THEOREM Refinement == Spec => AcceptedWritesSpec
BY Invariance, AcceptedInit, AcceptedNext, PTL DEF Spec, AcceptedWritesSpec, Accepted!Spec

=============================================================================

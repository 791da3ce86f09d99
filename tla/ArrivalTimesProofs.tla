------------------------- MODULE ArrivalTimesProofs -------------------------
(***************************************************************************)
(* What holds of ArrivalTimes for every bound: for answers of any length,  *)
(* any number of requests, timers, deletions and restarts.                 *)
(***************************************************************************)
EXTENDS ArrivalTimes, QueueLemmas, FunctionTheorems, FiniteSetTheorems, SequenceTheorems, TLAPS

\* An answer handed to the main queue.
Handed == [request : Request, trains : Answer]

\* The calls that wait fill the slots in turn: a call that writes slot n
\* follows the one that writes slot n - 1, or that slot is in the document.
CallsInTurn ==
    \A i \in DOMAIN worker :
        worker[i].op = "merge" /\ worker[i].slot > 0 =>
            IF i = 1 THEN worker[1].slot - 1 \in DOMAIN doc
            ELSE worker[i - 1].op = "merge" /\ worker[i - 1].slot = worker[i].slot - 1

\* No timer runs but those that snapshots have started.
IInv == TypeOK /\ timers <= snapshots /\ CallsInTurn /\ SlotsWithoutGap

-----------------------------------------------------------------------------
(* The calls of one answer. *)

\* A listing names trains of the answer, no more of them than it has.
LEMMA ListingProperties ==
    ASSUME NEW a \in Answer, NEW list \in Listings(a)
    PROVE  /\ Cardinality(Matching(a)) \in 0 .. MaxTrains
           /\ list \in [1 .. Cardinality(Matching(a)) -> DOMAIN a]
<1>1. PICK n \in 0 .. MaxTrains : a \in [1 .. n -> Train]
  BY DEF Answer
<1>2. n \in Nat /\ MaxTrains \in Nat /\ DOMAIN a = 1 .. n
  BY <1>1, ArrivalBounds
<1>3. IsFiniteSet(1 .. n) /\ Cardinality(1 .. n) = n
  BY <1>2, FS_Interval
<1>4. Matching(a) \subseteq 1 .. n
  BY <1>2 DEF Matching
<1>5. /\ IsFiniteSet(Matching(a))
      /\ Cardinality(Matching(a)) <= n
  BY <1>3, <1>4, FS_Subset
<1>6. Cardinality(Matching(a)) \in Nat
  BY <1>5, FS_CardinalityType
<1> QED BY <1>2, <1>4, <1>5, <1>6 DEF Listings

\* The calls of an answer write the slots from 0 on, one after the other.
LEMMA MergesProperties ==
    ASSUME NEW b \in Handed, NEW list \in Listings(b.trains)
    PROVE  /\ Merges(b, list) \in Seq(Call)
           /\ \A i \in 1 .. Len(Merges(b, list)) :
                /\ Merges(b, list)[i].op = "merge"
                /\ Merges(b, list)[i].slot = i - 1
<1> DEFINE n == Cardinality(Matching(b.trains))
<1>1. b.trains \in Answer /\ b.request.id \in 1 .. MaxRequests
  BY DEF Handed, Request
<1>2. n \in 0 .. MaxTrains /\ list \in [1 .. n -> DOMAIN b.trains]
  BY <1>1, ListingProperties
<1>3. n \in Nat /\ MaxTrains \in Nat
  BY <1>2, ArrivalBounds
<1> HIDE DEF n
<1>4. DOMAIN Merges(b, list) = 1 .. n
  BY <1>2 DEF Merges
<1>5. ASSUME NEW i \in 1 .. n
      PROVE  /\ Merges(b, list)[i] \in Call
             /\ Merges(b, list)[i].op = "merge"
             /\ Merges(b, list)[i].slot = i - 1
  <2>1. PICK k \in 0 .. MaxTrains : b.trains \in [1 .. k -> Train]
    BY <1>1 DEF Answer
  <2>2. b.trains[list[i]].time \in Time
    BY <1>2, <2>1 DEF Train
  <2>3. i - 1 \in Slot
    BY <1>2, <1>3 DEF Slot
  <2>4. Merges(b, list)[i] = Merge(i - 1, b.trains[list[i]].time, b.request.id)
    BY <1>2 DEF Merges, Count
  <2> QED BY <1>1, <2>2, <2>3, <2>4 DEF Merge, Call, Field
<1>6. Merges(b, list) = [i \in 1 .. n |-> Merges(b, list)[i]]
  BY <1>4 DEF Merges
<1>7. Merges(b, list) \in Seq(Call) /\ Len(Merges(b, list)) = n
  BY <1>3, <1>4, <1>5, <1>6
<1> QED BY <1>5, <1>7

-----------------------------------------------------------------------------
(* One lemma for each action. *)

LEMMA NothingQueued == <<>> \in Seq(Handed) /\ <<>> \in Seq(Call)
OBVIOUS

LEMMA InitInvariant == Init => IInv
<1> SUFFICES ASSUME Init PROVE IInv
  OBVIOUS
<1>1. Empty \in Document /\ DOMAIN Empty = {}
  <2>1. Empty \in [{} -> Field] /\ {} \in SUBSET Slot
    BY DEF Empty
  <2> QED BY <2>1 DEF Empty, Document
<1>2. mainQueue \in Seq(Handed) /\ worker \in Seq(Call) /\ done \in Seq(Handed)
  BY NothingQueued DEF Init
<1>3. /\ timers <= snapshots /\ timers \in 0 .. MaxSnapshots
      /\ asked \in 0 .. MaxRequests /\ resets \in 0 .. MaxResets
      /\ snapshots \in 0 .. MaxSnapshots
  BY ArrivalBounds DEF Init
<1>4. /\ requests \subseteq Request /\ trapped \in BOOLEAN
      /\ doc \in Document /\ base \in Document
  BY <1>1 DEF Init
<1>5. TypeOK
  BY <1>2, <1>3, <1>4 DEF TypeOK, Handed
<1>6. CallsInTurn /\ SlotsWithoutGap
  BY <1>1 DEF Init, CallsInTurn, SlotsWithoutGap
<1> QED BY <1>3, <1>5, <1>6 DEF IInv

\* What a step keeps that changes no call and no slot.
LEMMA SlotsKept ==
    ASSUME IInv, UNCHANGED <<worker, doc>>
    PROVE  CallsInTurn' /\ SlotsWithoutGap'
BY DEF IInv, CallsInTurn, SlotsWithoutGap

LEMMA AskTypes ==
    ASSUME TypeOK, NEW first \in BOOLEAN, Ask(first)
    PROVE  asked' \in 0 .. MaxRequests /\ requests' \subseteq Request
<1>1. asked \in 0 .. MaxRequests /\ asked < MaxRequests /\ asked' = asked + 1
  BY DEF TypeOK, Ask
<1>2. asked' \in 1 .. MaxRequests
  BY <1>1, ArrivalBounds
<1> QED BY <1>2, ArrivalBounds DEF Ask, Request, TypeOK

LEMMA UpdateTubeTimesStep == IInv /\ UpdateTubeTimes => IInv'
<1> SUFFICES ASSUME IInv, UpdateTubeTimes PROVE IInv'
  OBVIOUS
<1>1. asked' \in 0 .. MaxRequests /\ requests' \subseteq Request
  BY AskTypes DEF IInv, UpdateTubeTimes
<1>2. timers' \in 0 .. MaxSnapshots /\ snapshots' \in 0 .. MaxSnapshots
      /\ timers' <= snapshots'
  BY ArrivalBounds DEF IInv, TypeOK, UpdateTubeTimes
<1>3. TypeOK'
  BY <1>1, <1>2 DEF IInv, TypeOK, UpdateTubeTimes, history
<1> QED BY <1>2, <1>3, SlotsKept DEF IInv, UpdateTubeTimes

LEMMA TimerFiresStep == IInv /\ TimerFires => IInv'
<1> SUFFICES ASSUME IInv, TimerFires PROVE IInv'
  OBVIOUS
<1>1. asked' \in 0 .. MaxRequests /\ requests' \subseteq Request
  BY AskTypes DEF IInv, TimerFires
<1>2. TypeOK' /\ timers' <= snapshots'
  BY <1>1 DEF IInv, TypeOK, TimerFires, history
<1> QED BY <1>2, SlotsKept DEF IInv, TimerFires

LEMMA AnsweredStep == IInv /\ Answered => IInv'
<1> SUFFICES ASSUME IInv, NEW r \in requests, NEW a \in Answer,
                    requests' = requests \ {r},
                    mainQueue' = Append(mainQueue, [request |-> r, trains |-> a]),
                    UNCHANGED <<timers, worker, doc, trapped, counters, history>>
             PROVE  IInv'
  BY DEF Answered
<1>1. [request |-> r, trains |-> a] \in Handed
  BY DEF IInv, TypeOK, Handed
<1>2. mainQueue' \in Seq(Handed)
  BY <1>1, AppendProperties DEF IInv, TypeOK, Handed
<1>3. TypeOK' /\ timers' <= snapshots'
  BY <1>2 DEF IInv, TypeOK, Handed, counters, history
<1> QED BY <1>3, SlotsKept DEF IInv

\* The calls of an answer join the others in turn.
LEMMA AppendedInTurn ==
    ASSUME IInv, NEW m \in Seq(Call), UNCHANGED doc, worker' = worker \o m,
           \A i \in 1 .. Len(m) : m[i].op = "merge" => m[i].slot = i - 1
                                  /\ (i > 1 => m[i - 1].op = "merge")
    PROVE  worker' \in Seq(Call) /\ CallsInTurn'
<1> DEFINE n == Len(worker)
           k == Len(m)
<1>1. worker \in Seq(Call) /\ n \in Nat /\ k \in Nat
  BY DEF IInv, TypeOK
<1>2. /\ worker' \in Seq(Call)
      /\ Len(worker') = n + k
      /\ \A i \in 1 .. n : worker'[i] = worker[i]
      /\ \A i \in n + 1 .. n + k : worker'[i] = m[i - n]
  BY <1>1, ConcatProperties
<1>3. DOMAIN worker = 1 .. n /\ DOMAIN worker' = 1 .. n + k
  BY <1>1, <1>2
<1> HIDE DEF n, k
<1>4. ASSUME NEW i \in 1 .. n + k, worker'[i].op = "merge", worker'[i].slot > 0
      PROVE  IF i = 1 THEN worker'[1].slot - 1 \in DOMAIN doc
             ELSE worker'[i - 1].op = "merge" /\ worker'[i - 1].slot = worker'[i].slot - 1
  <2>1. CASE i \in 1 .. n
    <3>1. worker'[i] = worker[i]
      BY <1>2, <2>1
    <3>2. i # 1 => i - 1 \in 1 .. n /\ worker'[i - 1] = worker[i - 1]
      BY <1>1, <1>2, <2>1
    <3> QED BY <1>3, <1>4, <2>1, <3>1, <3>2 DEF IInv, CallsInTurn
  <2>2. CASE i \in n + 1 .. n + k
    <3>1. i - n \in 1 .. k /\ worker'[i] = m[i - n]
      BY <1>1, <1>2, <2>2
    <3>2. m[i - n].slot = i - n - 1
      BY <1>4, <3>1 DEF k
    <3>3. i - n > 1
      BY <1>1, <1>4, <3>1, <3>2
    <3>4. i - 1 \in n + 1 .. n + k /\ (i - 1) - n = (i - n) - 1 /\ (i - n) - 1 \in 1 .. k
      BY <1>1, <2>2, <3>3
    <3>5. worker'[i - 1] = m[(i - n) - 1]
      BY <1>2, <3>4
    <3>6. m[(i - n) - 1].op = "merge"
      BY <1>4, <3>1, <3>3 DEF k
    <3>7. m[(i - n) - 1].slot = (i - n) - 1 - 1
      BY <3>4, <3>6 DEF k
    <3> QED BY <1>1, <3>1, <3>2, <3>3, <3>4, <3>5, <3>6, <3>7
  <2>3. i \in 1 .. n \/ i \in n + 1 .. n + k
    BY <1>1
  <2> QED BY <2>1, <2>2, <2>3
<1> QED BY <1>2, <1>3, <1>4 DEF CallsInTurn

LEMMA TrainTimesStep == IInv /\ TrainTimes => IInv'
<1> SUFFICES ASSUME IInv, TrainTimes PROVE IInv'
  OBVIOUS
<1> DEFINE b == Head(mainQueue)
<1>1. mainQueue \in Seq(Handed) /\ mainQueue # <<>>
  BY DEF IInv, TypeOK, TrainTimes, Handed
<1>2. b \in Handed /\ mainQueue' \in Seq(Handed)
  BY <1>1, HeadTailProperties DEF TrainTimes
<1> HIDE DEF b
<1>3. CASE UNCHANGED <<worker, done>> /\ trapped' = TRUE
  <2>1. TypeOK' /\ timers' <= snapshots'
    BY <1>2, <1>3 DEF IInv, TypeOK, TrainTimes, Handed, counters
  <2> QED BY <1>3, <2>1, SlotsKept DEF IInv, TrainTimes
<1>4. CASE /\ \E list \in Listings(b.trains) : worker' = worker \o Merges(b, list)
           /\ done' = Append(done, b)
           /\ UNCHANGED trapped
  <2>1. PICK list \in Listings(b.trains) : worker' = worker \o Merges(b, list)
    BY <1>4
  <2>2. /\ Merges(b, list) \in Seq(Call)
        /\ \A i \in 1 .. Len(Merges(b, list)) :
              /\ Merges(b, list)[i].op = "merge"
              /\ Merges(b, list)[i].slot = i - 1
    BY <1>2, MergesProperties
  <2> DEFINE m == Merges(b, list)
  <2>3. m \in Seq(Call) /\ worker' = worker \o m
    BY <2>1, <2>2
  <2>4. \A i \in 1 .. Len(m) : m[i].op = "merge" => m[i].slot = i - 1
                               /\ (i > 1 => m[i - 1].op = "merge")
    <3>1. Len(m) \in Nat
      BY <2>3
    <3>2. \A i \in 1 .. Len(m) : i > 1 => i - 1 \in 1 .. Len(m)
      BY <3>1
    <3> QED BY <2>2, <3>2
  <2> HIDE DEF m
  <2>5. worker' \in Seq(Call) /\ CallsInTurn'
    BY <2>3, <2>4, AppendedInTurn DEF TrainTimes
  <2>6. done' \in Seq(Handed)
    BY <1>2, <1>4, AppendProperties DEF IInv, TypeOK, Handed
  <2>7. TypeOK' /\ timers' <= snapshots'
    BY <1>2, <1>4, <2>5, <2>6 DEF IInv, TypeOK, TrainTimes, Handed, counters
  <2>8. SlotsWithoutGap'
    BY DEF IInv, TrainTimes, SlotsWithoutGap
  <2> QED BY <2>5, <2>7, <2>8 DEF IInv
<1> QED BY <1>3, <1>4 DEF TrainTimes, b

LEMMA DeleteTimesStep == IInv /\ DeleteTimes => IInv'
<1> SUFFICES ASSUME IInv, DeleteTimes PROVE IInv'
  OBVIOUS
<1>1. Delete \in Call /\ Delete.op # "merge"
  BY DEF Delete, Call
<1>2. <<Delete>> \in Seq(Call) /\ Len(<<Delete>>) = 1 /\ <<Delete>>[1] = Delete
  BY <1>1
<1>3. worker' = worker \o <<Delete>>
  BY <1>1 DEF DeleteTimes, IInv, TypeOK
<1>4. worker' \in Seq(Call) /\ CallsInTurn'
  <2> DEFINE m == <<Delete>>
  <2>1. m \in Seq(Call) /\ worker' = worker \o m
    BY <1>2, <1>3
  <2>2. \A i \in 1 .. Len(m) : m[i].op # "merge"
    BY <1>1, <1>2
  <2> HIDE DEF m
  <2> QED BY <2>1, <2>2, AppendedInTurn DEF DeleteTimes
<1>5. Empty \in Document
  <2>1. Empty \in [{} -> Field] /\ {} \in SUBSET Slot
    BY DEF Empty
  <2> QED BY <2>1 DEF Document
<1>6. TypeOK' /\ timers' <= snapshots'
  BY <1>4, <1>5, NothingQueued, ArrivalBounds
     DEF IInv, TypeOK, DeleteTimes, Resetting, Handed
<1>7. SlotsWithoutGap'
  BY DEF IInv, DeleteTimes, SlotsWithoutGap
<1> QED BY <1>4, <1>6, <1>7 DEF IInv

\* A call filled the slot under its own, or one before it did.
LEMMA ServeStep == IInv /\ Serve => IInv'
<1> SUFFICES ASSUME IInv, Serve PROVE IInv'
  OBVIOUS
<1> DEFINE c == Head(worker)
           n == Len(worker)
<1>1. worker \in Seq(Call) /\ worker # <<>>
  BY DEF IInv, TypeOK, Serve
<1>2. c \in Call /\ c = worker[1] /\ n \in Nat \ {0} /\ DOMAIN worker = 1 .. n
  BY <1>1
<1>3. /\ worker' \in Seq(Call)
      /\ DOMAIN worker' = 1 .. n - 1
      /\ \A i \in 1 .. n - 1 : worker'[i] = worker[i + 1]
  BY <1>1, <1>2, HeadTailProperties DEF Serve
<1> HIDE DEF c, n
<1>4. PICK slots \in SUBSET Slot : doc \in [slots -> Field]
  BY DEF IInv, TypeOK, Document
<1>5. CASE c.op = "delete"
  <2>1. c = Delete
    BY <1>2, <1>5 DEF Call, Delete
  <2>2. doc' = Empty
    BY <2>1 DEF Serve, c
  <2>3. doc' \in [{} -> Field] /\ {} \in SUBSET Slot
    BY <2>2 DEF Empty
  <2>4. doc' \in Document /\ SlotsWithoutGap'
    BY <2>3 DEF Document, SlotsWithoutGap
  <2>5. CallsInTurn'
    <3> SUFFICES ASSUME NEW i \in 1 .. n - 1, worker'[i].op = "merge", worker'[i].slot > 0
                 PROVE  /\ i # 1
                        /\ worker'[i - 1].op = "merge"
                        /\ worker'[i - 1].slot = worker'[i].slot - 1
      BY <1>3 DEF CallsInTurn
    <3>1. i + 1 \in 1 .. n /\ i + 1 # 1 /\ (i + 1) - 1 = i /\ worker'[i] = worker[i + 1]
      BY <1>2, <1>3
    <3>2. worker[i].op = "merge" /\ worker[i].slot = worker[i + 1].slot - 1
      BY <1>2, <3>1 DEF IInv, CallsInTurn
    <3>3. i # 1
      BY <1>2, <1>5, <3>2
    <3>4. i - 1 \in 1 .. n - 1 /\ worker'[i - 1] = worker[i]
      BY <1>2, <1>3, <3>3
    <3> QED BY <3>1, <3>2, <3>3, <3>4
  <2>6. TypeOK' /\ timers' <= snapshots'
    BY <1>3, <2>4 DEF IInv, TypeOK, Serve, counters, history
  <2> QED BY <2>4, <2>5, <2>6 DEF IInv
<1>6. CASE c.op = "merge"
  <2>1. c.slot \in Slot /\ c.field \in Field /\ c # Delete
    BY <1>2, <1>6 DEF Call, Delete
  <2>2. doc' = Merged(doc, c)
    BY <2>1 DEF Serve, c
  <2>3. doc' \in [slots \cup {c.slot} -> Field]
    BY <1>4, <2>1, <2>2 DEF Merged
  <2>4. doc' \in Document
    BY <2>1, <2>3 DEF Document
  <2>5. DOMAIN doc' = DOMAIN doc \cup {c.slot}
    BY <1>4, <2>3
  <2>6. SlotsWithoutGap'
    <3>1. c.slot > 0 => c.slot - 1 \in DOMAIN doc
      BY <1>2, <1>6 DEF IInv, CallsInTurn
    <3> QED BY <2>5, <3>1 DEF IInv, SlotsWithoutGap
  <2>7. CallsInTurn'
    <3> SUFFICES ASSUME NEW i \in 1 .. n - 1, worker'[i].op = "merge", worker'[i].slot > 0
                 PROVE  IF i = 1 THEN worker'[1].slot - 1 \in DOMAIN doc'
                        ELSE /\ worker'[i - 1].op = "merge"
                             /\ worker'[i - 1].slot = worker'[i].slot - 1
      BY <1>3 DEF CallsInTurn
    <3>1. i + 1 \in 1 .. n /\ i + 1 # 1 /\ (i + 1) - 1 = i /\ worker'[i] = worker[i + 1]
      BY <1>2, <1>3
    <3>2. worker[i].op = "merge" /\ worker[i].slot = worker[i + 1].slot - 1
      BY <1>2, <3>1 DEF IInv, CallsInTurn
    <3>3. CASE i = 1
      BY <1>2, <2>5, <3>1, <3>2, <3>3
    <3>4. CASE i # 1
      <4>1. i - 1 \in 1 .. n - 1 /\ worker'[i - 1] = worker[i]
        BY <1>2, <1>3, <3>4
      <4> QED BY <3>1, <3>2, <3>4, <4>1
    <3> QED BY <3>3, <3>4
  <2>8. TypeOK' /\ timers' <= snapshots'
    BY <1>3, <2>4 DEF IInv, TypeOK, Serve, counters, history
  <2> QED BY <2>6, <2>7, <2>8 DEF IInv
<1> QED BY <1>2, <1>5, <1>6 DEF Call

LEMMA RelaunchStep == IInv /\ Relaunch => IInv'
<1> SUFFICES ASSUME IInv, Relaunch PROVE IInv'
  OBVIOUS
<1>1. mainQueue' \in Seq(Handed) /\ worker' \in Seq(Call) /\ done' \in Seq(Handed)
  BY NothingQueued DEF Relaunch
<1>2. timers' <= snapshots' /\ timers' \in 0 .. MaxSnapshots /\ resets' \in 0 .. MaxResets
  BY ArrivalBounds DEF Relaunch, Resetting, IInv, TypeOK
<1>3. TypeOK'
  BY <1>1, <1>2 DEF IInv, TypeOK, Relaunch, Handed
<1>4. CallsInTurn' /\ SlotsWithoutGap'
  BY DEF IInv, Relaunch, CallsInTurn, SlotsWithoutGap
<1> QED BY <1>2, <1>3, <1>4 DEF IInv

-----------------------------------------------------------------------------
(* The theorems. *)

LEMMA StepInvariant == IInv /\ [Next]_vars => IInv'
<1> SUFFICES ASSUME IInv, [Next]_vars PROVE IInv'
  OBVIOUS
<1>1. CASE Running
  BY <1>1, UpdateTubeTimesStep, TimerFiresStep, AnsweredStep, TrainTimesStep, ServeStep,
     DeleteTimesStep DEF Running
<1>2. CASE Relaunch
  BY <1>2, RelaunchStep
<1>3. CASE UNCHANGED vars
  <2>1. TypeOK' /\ timers' <= snapshots'
    BY <1>3 DEF IInv, TypeOK, vars, counters, history
  <2> QED BY <1>3, <2>1, SlotsKept DEF IInv, vars
<1> QED BY <1>1, <1>2, <1>3 DEF Next

\* Every variable keeps its type: a document holds slots of trains only, and a
\* call names one of them.
THEOREM TypeCorrect == Spec => []TypeOK
<1>1. IInv => TypeOK
  BY DEF IInv
<1> QED BY <1>1, InitInvariant, StepInvariant, PTL DEF Spec

\* However the answers of however many timers overtake each other, whatever a
\* crash or a deletion leaves of their calls, the document has no gap: the
\* row's first time is there whenever a later one is.
THEOREM NoGap == Spec => []SlotsWithoutGap
<1>1. IInv => SlotsWithoutGap
  BY DEF IInv
<1> QED BY <1>1, InitInvariant, StepInvariant, PTL DEF Spec

-----------------------------------------------------------------------------
(* What the slots will hold.  SlotsOfLastAnswers speaks of the moment when *)
(* no call waits.  Until then each slot is decided by the last call that   *)
(* touches it, or by the document where no call does: SlotsDecided says    *)
(* that this decision is the right one.                                    *)

\* The answers of D that have a train for slot n.
Long(D, n) == {k \in DOMAIN D : Cardinality(Matching(D[k].trains)) > n}

\* A slot's content, as a set: none or one field.
At(d, n) == {d[m] : m \in DOMAIN d \cap {n}}

\* The content of slot n that an answer asks for: train n's.
Asked(b, n, X) == \E i \in Rank(b, n) :
    X = {[time |-> b.trains[i].time, destination |-> b.request.id]}

\* The content that slot n should have in the end, with the slots B at the last
\* reset and the answers D handled since.
Expected(B, D, n, X) ==
    IF Long(D, n) = {} THEN X = At(B, n) ELSE Asked(D[Max(Long(D, n))], n, X)

Touches(c, n) == c = Delete \/ (c # Delete /\ c.slot = n)

\* What a call that touches a slot leaves in it.
Left(c) == IF c = Delete THEN {} ELSE {c.field}

\* The last call of q that touches slot n is at place i, or there is none and
\* i is 0.
LastTouch(q, n, i) ==
    /\ i > 0 => Touches(q[i], n)
    /\ \A j \in i + 1 .. Len(q) : ~Touches(q[j], n)

\* What that call, or the document d, leaves in it.
Decided(q, d, n, i) == IF i = 0 THEN At(d, n) ELSE Left(q[i])

SlotsDecided ==
    \A n \in Slot, i \in 0 .. Len(worker) :
        LastTouch(worker, n, i) => Expected(base, done, n, Decided(worker, doc, n, i))

-----------------------------------------------------------------------------
(* The order of a listing. *)

\* A listing's places are the matching trains, each once.
LEMMA ListingIsOnto ==
    ASSUME NEW a \in Answer, NEW list \in Listings(a)
    PROVE  /\ IsFiniteSet(Matching(a))
           /\ list \in [1 .. Cardinality(Matching(a)) -> Matching(a)]
           /\ \A i, j \in 1 .. Cardinality(Matching(a)) : list[i] = list[j] => i = j
           /\ \A m \in Matching(a) : \E i \in 1 .. Cardinality(Matching(a)) : list[i] = m
<1> DEFINE M == Matching(a)
           k == Cardinality(M)
           P == 1 .. k
<1>1. IsFiniteSet(M)
  <2>1. PICK n \in 0 .. MaxTrains : a \in [1 .. n -> Train]
    BY DEF Answer
  <2>2. n \in Nat /\ M \subseteq 1 .. n
    BY <2>1, ArrivalBounds DEF Matching
  <2>3. IsFiniteSet(1 .. n)
    BY <2>2, FS_Interval
  <2> QED BY <2>2, <2>3, FS_Subset
<1>2. k \in Nat
  BY <1>1, FS_CardinalityType
<1>3. /\ list \in [P -> M]
      /\ \A i, j \in P : i < j => list[i] # list[j]
  BY DEF Listings
<1> HIDE DEF M, k
<1>4. \A i, j \in P : list[i] = list[j] => i = j
  <2> SUFFICES ASSUME NEW i \in P, NEW j \in P, list[i] = list[j]
               PROVE  i = j
    OBVIOUS
  <2>1. i \in Nat /\ j \in Nat /\ ~(i < j) /\ ~(j < i)
    BY <1>2, <1>3
  <2> QED BY <2>1
<1>5. IsFiniteSet(P) /\ Cardinality(P) = k
  BY <1>2, FS_Interval
<1> HIDE DEF P
<1>6. list \in Injection(P, M)
  BY <1>3, <1>4, Fun_IsInj
<1>7. list \in Surjection(P, M)
  BY <1>1, <1>5, <1>6, FS_Injection DEF k
<1>8. \A m \in M : \E i \in P : list[i] = m
  BY <1>7, Fun_SurjectionProperties
<1> QED BY <1>1, <1>3, <1>4, <1>8 DEF M, k, P

\* Train n of a listing has the rank n, counted without sorting.
LEMMA ListingRank ==
    ASSUME NEW b \in Handed, NEW list \in Listings(b.trains),
           NEW i \in 1 .. Cardinality(Matching(b.trains))
    PROVE  list[i] \in Rank(b, i - 1)
<1> DEFINE a == b.trains
           M == Matching(a)
           k == Cardinality(M)
           t == a[list[i]].time
           Below == {j \in M : a[j].time < t}
           UpTo == {j \in M : a[j].time <= t}
           Before == {list[m] : m \in 1 .. i - 1}
           Until == {list[m] : m \in 1 .. i}
<1>1. a \in Answer
  BY DEF Handed
<1>2. /\ IsFiniteSet(M)
      /\ list \in [1 .. k -> M]
      /\ \A m, n \in 1 .. k : list[m] = list[n] => m = n
      /\ \A j \in M : \E m \in 1 .. k : list[m] = j
  BY <1>1, ListingIsOnto
<1>3. \A m, n \in 1 .. k : m < n => a[list[m]].time <= a[list[n]].time
  <2>1. DOMAIN list = 1 .. k
    BY <1>2
  <2> QED BY <2>1 DEF Listings
<1>4. \A j \in M : a[j].time \in Nat
  <2>1. PICK n \in 0 .. MaxTrains : a \in [1 .. n -> Train]
    BY <1>1 DEF Answer
  <2>2. \A j \in 1 .. n : a[j] \in Train
    BY <2>1
  <2>3. Time \subseteq Nat
    BY ArrivalBounds DEF Time, NoTime
  <2> QED BY <2>1, <2>2, <2>3 DEF Matching, Train
<1>5. k \in Nat /\ i \in 1 .. k
  BY <1>2, FS_CardinalityType
<1> HIDE DEF M, k, a
<1>6. t \in Nat /\ list[i] \in M
  BY <1>2, <1>4, <1>5
<1>7. Below \subseteq Before
  <2> SUFFICES ASSUME NEW j \in M, a[j].time < t
               PROVE  \E m \in 1 .. i - 1 : list[m] = j
    OBVIOUS
  <2>1. PICK m \in 1 .. k : list[m] = j
    BY <1>2
  <2>2. ~(i < m) /\ m # i
    BY <1>3, <1>4, <1>5, <1>6, <2>1
  <2>3. m \in 1 .. i - 1
    BY <1>5, <2>2
  <2> QED BY <2>1, <2>3
<1>8. Until \subseteq UpTo
  <2> SUFFICES ASSUME NEW m \in 1 .. i
               PROVE  list[m] \in M /\ a[list[m]].time <= t
    OBVIOUS
  <2>1. m \in 1 .. k /\ (m < i \/ m = i)
    BY <1>5
  <2> QED BY <1>2, <1>3, <1>5, <1>6, <2>1
<1>9. IsFiniteSet(Below) /\ IsFiniteSet(UpTo)
  BY <1>2, FS_Subset
<1>10. Cardinality(Below) <= i - 1
  <2> DEFINE P == 1 .. i - 1
             f == [m \in P |-> list[m]]
  <2>1. i - 1 \in Nat /\ IsFiniteSet(P) /\ Cardinality(P) = i - 1
    BY <1>5, FS_Interval
  <2>2. f \in Surjection(P, Before)
    <3>1. f \in [P -> Before] /\ \A y \in Before : \E m \in P : f[m] = y
      OBVIOUS
    <3> HIDE DEF P, f, Before
    <3> QED BY <3>1, Fun_IsSurj
  <2> HIDE DEF P, f, Before, Below
  <2>3. IsFiniteSet(Before) /\ Cardinality(Before) <= Cardinality(P)
    BY <2>1, <2>2, FS_Surjection
  <2>4. Cardinality(Below) <= Cardinality(Before)
    BY <1>7, <2>3, FS_Subset
  <2>5. Cardinality(Below) \in Nat /\ Cardinality(Before) \in Nat
    BY <1>9, <2>3, FS_CardinalityType
  <2> QED BY <2>1, <2>3, <2>4, <2>5
<1>11. i - 1 < Cardinality(UpTo)
  <2> DEFINE P == 1 .. i
             f == [m \in P |-> list[m]]
  <2>1. IsFiniteSet(P) /\ Cardinality(P) = i
    BY <1>5, FS_Interval
  <2>2. f \in Injection(P, UpTo)
    <3>1. f \in [P -> UpTo]
      BY <1>8
    <3>2. ASSUME NEW m \in P, NEW n \in P, f[m] = f[n]
          PROVE  m = n
      <4>1. m \in 1 .. k /\ n \in 1 .. k
        BY <1>5
      <4> QED BY <1>2, <3>2, <4>1
    <3> HIDE DEF P, f, UpTo
    <3> QED BY <3>1, <3>2, Fun_IsInj
  <2> HIDE DEF P, f, UpTo
  <2>3. Cardinality(P) <= Cardinality(UpTo)
    BY <1>9, <2>2, FS_Injection
  <2>4. Cardinality(UpTo) \in Nat
    BY <1>9, FS_CardinalityType
  <2> QED BY <1>5, <2>1, <2>3, <2>4
<1>12. Rank(b, i - 1) = {l \in M :
                           /\ Cardinality({j \in M : a[j].time < a[l].time}) <= i - 1
                           /\ i - 1 < Cardinality({j \in M : a[j].time <= a[l].time})}
  BY DEF Rank, M, a
<1> QED BY <1>6, <1>10, <1>11, <1>12

-----------------------------------------------------------------------------
(* What one more answer asks for. *)

\* An answer with a train for slot n decides it; a shorter one does not touch it.
LEMMA ExpectedAfter ==
    ASSUME NEW D \in Seq(Handed), NEW b \in Handed, NEW n \in Slot, NEW B, NEW X
    PROVE  /\ Cardinality(Matching(b.trains)) > n =>
                  (Expected(B, Append(D, b), n, X) <=> Asked(b, n, X))
           /\ ~(Cardinality(Matching(b.trains)) > n) =>
                  (Expected(B, Append(D, b), n, X) <=> Expected(B, D, n, X))
<1> DEFINE E == Append(D, b)
           k == Len(D)
           S == Long(D, n)
           T == Long(E, n)
<1>1. /\ k \in Nat /\ Len(E) = k + 1 /\ E[k + 1] = b
      /\ \A i \in 1 .. k : E[i] = D[i]
      /\ DOMAIN D = 1 .. k /\ DOMAIN E = 1 .. k + 1
  BY AppendProperties
<1> HIDE DEF E, k
<1>2. /\ S = {i \in 1 .. k : Cardinality(Matching(D[i].trains)) > n}
      /\ T = {i \in 1 .. k + 1 : Cardinality(Matching(E[i].trains)) > n}
  BY <1>1 DEF Long
<1> HIDE DEF S, T
<1>3. CASE Cardinality(Matching(b.trains)) > n
  <2>1. k + 1 \in T /\ \A i \in T : k + 1 >= i
    BY <1>1, <1>2, <1>3
  <2>2. Max(T) \in T /\ \A i \in T : Max(T) >= i
    BY <2>1 DEF Max
  <2>3. Max(T) = k + 1 /\ T # {}
    BY <1>1, <1>2, <2>1, <2>2
  <2> QED BY <1>1, <1>3, <2>3 DEF Expected, E, T
<1>4. CASE ~(Cardinality(Matching(b.trains)) > n)
  <2>1. T = S
    <3>1. \A i \in 1 .. k + 1 : i \in 1 .. k \/ i = k + 1
      BY <1>1
    <3>2. \A i \in 1 .. k : i \in 1 .. k + 1
      BY <1>1
    <3> QED BY <1>1, <1>2, <1>4, <3>1, <3>2
  <2>2. S # {} => Max(S) \in S
    <3>1. S \in SUBSET Nat /\ \A i \in S : i <= k
      BY <1>1, <1>2
    <3> QED BY <1>1, <3>1, GreatestOfBounded
  <2>3. S # {} => E[Max(S)] = D[Max(S)]
    BY <1>1, <1>2, <2>2
  <2> QED BY <1>4, <2>1, <2>3 DEF Expected, E, T, S
<1> QED BY <1>3, <1>4

\* The calls of an answer, one for each matching train, ask for what it asks.
LEMMA MergesAsk ==
    ASSUME NEW b \in Handed, NEW list \in Listings(b.trains)
    PROVE  /\ Len(Merges(b, list)) = Cardinality(Matching(b.trains))
           /\ \A i \in 1 .. Len(Merges(b, list)) :
                 Asked(b, i - 1, Left(Merges(b, list)[i]))
<1> DEFINE k == Cardinality(Matching(b.trains))
           m == Merges(b, list)
<1>1. /\ k \in Nat /\ list \in [1 .. k -> Matching(b.trains)]
  <2>1. b.trains \in Answer
    BY DEF Handed
  <2> QED BY <2>1, ListingIsOnto, FS_CardinalityType
<1>2. m = [i \in 1 .. k |-> Merge(i - 1, b.trains[list[i]].time, b.request.id)]
  BY <1>1 DEF Merges, Count
<1> HIDE DEF m
<1>3. Len(m) = k
  <2> HIDE DEF k
  <2> QED BY <1>1, <1>2
<1>4. ASSUME NEW i \in 1 .. k
      PROVE  Asked(b, i - 1, Left(m[i]))
  <2>1. list[i] \in Rank(b, i - 1)
    BY ListingRank
  <2>2. m[i] = Merge(i - 1, b.trains[list[i]].time, b.request.id)
    <3> HIDE DEF k
    <3> QED BY <1>2
  <2>3. Left(m[i]) = {[time |-> b.trains[list[i]].time, destination |-> b.request.id]}
    BY <2>2 DEF Left, Merge, Delete
  <2> QED BY <2>1, <2>3 DEF Asked
<1> QED BY <1>3, <1>4 DEF m

-----------------------------------------------------------------------------
(* Every step keeps the decisions right. *)

LEMMA DecidedKept ==
    ASSUME SlotsDecided, UNCHANGED <<worker, doc, base, done>>
    PROVE  SlotsDecided'
BY DEF SlotsDecided

\* An answer decides the slots it has trains for, and no other.
LEMMA TrainTimesDecides ==
    ASSUME IInv, SlotsDecided, TrainTimes
    PROVE  SlotsDecided'
<1> DEFINE b == Head(mainQueue)
<1>1. b \in Handed
  BY HeadTailProperties DEF IInv, TypeOK, TrainTimes, Handed
<1>2. base' = base /\ doc' = doc
  BY DEF TrainTimes
<1> HIDE DEF b
<1>3. CASE UNCHANGED <<worker, done>>
  BY <1>2, <1>3, DecidedKept
<1>4. CASE /\ \E list \in Listings(b.trains) : worker' = worker \o Merges(b, list)
           /\ done' = Append(done, b)
  <2>1. PICK list \in Listings(b.trains) : worker' = worker \o Merges(b, list)
    BY <1>4
  <2> DEFINE m == Merges(b, list)
             k == Cardinality(Matching(b.trains))
             N == Len(worker)
  <2>2. /\ m \in Seq(Call) /\ Len(m) = k
        /\ \A i \in 1 .. k : m[i].op = "merge" /\ m[i].slot = i - 1
        /\ \A i \in 1 .. k : Asked(b, i - 1, Left(m[i]))
    BY <1>1, MergesProperties, MergesAsk
  <2>3. worker' = worker \o m /\ worker \in Seq(Call) /\ done \in Seq(Handed)
    BY <2>1 DEF IInv, TypeOK, Handed
  <2> HIDE DEF m, k
  <2>4. /\ N \in Nat /\ k \in Nat /\ Len(worker') = N + k
        /\ \A i \in 1 .. N : worker'[i] = worker[i]
        /\ \A i \in N + 1 .. N + k : worker'[i] = m[i - N]
    <3>1. /\ Len(worker) \in Nat /\ Len(m) \in Nat
          /\ Len(worker \o m) = Len(worker) + Len(m)
          /\ \A i \in 1 .. Len(worker) + Len(m) :
                (worker \o m)[i] = IF i <= Len(worker) THEN worker[i]
                                   ELSE m[i - Len(worker)]
      BY <2>2, <2>3, ConcatProperties, LenProperties
    <3>2. worker' = worker \o m /\ Len(m) = k
      BY <2>2, <2>3
    <3>3. /\ Len(worker') = Len(worker) + k
          /\ \A i \in 1 .. Len(worker) + k :
                worker'[i] = IF i <= Len(worker) THEN worker[i]
                             ELSE m[i - Len(worker)]
      BY <3>1, <3>2
    <3> QED BY <3>1, <3>2, <3>3 DEF N
  <2>5. \A i \in 1 .. k, n \in Slot : Touches(m[i], n) <=> n = i - 1
    <3>1. \A i \in 1 .. k : m[i] # Delete
      BY <2>2 DEF Delete
    <3> QED BY <2>2, <3>1 DEF Touches
  <2> HIDE DEF N
  <2> SUFFICES ASSUME NEW n \in Slot, NEW i \in 0 .. N + k, LastTouch(worker', n, i)
               PROVE  Expected(base, Append(done, b), n, Decided(worker', doc, n, i))
    BY <1>2, <1>4, <2>4 DEF SlotsDecided
  <2>6. n \in Nat
    BY ArrivalBounds DEF Slot
  <2>7. CASE k > n
    <3> DEFINE p == N + (n + 1)
    <3>1. /\ p \in N + 1 .. N + k /\ p - N = n + 1 /\ n + 1 \in 1 .. k
          /\ p \in 1 .. N + k /\ (n + 1) - 1 = n
      BY <2>4, <2>6, <2>7
    <3>2. worker'[p] = m[n + 1]
      BY <2>4, <3>1
    <3>3. Touches(worker'[p], n)
      BY <2>5, <3>1, <3>2
    <3>4. ~(i < p)
      <4> SUFFICES ASSUME i < p PROVE FALSE
        OBVIOUS
      <4>1. p \in i + 1 .. N + k
        BY <2>4, <3>1
      <4> QED BY <2>4, <3>3, <4>1 DEF LastTouch
    <3>5. ~(i > p)
      <4> SUFFICES ASSUME i > p PROVE FALSE
        OBVIOUS
      <4>1. i \in N + 1 .. N + k /\ i - N \in 1 .. k /\ i > 0 /\ (i - N) - 1 # n
        BY <2>4, <2>6, <3>1
      <4>2. Touches(m[i - N], n)
        BY <2>4, <4>1 DEF LastTouch
      <4> QED BY <2>5, <4>1, <4>2
    <3>6. i = p /\ i # 0
      BY <2>4, <2>6, <3>4, <3>5
    <3>7. Decided(worker', doc, n, i) = Left(m[n + 1])
      BY <3>2, <3>6 DEF Decided
    <3>8. Asked(b, n, Left(m[n + 1]))
      BY <2>2, <3>1
    <3> QED BY <1>1, <2>3, <2>7, <3>7, <3>8, ExpectedAfter DEF k
  <2>8. CASE ~(k > n)
    <3>1. i \in 0 .. N
      <4> SUFFICES ASSUME i > N PROVE FALSE
        BY <2>4
      <4>1. i \in N + 1 .. N + k /\ i - N \in 1 .. k /\ i > 0 /\ (i - N) - 1 # n
        BY <2>4, <2>6, <2>8
      <4>2. Touches(m[i - N], n)
        BY <2>4, <4>1 DEF LastTouch
      <4> QED BY <2>5, <4>1, <4>2
    <3>2. i > 0 => i \in 1 .. N /\ worker'[i] = worker[i]
      BY <2>4, <3>1
    <3>3. \A j \in i + 1 .. N : worker'[j] = worker[j] /\ j \in i + 1 .. N + k
      BY <2>4, <3>1
    <3>4. LastTouch(worker, n, i)
      BY <2>4, <3>2, <3>3 DEF LastTouch, N
    <3>5. Decided(worker', doc, n, i) = Decided(worker, doc, n, i)
      BY <3>1, <3>2 DEF Decided
    <3>6. Expected(base, done, n, Decided(worker, doc, n, i))
      BY <3>1, <3>4 DEF SlotsDecided, N
    <3> QED BY <1>1, <2>3, <2>8, <3>5, <3>6, ExpectedAfter DEF k
  <2> QED BY <2>7, <2>8
<1> QED BY <1>3, <1>4 DEF TrainTimes, b

\* A call that runs leaves in its slot what it had decided.
LEMMA ServeDecides ==
    ASSUME IInv, SlotsDecided, Serve
    PROVE  SlotsDecided'
<1> DEFINE c == Head(worker)
           N == Len(worker)
<1>1. worker \in Seq(Call) /\ worker # <<>>
  BY DEF IInv, TypeOK, Serve
<1>2. /\ c \in Call /\ c = worker[1] /\ N \in Nat \ {0}
      /\ Len(worker') = N - 1
      /\ \A i \in 1 .. N - 1 : worker'[i] = worker[i + 1]
  BY <1>1, TailElements DEF Serve
<1>3. doc' = (IF c = Delete THEN Empty ELSE Merged(doc, c)) /\ base' = base /\ done' = done
  BY DEF Serve, history
<1> HIDE DEF c, N
<1>4. SUFFICES ASSUME NEW n \in Slot, NEW i \in 0 .. N - 1, LastTouch(worker', n, i)
               PROVE  Expected(base, done, n, Decided(worker', doc', n, i))
  BY <1>2, <1>3 DEF SlotsDecided
<1>5. \A j \in i + 2 .. N : ~Touches(worker[j], n)
  <2> SUFFICES ASSUME NEW j \in i + 2 .. N
               PROVE  ~Touches(worker[j], n)
    OBVIOUS
  <2>1. j - 1 \in i + 1 .. N - 1 /\ j - 1 \in 1 .. N - 1 /\ (j - 1) + 1 = j
    BY <1>2
  <2>2. worker'[j - 1] = worker[j]
    BY <1>2, <2>1
  <2> QED BY <1>2, <1>4, <2>1, <2>2 DEF LastTouch
<1>6. CASE i > 0
  <2>1. i \in 1 .. N - 1 /\ i + 1 \in 0 .. N /\ i + 1 > 0
    BY <1>2, <1>6
  <2>2. worker'[i] = worker[i + 1]
    BY <1>2, <2>1
  <2>3. LastTouch(worker, n, i + 1)
    <3>1. Touches(worker[i + 1], n)
      BY <1>4, <1>6, <2>2 DEF LastTouch
    <3>2. (i + 1) + 1 = i + 2
      BY <1>2
    <3> QED BY <1>5, <3>1, <3>2 DEF LastTouch, N
  <2>4. Expected(base, done, n, Decided(worker, doc, n, i + 1))
    BY <2>1, <2>3 DEF SlotsDecided, N
  <2>5. Decided(worker, doc, n, i + 1) = Decided(worker', doc', n, i)
    BY <1>6, <2>1, <2>2 DEF Decided
  <2> QED BY <2>4, <2>5
<1>7. CASE i = 0
  <2>1. \A j \in 2 .. N : ~Touches(worker[j], n)
    BY <1>5, <1>7
  <2>2. CASE Touches(c, n)
    <3>1. LastTouch(worker, n, 1) /\ 1 \in 0 .. N
      BY <1>2, <2>1, <2>2 DEF LastTouch, N
    <3>2. Expected(base, done, n, Left(c))
      BY <1>2, <3>1 DEF SlotsDecided, Decided, N
    <3>3. At(doc', n) = Left(c)
      BY <1>3, <2>2 DEF At, Left, Touches, Empty, Merged
    <3> QED BY <1>7, <3>2, <3>3 DEF Decided
  <2>3. CASE ~Touches(c, n)
    <3>1. LastTouch(worker, n, 0) /\ 0 \in 0 .. N
      <4>1. \A j \in 0 + 1 .. N : j = 1 \/ j \in 2 .. N
        BY <1>2
      <4> QED BY <1>2, <2>1, <2>3, <4>1 DEF LastTouch, N
    <3>2. Expected(base, done, n, At(doc, n))
      BY <3>1 DEF SlotsDecided, Decided, N
    <3>3. At(doc', n) = At(doc, n)
      BY <1>3, <2>3 DEF At, Touches, Merged
    <3> QED BY <1>7, <3>2, <3>3 DEF Decided
  <2> QED BY <2>2, <2>3
<1> QED BY <1>2, <1>6, <1>7

\* Without an answer since the last reset the slots are to stay as they were.
LEMMA ExpectedFirst ==
    ASSUME NEW B, NEW n, NEW X
    PROVE  Expected(B, <<>>, n, X) <=> X = At(B, n)
BY DEF Expected, Long

LEMMA DeleteTimesDecides ==
    ASSUME IInv, SlotsDecided, DeleteTimes
    PROVE  SlotsDecided'
<1> DEFINE N == Len(worker)
<1>1. worker \in Seq(Call) /\ worker' = Append(worker, Delete) /\ base' = Empty /\ done' = <<>>
  BY DEF IInv, TypeOK, DeleteTimes
<1>2. Delete \in Call
  BY DEF Call, Delete
<1>3. N \in Nat /\ Len(worker') = N + 1 /\ worker'[N + 1] = Delete
  BY <1>1, <1>2, AppendProperties
<1> HIDE DEF N
<1>4. SUFFICES ASSUME NEW n \in Slot, NEW i \in 0 .. N + 1, LastTouch(worker', n, i)
               PROVE  Expected(Empty, <<>>, n, Decided(worker', doc', n, i))
  BY <1>1, <1>3 DEF SlotsDecided
<1>5. Touches(worker'[N + 1], n)
  BY <1>3 DEF Touches
<1>6. i = N + 1
  <2>1. ~(i < N + 1)
    <3> SUFFICES ASSUME i < N + 1 PROVE FALSE
      OBVIOUS
    <3>1. N + 1 \in i + 1 .. N + 1
      BY <1>3
    <3> QED BY <1>3, <1>4, <1>5, <3>1 DEF LastTouch
  <2> QED BY <1>3, <2>1
<1>7. Decided(worker', doc', n, i) = {}
  BY <1>3, <1>6 DEF Decided, Left
<1>8. At(Empty, n) = {}
  BY DEF At, Empty
<1> QED BY <1>7, <1>8, ExpectedFirst

LEMMA RelaunchDecides ==
    ASSUME Relaunch
    PROVE  SlotsDecided'
<1>1. worker' = <<>> /\ base' = doc /\ doc' = doc /\ done' = <<>>
  BY DEF Relaunch
<1>2. SUFFICES ASSUME NEW n \in Slot, NEW i \in 0 .. Len(<<>>)
               PROVE  Expected(doc, <<>>, n, Decided(<<>>, doc, n, i))
  BY <1>1 DEF SlotsDecided
<1>3. i = 0
  BY EmptySeq
<1> QED BY <1>3, ExpectedFirst DEF Decided

LEMMA InitDecides == Init => SlotsDecided
<1> SUFFICES ASSUME Init, NEW n \in Slot, NEW i \in 0 .. Len(<<>>)
             PROVE  Expected(Empty, <<>>, n, Decided(<<>>, Empty, n, i))
  BY DEF Init, SlotsDecided
<1>1. i = 0
  BY EmptySeq
<1> QED BY <1>1, ExpectedFirst DEF Decided

LEMMA StepDecides == IInv /\ SlotsDecided /\ [Next]_vars => SlotsDecided'
<1> SUFFICES ASSUME IInv, SlotsDecided, [Next]_vars
             PROVE  SlotsDecided'
  OBVIOUS
<1>1. CASE UpdateTubeTimes
  BY <1>1, DecidedKept DEF UpdateTubeTimes, history
<1>2. CASE TimerFires
  BY <1>2, DecidedKept DEF TimerFires, history
<1>3. CASE Answered
  BY <1>3, DecidedKept DEF Answered, history
<1>4. CASE TrainTimes
  BY <1>4, TrainTimesDecides
<1>5. CASE Serve
  BY <1>5, ServeDecides
<1>6. CASE DeleteTimes
  BY <1>6, DeleteTimesDecides
<1>7. CASE Relaunch
  BY <1>7, RelaunchDecides
<1>8. CASE UNCHANGED vars
  BY <1>8, DecidedKept DEF vars, history
<1> QED BY <1>1, <1>2, <1>3, <1>4, <1>5, <1>6, <1>7, <1>8 DEF Next, Running

\* With no call left, what was decided is in the document.
LEMMA DecidedIsThere == IInv /\ SlotsDecided => SlotsOfLastAnswers
<1> SUFFICES ASSUME SlotsDecided, worker = <<>>, NEW n \in Slot
             PROVE  IF Long(done, n) = {}
                    THEN /\ n \in DOMAIN doc <=> n \in DOMAIN base
                         /\ n \in DOMAIN doc => doc[n] = base[n]
                    ELSE LET b == done[Max(Long(done, n))]
                         IN  /\ n \in DOMAIN doc
                             /\ doc[n].destination = b.request.id
                             /\ \E i \in Rank(b, n) : doc[n].time = b.trains[i].time
  BY DEF SlotsOfLastAnswers, Long
<1>1. Expected(base, done, n, At(doc, n))
  <2>1. Len(worker) = 0 /\ 0 \in 0 .. 0
    BY EmptySeq
  <2>2. LastTouch(worker, n, 0)
    BY <2>1 DEF LastTouch
  <2> QED BY <2>1, <2>2 DEF SlotsDecided, Decided
<1>2. CASE Long(done, n) = {}
  <2>1. At(doc, n) = At(base, n)
    BY <1>1, <1>2 DEF Expected
  <2>2. \A d : At(d, n) = IF n \in DOMAIN d THEN {d[n]} ELSE {}
    BY DEF At
  <2> QED BY <1>2, <2>1, <2>2
<1>3. CASE Long(done, n) # {}
  <2> DEFINE b == done[Max(Long(done, n))]
  <2>1. Asked(b, n, At(doc, n))
    BY <1>1, <1>3 DEF Expected
  <2> HIDE DEF b
  <2>2. PICK i \in Rank(b, n) :
           At(doc, n) = {[time |-> b.trains[i].time, destination |-> b.request.id]}
    BY <2>1 DEF Asked
  <2>3. /\ n \in DOMAIN doc
        /\ doc[n] = [time |-> b.trains[i].time, destination |-> b.request.id]
    BY <2>2 DEF At
  <2>4. doc[n].destination = b.request.id /\ doc[n].time = b.trains[i].time
    BY <2>3
  <2> QED BY <1>3, <2>3, <2>4 DEF b
<1> QED BY <1>2, <1>3

\* Once the calls have run, each slot holds that train of the answer handled
\* last among those with so many trains, in ascending order of time: no slot is
\* made of two answers, and an overtaken answer counts by when it came.
THEOREM SlotsOfAnswers == Spec => []SlotsOfLastAnswers
<1>1. Init => IInv /\ SlotsDecided
  BY InitInvariant, InitDecides
<1>2. (IInv /\ SlotsDecided) /\ [Next]_vars => (IInv /\ SlotsDecided)'
  BY StepInvariant, StepDecides
<1>3. IInv /\ SlotsDecided => SlotsOfLastAnswers
  BY DecidedIsThere
<1> QED BY <1>1, <1>2, <1>3, PTL DEF Spec

=============================================================================

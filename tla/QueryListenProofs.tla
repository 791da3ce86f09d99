------------------------- MODULE QueryListenProofs -------------------------
(***************************************************************************)
(* What holds of QueryListen for any documents and values and every bound: *)
(* however many writes, broken streams, refusals, resets and processes.    *)
(***************************************************************************)
EXTENDS QueryListen, QueueLemmas, TLAPS

-----------------------------------------------------------------------------
(* The backend's documents as of a version, of any log.                    *)

VersionIn(l, v, d) == Max({0} \cup {i \in 1 .. v : l[i].doc = d})

ValueIn(l, v, d) == IF VersionIn(l, v, d) = 0 THEN Absent ELSE l[VersionIn(l, v, d)].value

LEMMA VersionFacts ==
    ASSUME NEW l, NEW v \in Nat, NEW d
    PROVE  /\ VersionIn(l, v, d) \in 0 .. v
           /\ VersionIn(l, v, d) # 0 => l[VersionIn(l, v, d)].doc = d
           /\ \A i \in 1 .. v : l[i].doc = d => i <= VersionIn(l, v, d)
<1> DEFINE S == {0} \cup {i \in 1 .. v : l[i].doc = d}
<1>1. S \in SUBSET Nat /\ 0 \in S /\ \A x \in S : x <= v
  OBVIOUS
<1>2. Max(S) \in S /\ \A x \in S : x <= Max(S)
  <2> HIDE DEF S
  <2>1. S # {}
    BY <1>1
  <2> QED BY <1>1, <2>1, GreatestOfBounded
<1>3. VersionIn(l, v, d) = Max(S)
  BY DEF VersionIn
<1>4. /\ Max(S) \in 0 .. v
      /\ Max(S) # 0 => l[Max(S)].doc = d
      /\ \A i \in 1 .. v : l[i].doc = d => i <= Max(S)
  BY <1>2
<1> HIDE DEF S
<1> QED BY <1>3, <1>4

LEMMA VersionIs ==
    ASSUME NEW l, NEW v \in Nat, NEW d, NEW w \in 0 .. v, w # 0 => l[w].doc = d,
           \A i \in 1 .. v : l[i].doc = d => i <= w
    PROVE  VersionIn(l, v, d) = w
<1> DEFINE u == VersionIn(l, v, d)
<1>1. /\ u \in 0 .. v /\ (u # 0 => l[u].doc = d)
      /\ \A i \in 1 .. v : l[i].doc = d => i <= u
  BY VersionFacts
<1> HIDE DEF u
<1>2. u # 0 => u <= w
  BY <1>1
<1>3. w # 0 => w <= u
  BY <1>1
<1> QED BY <1>1, <1>2, <1>3 DEF u

\* Of logs that agree up to a version.
LEMMA VersionOfEqual ==
    ASSUME NEW l, NEW m, NEW v \in Nat, \A i \in 1 .. v : l[i] = m[i], NEW d
    PROVE  VersionIn(l, v, d) = VersionIn(m, v, d) /\ ValueIn(l, v, d) = ValueIn(m, v, d)
<1> DEFINE w == VersionIn(l, v, d)
<1>1. /\ w \in 0 .. v /\ (w # 0 => l[w].doc = d)
      /\ \A i \in 1 .. v : l[i].doc = d => i <= w
  BY VersionFacts
<1> HIDE DEF w
<1>2. w # 0 => w \in 1 .. v /\ l[w] = m[w]
  BY <1>1
<1>3. VersionIn(m, v, d) = w
  BY <1>1, <1>2, VersionIs
<1> QED BY <1>2, <1>3 DEF w, ValueIn

\* Versions of the log between that of a document and v have the same one.
LEMMA VersionBetween ==
    ASSUME NEW l, NEW v \in Nat, NEW d, NEW w \in VersionIn(l, v, d) .. v
    PROVE  VersionIn(l, w, d) = VersionIn(l, v, d) /\ ValueIn(l, w, d) = ValueIn(l, v, d)
<1> DEFINE u == VersionIn(l, v, d)
<1>1. /\ u \in 0 .. v /\ (u # 0 => l[u].doc = d)
      /\ \A i \in 1 .. v : l[i].doc = d => i <= u
      /\ w \in u .. v
  BY VersionFacts
<1> HIDE DEF u
<1>2. w \in Nat /\ u \in 0 .. w /\ \A i \in 1 .. w : i \in 1 .. v
  BY <1>1
<1>3. VersionIn(l, w, d) = u
  BY <1>1, <1>2, VersionIs
<1> QED BY <1>3 DEF u, ValueIn

LEMMA VersionGrows ==
    ASSUME NEW l, NEW v \in Nat, NEW w \in 0 .. v, NEW d
    PROVE  VersionIn(l, w, d) <= VersionIn(l, v, d)
<1> DEFINE u == VersionIn(l, w, d)
           t == VersionIn(l, v, d)
<1>1. w \in Nat
  OBVIOUS
<1>2. u \in 0 .. w /\ (u # 0 => l[u].doc = d)
  BY <1>1, VersionFacts
<1>3. t \in 0 .. v /\ \A i \in 1 .. v : l[i].doc = d => i <= t
  BY VersionFacts
<1> HIDE DEF u, t
<1>4. u # 0 => u \in 1 .. v
  BY <1>2
<1>5. u <= t
  BY <1>2, <1>3, <1>4
<1> QED BY <1>5 DEF u, t

\* A write of a document at the end of the log.
LEMMA VersionAtEnd ==
    ASSUME NEW T, NEW l \in Seq(T), NEW b \in T
    PROVE  ValueIn(Append(l, b), Len(l) + 1, b.doc) = b.value
<1> DEFINE m == Append(l, b)
           n == Len(l) + 1
<1>1. n \in Nat /\ n # 0 /\ m[n] = b
  BY AppendProperties
<1> HIDE DEF m, n
<1>2. n \in 0 .. n /\ \A i \in 1 .. n : i <= n
  BY <1>1
<1>3. VersionIn(m, n, b.doc) = n
  BY <1>1, <1>2, VersionIs
<1>4. ValueIn(m, n, b.doc) = b.value
  BY <1>1, <1>3 DEF ValueIn
<1> QED BY <1>4 DEF m, n

\* A document that has a value has been written.
LEMMA PresentIsWritten ==
    ASSUME NEW l, NEW v, NEW d, ValueIn(l, v, d) # Absent
    PROVE  VersionIn(l, v, d) # 0
BY DEF ValueIn

LEMMA OfThisLog ==
    \A v, d : VersionOf(v, d) = VersionIn(log, v, d) /\ At(v, d) = ValueIn(log, v, d)
BY DEF VersionOf, At, VersionIn, ValueIn

LEMMA OfNextLog ==
    \A v, d : VersionOf(v, d)' = VersionIn(log', v, d) /\ At(v, d)' = ValueIn(log', v, d)
BY DEF VersionOf, At, VersionIn, ValueIn

LEMMA ValueType ==
    ASSUME NEW l \in Seq(Batch), NEW v \in 0 .. Len(l), NEW d
    PROVE  ValueIn(l, v, d) \in Content
<1>1. v \in Nat /\ VersionIn(l, v, d) \in 0 .. v
  BY VersionFacts
<1>2. VersionIn(l, v, d) # 0 => l[VersionIn(l, v, d)] \in Batch
  BY <1>1
<1>3. \A b \in Batch : b.value \in Content
  BY DEF Batch
<1> QED BY <1>2, <1>3 DEF ValueIn, Content

LEMMA KeptByAppend ==
    ASSUME NEW l \in Seq(Batch), NEW b \in Batch, NEW v \in 0 .. Len(l), NEW d
    PROVE  /\ VersionIn(Append(l, b), v, d) = VersionIn(l, v, d)
           /\ ValueIn(Append(l, b), v, d) = ValueIn(l, v, d)
<1> DEFINE m == Append(l, b)
<1>1. v \in Nat /\ \A i \in 1 .. v : l[i] = m[i]
  <2>1. Len(l) \in Nat /\ \A i \in 1 .. Len(l) : l[i] = m[i]
    BY AppendProperties
  <2> HIDE DEF m
  <2> QED BY <2>1
<1> HIDE DEF m
<1>2. VersionIn(l, v, d) = VersionIn(m, v, d) /\ ValueIn(l, v, d) = ValueIn(m, v, d)
  BY <1>1, VersionOfEqual
<1> QED BY <1>2 DEF m

\* The backend only adds to its log: what there was at a version stays.
LogStep == log' = log \/ \E b \in Batch : log' = Append(log, b)

LEMMA KeptByLog ==
    ASSUME log \in Seq(Batch), LogStep
    PROVE  /\ log' \in Seq(Batch) /\ Len(log) \in Nat /\ Len(log') \in Nat
           /\ Len(log) <= Len(log') /\ 0 .. Len(log) \subseteq 0 .. Len(log')
           /\ \A v \in 0 .. Len(log) : \A d :
                /\ VersionIn(log', v, d) = VersionIn(log, v, d)
                /\ ValueIn(log', v, d) = ValueIn(log, v, d)
<1>1. CASE log' = log
  BY <1>1
<1>2. CASE log' # log
  <2>1. PICK b \in Batch : log' = Append(log, b)
    BY <1>2 DEF LogStep
  <2>2. log' \in Seq(Batch) /\ Len(log') = Len(log) + 1 /\ Len(log) \in Nat
    BY <2>1
  <2>3. \A v \in 0 .. Len(log) : \A d :
           /\ VersionIn(log', v, d) = VersionIn(log, v, d)
           /\ ValueIn(log', v, d) = ValueIn(log, v, d)
    BY <2>1, KeptByAppend
  <2> QED BY <2>2, <2>3
<1> QED BY <1>1, <1>2

-----------------------------------------------------------------------------
(* The mutation queue over a document.                                     *)

LastPending(q, d, i) == i \in Pending(q, d) /\ \A j \in Pending(q, d) : j <= i

LEMMA OverlayIs ==
    ASSUME NEW q \in Seq(Batch), NEW d, NEW i, LastPending(q, d, i)
    PROVE  Overlay(q, d) = q[i].value
<1>1. Pending(q, d) \in SUBSET Nat /\ Pending(q, d) # {} /\ i \in Nat
      /\ \A x \in Pending(q, d) : x <= i
  BY DEF Pending, LastPending
<1>2. Max(Pending(q, d)) \in Pending(q, d)
      /\ \A x \in Pending(q, d) : x <= Max(Pending(q, d))
  BY <1>1, GreatestOfBounded
<1>3. Max(Pending(q, d)) = i
  BY <1>1, <1>2 DEF LastPending
<1> QED BY <1>3 DEF Overlay

LEMMA LastPendingExists ==
    ASSUME NEW q \in Seq(Batch), NEW d, Pending(q, d) # {}
    PROVE  \E i \in DOMAIN q :
               LastPending(q, d, i) /\ q[i].doc = d /\ Overlay(q, d) = q[i].value
<1>1. Pending(q, d) \in SUBSET Nat /\ Len(q) \in Nat
      /\ \A x \in Pending(q, d) : x <= Len(q)
  BY DEF Pending
<1>2. Max(Pending(q, d)) \in Pending(q, d)
      /\ \A x \in Pending(q, d) : x <= Max(Pending(q, d))
  BY <1>1, GreatestOfBounded
<1>3. LastPending(q, d, Max(Pending(q, d)))
  BY <1>2 DEF LastPending
<1>4. Overlay(q, d) = q[Max(Pending(q, d))].value
  BY DEF Overlay
<1>5. \A i : LastPending(q, d, i) => i \in DOMAIN q /\ q[i].doc = d
  BY DEF LastPending, Pending
<1> QED BY <1>3, <1>4, <1>5

LEMMA LocalType ==
    ASSUME NEW q \in Seq(Batch), NEW c, NEW d, c[d].value \in Content
    PROVE  Local(c, q, d) \in Content
<1>1. CASE Pending(q, d) = {}
  BY <1>1 DEF Local
<1>2. CASE Pending(q, d) # {}
  <2>1. PICK i \in DOMAIN q : Overlay(q, d) = q[i].value
    BY <1>2, LastPendingExists
  <2>2. q[i] \in Batch
    OBVIOUS
  <2> QED BY <1>2, <2>1, <2>2 DEF Local, Batch
<1> QED BY <1>1, <1>2

\* A write of another document leaves a document as it was.
LEMMA PendingOfAppend ==
    ASSUME NEW q \in Seq(Batch), NEW b \in Batch, NEW d, b.doc # d
    PROVE  /\ Pending(Append(q, b), d) = {} <=> Pending(q, d) = {}
           /\ Pending(q, d) # {} => Overlay(Append(q, b), d) = Overlay(q, d)
<1> DEFINE r == Append(q, b)
<1>1. /\ Len(q) \in Nat /\ DOMAIN q = 1 .. Len(q) /\ DOMAIN r = 1 .. Len(q) + 1
      /\ \A i \in 1 .. Len(q) : r[i] = q[i]
      /\ r[Len(q) + 1] = b /\ r \in Seq(Batch)
  BY AppendProperties
<1> HIDE DEF r
<1>2. Pending(r, d) = Pending(q, d)
  <2>1. \A i \in DOMAIN r : r[i].doc = d <=> i \in DOMAIN q /\ q[i].doc = d
    BY <1>1
  <2>2. DOMAIN q \subseteq DOMAIN r
    BY <1>1
  <2> QED BY <2>1, <2>2 DEF Pending
<1>3. ASSUME Pending(q, d) # {} PROVE Overlay(r, d) = Overlay(q, d)
  <2>1. PICK i \in DOMAIN q : LastPending(q, d, i) /\ Overlay(q, d) = q[i].value
    BY <1>3, LastPendingExists
  <2>2. LastPending(r, d, i) /\ r[i] = q[i]
    BY <1>1, <1>2, <2>1 DEF LastPending
  <2>3. Overlay(r, d) = r[i].value
    BY <1>1, <2>2, OverlayIs
  <2> QED BY <2>1, <2>2, <2>3
<1> QED BY <1>2, <1>3 DEF r

LEMMA PendingOfTail ==
    ASSUME NEW q \in Seq(Batch), q # <<>>, NEW d, Head(q).doc # d
    PROVE  /\ Pending(Tail(q), d) = {} <=> Pending(q, d) = {}
           /\ Pending(q, d) # {} => Overlay(Tail(q), d) = Overlay(q, d)
<1> DEFINE t == Tail(q)
<1>1. /\ Len(q) \in Nat \ {0} /\ DOMAIN q = 1 .. Len(q) /\ DOMAIN t = 1 .. Len(q) - 1
      /\ \A i \in 1 .. Len(q) - 1 : t[i] = q[i + 1]
      /\ Head(q) = q[1] /\ t \in Seq(Batch)
  BY TailElements
<1> HIDE DEF t
<1>2. q[1].doc # d
  BY <1>1
<1>3. ASSUME NEW i \in Pending(t, d) PROVE i + 1 \in Pending(q, d) /\ i \in Nat
  <2>1. i \in 1 .. Len(q) - 1 /\ t[i].doc = d
    BY <1>1 DEF Pending
  <2>2. i + 1 \in 1 .. Len(q) /\ q[i + 1].doc = d
    BY <1>1, <2>1
  <2> QED BY <1>1, <2>1, <2>2 DEF Pending
<1>4. ASSUME NEW i \in Pending(q, d) PROVE i - 1 \in Pending(t, d) /\ i \in Nat /\ i > 1
  <2>1. i \in 1 .. Len(q) /\ q[i].doc = d
    BY <1>1 DEF Pending
  <2>2. i # 1
    BY <1>2, <2>1
  <2>3. i - 1 \in 1 .. Len(q) - 1 /\ (i - 1) + 1 = i
    BY <1>1, <2>1, <2>2
  <2>4. t[i - 1].doc = d
    BY <1>1, <2>1, <2>3
  <2> QED BY <1>1, <2>1, <2>2, <2>3, <2>4 DEF Pending
<1>5. ASSUME Pending(q, d) # {} PROVE Overlay(t, d) = Overlay(q, d)
  <2>1. PICK i \in DOMAIN q : LastPending(q, d, i) /\ Overlay(q, d) = q[i].value
    BY <1>5, LastPendingExists
  <2>2. i - 1 \in Pending(t, d) /\ i \in Nat /\ i > 1
    BY <1>4, <2>1 DEF LastPending
  <2>3. \A j \in Pending(t, d) : j <= i - 1
    <3> SUFFICES ASSUME NEW j \in Pending(t, d)
                 PROVE  j <= i - 1
      OBVIOUS
    <3>1. j + 1 <= i /\ j \in Nat
      BY <1>3, <2>1 DEF LastPending
    <3> QED BY <2>2, <3>1
  <2>4. LastPending(t, d, i - 1)
    BY <2>2, <2>3 DEF LastPending
  <2>5. Overlay(t, d) = t[i - 1].value
    BY <1>1, <2>4, OverlayIs
  <2>6. t[i - 1] = q[i]
    <3>1. i - 1 \in 1 .. Len(q) - 1 /\ (i - 1) + 1 = i
      BY <1>1, <2>1, <2>2
    <3> QED BY <1>1, <3>1
  <2> QED BY <2>1, <2>5, <2>6
<1>6. Pending(t, d) = {} <=> Pending(q, d) = {}
  BY <1>3, <1>4
<1> QED BY <1>5, <1>6 DEF t

-----------------------------------------------------------------------------
(* Types.                                                                  *)

\* Messages that differ in their limbo documents alone.
Alike(m, n) ==
    /\ m.type = n.type
    /\ n.type = "snapshot" => m.version = n.version /\ m.reset = n.reset /\ m.docs = n.docs

AllAlike(ms, ns) == Len(ms) = Len(ns) /\ \A i \in 1 .. Len(ns) : Alike(ms[i], ns[i])

\* A cache, before or after a step.
Cached(c) == \A d \in Doc : c[d].value \in Content

LEMMA MessageFields ==
    \A m \in Message :
        /\ m.type \in {"added", "refused", "snapshot"}
        /\ m.type = "snapshot" =>
              /\ m \in [type : {"snapshot"}, version : Nat, reset : BOOLEAN,
                        docs : SUBSET Doc, limbo : SUBSET Doc]
              /\ m.version \in Nat /\ m.reset \in BOOLEAN /\ m.docs \subseteq Doc
              /\ m.limbo \subseteq Doc
BY DEF Message

LEMMA ForgottenType ==
    ASSUME NEW ms \in Seq(Message), NEW docs
    PROVE  /\ Forgotten(ms, docs) \in Seq(Message)
           /\ Len(Forgotten(ms, docs)) = Len(ms)
           /\ \A i \in 1 .. Len(ms) : Alike(Forgotten(ms, docs)[i], ms[i])
<1> DEFINE f == Forgotten(ms, docs)
<1>1. Len(ms) \in Nat /\ DOMAIN ms = 1 .. Len(ms) /\ \A i \in 1 .. Len(ms) : ms[i] \in Message
  OBVIOUS
<1>2. ASSUME NEW i \in 1 .. Len(ms)
      PROVE  f[i] \in Message /\ Alike(f[i], ms[i])
  <2> DEFINE m == ms[i]
  <2>1. m \in Message
    BY <1>1
  <2>2. f[i] = IF m.type = "snapshot" THEN [m EXCEPT !.limbo = @ \ docs] ELSE m
    BY <1>1 DEF Forgotten
  <2> HIDE DEF m, f
  <2>3. CASE m.type = "snapshot"
    <3>1. m \in [type : {"snapshot"}, version : Nat, reset : BOOLEAN,
                 docs : SUBSET Doc, limbo : SUBSET Doc]
      BY <2>1, <2>3, MessageFields
    <3>2. f[i] = [m EXCEPT !.limbo = @ \ docs]
      BY <2>2, <2>3
    <3>3. /\ f[i] \in [type : {"snapshot"}, version : Nat, reset : BOOLEAN,
                       docs : SUBSET Doc, limbo : SUBSET Doc]
          /\ f[i].type = m.type /\ f[i].version = m.version /\ f[i].reset = m.reset
          /\ f[i].docs = m.docs
      BY <3>1, <3>2
    <3> QED BY <3>3 DEF Message, Alike, m
  <2>4. CASE m.type # "snapshot"
    BY <2>1, <2>2, <2>4 DEF Alike, m
  <2> QED BY <2>3, <2>4
<1>3. DOMAIN f = 1 .. Len(ms) /\ f \in [1 .. Len(ms) -> Message]
  <2>1. f = [i \in 1 .. Len(ms) |-> f[i]]
    BY <1>1 DEF Forgotten
  <2> HIDE DEF f
  <2> QED BY <1>2, <2>1
<1> HIDE DEF f
<1>4. f \in Seq(Message)
  BY <1>1, <1>3, SeqDef
<1>5. Len(f) = Len(ms)
  BY <1>1, <1>3, <1>4
<1> QED BY <1>2, <1>4, <1>5 DEF f

LEMMA ApplyType ==
    ASSUME view \in View, NEW changes \in SUBSET Doc, NEW q \in Seq(Batch),
           NEW c, Cached(c), NEW keys, NEW current \in BOOLEAN
    PROVE  ApplyChanges(changes, c, q, keys, current) \in View
<1> DEFINE applied == {d \in changes : Applies(c, q, d)}
           docs == [d \in Doc |-> IF d \in applied THEN Local(c, q, d) ELSE view.docs[d]]
           mutated == (view.mutated \ applied)
                        \cup {d \in applied : docs[d] # Absent /\ HasLocalMutations(q, d)}
           limbo == IF current THEN Limbo(docs, mutated, keys) ELSE view.limbo
           synced == current /\ limbo = {}
<1>1. /\ view.docs \in [Doc -> Content] /\ view.mutated \subseteq Doc
      /\ view.limbo \subseteq Doc
  BY DEF View
<1>2. docs \in [Doc -> Content]
  <2>1. \A d \in Doc : Local(c, q, d) \in Content
    BY LocalType DEF Cached
  <2> HIDE DEF applied
  <2> QED BY <1>1, <2>1
<1>3. mutated \subseteq Doc
  <2>1. applied \subseteq Doc
    OBVIOUS
  <2> HIDE DEF applied, docs
  <2> QED BY <1>1, <2>1
<1>4. limbo \subseteq Doc
  <2> HIDE DEF docs, mutated
  <2> QED BY <1>1 DEF Limbo
<1>5. synced \in BOOLEAN
  <2> HIDE DEF limbo
  <2> QED OBVIOUS
<1>6. ApplyChanges(changes, c, q, keys, current) =
          [docs |-> docs, mutated |-> mutated, current |-> current, synced |-> synced,
           limbo |-> limbo]
  BY DEF ApplyChanges
<1> HIDE DEF docs, mutated, synced, limbo, applied
<1> QED BY <1>2, <1>3, <1>4, <1>5, <1>6 DEF View

\* What a step that changes the view leaves of the types.
LEMMA EmitType ==
    ASSUME NEW changes \in SUBSET Doc, NEW q \in Seq(Batch),
           NEW c, Cached(c), NEW keys, NEW current \in BOOLEAN,
           NEW ms \in Seq(Message),
           view \in View, listening \in BOOLEAN, waiting \in BOOLEAN, asked \subseteq Doc,
           EmitNewSnapshots(changes, c, q, keys, current, ms)
    PROVE  /\ view' \in View /\ listening' = listening /\ waiting' \in BOOLEAN
           /\ asked' \subseteq Doc
           /\ toClient' \in Seq(Message) /\ AllAlike(toClient', ms)
           /\ view' = IF listening THEN ApplyChanges(changes, c, q, keys, current) ELSE view
<1> DEFINE v == ApplyChanges(changes, c, q, keys, current)
<1>1. v \in View
  BY ApplyType
<1> HIDE DEF v
<1>2. CASE listening
  <2>1. /\ view' = v /\ RaiseEvents(v, online', waiting) /\ TrackLimbo(v, ms)
        /\ listening' = listening
    BY <1>2 DEF EmitNewSnapshots, v
  <2>2. waiting' \in BOOLEAN
    BY <2>1 DEF RaiseEvents
  <2>3. toClient' = Forgotten(ms, view.limbo \ v.limbo)
    BY <2>1 DEF TrackLimbo
  <2>4. asked' \subseteq Doc
    <3>1. v.limbo \subseteq Doc
      BY <1>1 DEF View
    <3> QED BY <2>1, <3>1 DEF TrackLimbo
  <2>5. toClient' \in Seq(Message) /\ AllAlike(toClient', ms)
    BY <2>3, ForgottenType DEF AllAlike
  <2> QED BY <1>1, <1>2, <2>1, <2>2, <2>4, <2>5 DEF v
<1>3. CASE ~listening
  <2>1. /\ toClient' = ms /\ view' = view /\ listening' = listening /\ waiting' = waiting
        /\ asked' = asked
    BY <1>3 DEF EmitNewSnapshots, shown
  <2>2. AllAlike(ms, ms)
    BY DEF AllAlike, Alike
  <2> QED BY <1>3, <2>1, <2>2
<1> QED BY <1>2, <1>3

Past(ms) == \A i \in 1 .. Len(ms) : ms[i].type = "snapshot" => ms[i].version <= Len(log)

\* The first acknowledgement is of the first write in the queue, and no
\* snapshot is of a version that the backend has yet to reach.
TypeInv == TypeOK /\ Len(acks) <= Len(queue) /\ Past(toClient)

LEMMA NewViewType == NewView \in View
<1>1. Nothing \in [Doc -> Content]
  BY DEF Nothing, Content
<1> QED BY <1>1 DEF NewView, View

LEMMA InitialType ==
    ASSUME queue \in Seq(Batch), Cached(cache)
    PROVE  InitialView \in View
<1> DEFINE docs == [d \in Doc |-> Local(cache, queue, d)]
           mutated == {d \in Doc : docs[d] # Absent /\ HasLocalMutations(queue, d)}
<1>1. docs \in [Doc -> Content]
  BY LocalType DEF Cached
<1>2. InitialView = [NewView EXCEPT !.docs = docs, !.mutated = mutated]
  BY DEF InitialView
<1>3. mutated \subseteq Doc
  OBVIOUS
<1> HIDE DEF docs, mutated
<1> QED BY <1>1, <1>2, <1>3, NewViewType DEF View

LEMMA InitTyped == Init => TypeInv
<1> SUFFICES ASSUME Init
             PROVE  TypeInv
  OBVIOUS
<1>1. <<>> \in Seq(Batch) /\ <<>> \in Seq(1 .. Len(log)) /\ <<>> \in Seq(Message)
  BY EmptySeq
<1>2. Len(<<>>) = 0
  OBVIOUS
<1>3. cache \in [Doc -> Entry] /\ snapshot \in 0 .. Len(log) /\ sent \in 0 .. Len(log)
  BY <1>2 DEF Init, Entry, Content
<1>4. writes \in 0 .. MaxWrites /\ faults \in 0 .. MaxFaults
  BY ListenBounds DEF Init
<1>5. log \in Seq(Batch) /\ queue \in Seq(Batch) /\ acks \in Seq(1 .. Len(log))
      /\ toClient \in Seq(Message)
  BY <1>1 DEF Init
<1>6. TypeOK
  BY <1>3, <1>4, <1>5, NewViewType DEF Init, TypeOK
<1> QED BY <1>2, <1>6 DEF Init, TypeInv, Past

LEMMA EntryFields ==
    ASSUME cache \in [Doc -> Entry]
    PROVE  \A d \in Doc : /\ cache[d] \in Entry /\ cache[d].version \in 0 .. Len(log)
                          /\ cache[d].value \in Content /\ cache[d].committed \in BOOLEAN
BY DEF Entry

\* As the log grows, what has a type keeps it.
LEMMA TypesGrow ==
    ASSUME log \in Seq(Batch), LogStep
    PROVE  /\ log' \in Seq(Batch) /\ Entry \subseteq Entry'
           /\ 0 .. Len(log) \subseteq 0 .. Len(log') /\ 1 .. Len(log) \subseteq 1 .. Len(log')
           /\ Len(log) \in Nat /\ Len(log') \in Nat /\ Len(log) <= Len(log')
<1>1. /\ log' \in Seq(Batch) /\ Len(log) \in Nat /\ Len(log') \in Nat
      /\ Len(log) <= Len(log') /\ 0 .. Len(log) \subseteq 0 .. Len(log')
  BY KeptByLog
<1>2. Entry \subseteq Entry'
  BY <1>1 DEF Entry
<1>3. 1 .. Len(log) \subseteq 1 .. Len(log')
  BY <1>1
<1> QED BY <1>1, <1>2, <1>3

LEMMA PastKept ==
    ASSUME NEW ms, Past(ms), AllAlike(toClient', ms), log' = log
    PROVE  Past(toClient)'
BY DEF Past, AllAlike, Alike

LEMMA PastOfTail ==
    ASSUME toClient \in Seq(Message), toClient # <<>>, Past(toClient)
    PROVE  /\ Tail(toClient) \in Seq(Message) /\ Past(Tail(toClient))
           /\ Head(toClient) \in Message
           /\ Head(toClient).type = "snapshot" => Head(toClient).version <= Len(log)
<1> DEFINE t == Tail(toClient)
<1>1. /\ Len(toClient) \in Nat \ {0} /\ Len(t) = Len(toClient) - 1 /\ t \in Seq(Message)
      /\ \A i \in 1 .. Len(toClient) - 1 : t[i] = toClient[i + 1]
      /\ Head(toClient) = toClient[1] /\ toClient[1] \in Message
  BY TailElements
<1> HIDE DEF t
<1>2. Past(t)
  <2> SUFFICES ASSUME NEW i \in 1 .. Len(t), t[i].type = "snapshot"
               PROVE  t[i].version <= Len(log)
    BY DEF Past
  <2>1. t[i] = toClient[i + 1] /\ i + 1 \in 1 .. Len(toClient)
    BY <1>1
  <2> QED BY <2>1 DEF Past
<1>3. 1 \in 1 .. Len(toClient)
  BY <1>1
<1> QED BY <1>1, <1>2, <1>3 DEF t, Past

LEMMA PastOfAppend ==
    ASSUME toClient \in Seq(Message), Past(toClient), NEW m \in Message,
           m.type = "snapshot" => m.version <= Len(log)
    PROVE  Append(toClient, m) \in Seq(Message) /\ Past(Append(toClient, m))
<1> DEFINE a == Append(toClient, m)
<1>1. /\ Len(toClient) \in Nat /\ Len(a) = Len(toClient) + 1 /\ a \in Seq(Message)
      /\ \A i \in 1 .. Len(toClient) : a[i] = toClient[i]
      /\ a[Len(toClient) + 1] = m
  BY AppendProperties
<1> HIDE DEF a
<1>2. Past(a)
  <2> SUFFICES ASSUME NEW i \in 1 .. Len(a), a[i].type = "snapshot"
               PROVE  a[i].version <= Len(log)
    BY DEF Past
  <2>1. i \in 1 .. Len(toClient) \/ i = Len(toClient) + 1
    BY <1>1
  <2> QED BY <1>1, <2>1 DEF Past
<1> QED BY <1>1, <1>2 DEF a

\* A write made here.
LEMMA WriteMutationsTyped ==
    ASSUME TypeInv, WriteMutations
    PROVE  TypeInv'
<1>1. PICK b \in Batch :
          /\ queue' = Append(queue, b) /\ UNCHANGED tracker
          /\ EmitNewSnapshots({b.doc}, cache, queue', remoteKeys, view.current, toClient)
  BY DEF WriteMutations
<1>2. /\ queue' \in Seq(Batch) /\ Len(queue') = Len(queue) + 1 /\ {b.doc} \in SUBSET Doc
      /\ Len(queue) \in Nat /\ Len(acks) \in Nat
  BY <1>1 DEF TypeInv, TypeOK, Batch
<1>3. view.current \in BOOLEAN /\ toClient \in Seq(Message) /\ Cached(cache)
  BY EntryFields DEF TypeInv, TypeOK, View, Cached
<1>4. view \in View /\ listening \in BOOLEAN /\ waiting \in BOOLEAN /\ asked \subseteq Doc
  BY DEF TypeInv, TypeOK
<1>5. /\ view' \in View /\ listening' = listening /\ waiting' \in BOOLEAN
      /\ asked' \subseteq Doc /\ toClient' \in Seq(Message) /\ AllAlike(toClient', toClient)
  <2> DEFINE changes == {b.doc}
             now == view.current
  <2>1. /\ changes \in SUBSET Doc /\ now \in BOOLEAN
        /\ EmitNewSnapshots(changes, cache, queue', remoteKeys, now, toClient)
    BY <1>1, <1>2, <1>3
  <2> HIDE DEF changes, now
  <2> QED BY <1>2, <1>3, <1>4, <2>1, EmitType
<1>6. /\ UNCHANGED <<log, cache, remoteKeys, snapshot, assertFailed, acks, stream, target,
                     sent, faults, online, timer, failed>>
      /\ writes' = writes + 1 /\ writes < MaxWrites
  BY <1>1 DEF WriteMutations, Writing, tracker
<1>7. writes' \in 0 .. MaxWrites
  BY <1>6, ListenBounds DEF TypeInv, TypeOK
<1>8. Past(toClient)'
  BY <1>5, <1>6, PastKept DEF TypeInv
<1>9. Len(acks') <= Len(queue')
  BY <1>2, <1>6 DEF TypeInv
<1>10. Entry' = Entry
  BY <1>6 DEF Entry
<1>11. TypeOK'
  BY <1>2, <1>4, <1>5, <1>6, <1>7, <1>10 DEF TypeInv, TypeOK
<1> QED BY <1>8, <1>9, <1>11 DEF TypeInv

LEMMA EntriesUnchanged == log' = log => Entry' = Entry
BY DEF Entry

\* What TypeInv says of the pieces that the steps read.
LEMMA Typed ==
    ASSUME TypeInv
    PROVE  /\ log \in Seq(Batch) /\ Len(log) \in Nat
           /\ queue \in Seq(Batch) /\ Len(queue) \in Nat
           /\ acks \in Seq(1 .. Len(log)) /\ Len(acks) \in Nat
           /\ toClient \in Seq(Message) /\ Len(toClient) \in Nat
           /\ view \in View /\ view.current \in BOOLEAN
           /\ listening \in BOOLEAN /\ waiting \in BOOLEAN /\ asked \subseteq Doc
           /\ Cached(cache) /\ snapshot \in 0 .. Len(log) /\ sent \in 0 .. Len(log)
BY EntryFields DEF TypeInv, TypeOK, View, Cached

LEMMA FaultsType ==
    ASSUME faults \in 0 .. MaxFaults, Failing
    PROVE  faults' \in 0 .. MaxFaults
BY ListenBounds DEF Failing

LEMMA WritesType ==
    ASSUME writes \in 0 .. MaxWrites, Writing
    PROVE  writes' \in 0 .. MaxWrites
BY ListenBounds DEF Writing

\* An acknowledgement.
LEMMA WriteAcknowledgedTyped ==
    ASSUME TypeInv, WriteAcknowledged
    PROVE  TypeInv'
<1> DEFINE b == Head(queue)
           v == Head(acks)
<1>1. /\ acks # <<>> /\ acks' = Tail(acks) /\ queue' = Tail(queue)
      /\ cache' = IF IsNewer(cache[b.doc], v)
                  THEN [cache EXCEPT ![b.doc] =
                          [version |-> v, value |-> b.value, committed |-> TRUE]]
                  ELSE cache
      /\ UNCHANGED tracker
      /\ EmitNewSnapshots({b.doc}, cache', queue', remoteKeys, view.current, toClient)
      /\ UNCHANGED <<log, remoteKeys, snapshot, assertFailed, stream, target, sent, counters>>
  BY DEF WriteAcknowledged
<1>2. Len(acks) # 0 /\ Len(queue) # 0 /\ Len(acks) <= Len(queue) /\ queue # <<>>
  BY <1>1, Typed DEF TypeInv
<1>3. /\ b \in Batch /\ queue' \in Seq(Batch) /\ Len(queue') = Len(queue) - 1
      /\ v \in 1 .. Len(log) /\ acks' \in Seq(1 .. Len(log)) /\ Len(acks') = Len(acks) - 1
  BY <1>1, <1>2, Typed, TailElements
<1>4. Len(acks') <= Len(queue')
  BY <1>2, <1>3, Typed
<1>5. b.doc \in Doc /\ b.value \in Content
  BY <1>3 DEF Batch
<1>6. cache' \in [Doc -> Entry]
  <2>1. [version |-> v, value |-> b.value, committed |-> TRUE] \in Entry
    BY <1>3, <1>5, Typed DEF Entry
  <2>2. cache \in [Doc -> Entry]
    BY DEF TypeInv, TypeOK
  <2> HIDE DEF b, v
  <2> QED BY <1>1, <2>1, <2>2
<1>7. Cached(cache')
  BY <1>6 DEF Cached, Entry
<1>8. /\ view' \in View /\ listening' = listening /\ waiting' \in BOOLEAN
      /\ asked' \subseteq Doc /\ toClient' \in Seq(Message) /\ AllAlike(toClient', toClient)
  <2> DEFINE ch == {b.doc}
  <2>1. ch \in SUBSET Doc
    BY <1>5
  <2>2. EmitNewSnapshots(ch, cache', queue', remoteKeys, view.current, toClient)
    BY <1>1
  <2>3. /\ view.current \in BOOLEAN /\ toClient \in Seq(Message) /\ view \in View
        /\ listening \in BOOLEAN /\ waiting \in BOOLEAN /\ asked \subseteq Doc
    BY Typed
  <2> HIDE DEF b, v, ch
  <2> QED BY <1>3, <1>7, <2>1, <2>2, <2>3, EmitType
<1>9. Past(toClient)'
  BY <1>1, <1>8, PastKept DEF TypeInv
<1>10. Entry' = Entry
  BY <1>1, EntriesUnchanged
<1>11. TypeOK'
  <2> HIDE DEF b, v
  <2> QED BY <1>1, <1>3, <1>6, <1>8, <1>10 DEF TypeInv, TypeOK, tracker, counters
<1> QED BY <1>4, <1>9, <1>11 DEF TypeInv

LEMMA WriteRejectedTyped ==
    ASSUME TypeInv, WriteRejected
    PROVE  TypeInv'
<1>1. /\ acks = <<>> /\ queue # <<>> /\ Failing /\ queue' = Tail(queue) /\ UNCHANGED tracker
      /\ EmitNewSnapshots({Head(queue).doc}, cache, queue', remoteKeys, view.current, toClient)
      /\ UNCHANGED <<log, cache, remoteKeys, snapshot, assertFailed, acks, stream, target,
                     sent, writes>>
  BY DEF WriteRejected
<1>2. /\ Head(queue) \in Batch /\ queue' \in Seq(Batch) /\ Len(queue') = Len(queue) - 1
      /\ Len(queue) # 0
  BY <1>1, Typed, TailElements
<1>3. {Head(queue).doc} \in SUBSET Doc
  BY <1>2 DEF Batch
<1>4. Len(acks') <= Len(queue')
  <2>1. Len(acks') = 0 /\ Len(queue') \in Nat
    BY <1>1, <1>2
  <2> QED BY <2>1
<1>5. /\ view' \in View /\ listening' = listening /\ waiting' \in BOOLEAN
      /\ asked' \subseteq Doc /\ toClient' \in Seq(Message) /\ AllAlike(toClient', toClient)
  <2> DEFINE ch == {Head(queue).doc}
  <2>1. ch \in SUBSET Doc
    BY <1>3
  <2>2. EmitNewSnapshots(ch, cache, queue', remoteKeys, view.current, toClient)
    BY <1>1
  <2>3. /\ view.current \in BOOLEAN /\ toClient \in Seq(Message) /\ view \in View
        /\ listening \in BOOLEAN /\ waiting \in BOOLEAN /\ asked \subseteq Doc
        /\ Cached(cache)
    BY Typed
  <2> HIDE DEF ch
  <2> QED BY <1>2, <2>1, <2>2, <2>3, EmitType
<1>6. Past(toClient)'
  BY <1>1, <1>5, PastKept DEF TypeInv
<1>7. Entry' = Entry
  BY <1>1, EntriesUnchanged
<1>8. faults' \in 0 .. MaxFaults
  BY <1>1, FaultsType DEF TypeInv, TypeOK
<1>9. TypeOK'
  BY <1>1, <1>2, <1>5, <1>7, <1>8 DEF TypeInv, TypeOK, tracker
<1> QED BY <1>4, <1>6, <1>9 DEF TypeInv

\* A step that tells the view the online state.
LEMMA BroadcastType ==
    ASSUME view \in View, waiting \in BOOLEAN, NEW o, Broadcast(o)
    PROVE  /\ view' \in View /\ waiting' \in BOOLEAN /\ listening' = listening
           /\ view'.docs = view.docs /\ view'.mutated = view.mutated
           /\ view'.limbo = view.limbo
           /\ view' = view \/ (view'.current = FALSE /\ view'.synced \in {view.synced, FALSE}
                               /\ (view.current => view'.synced = FALSE))
<1>1. CASE o = "Offline" /\ listening
  <2> DEFINE v == [view EXCEPT !.current = FALSE,
                               !.synced = IF view.current THEN FALSE ELSE @]
  <2>1. /\ v \in View /\ v.docs = view.docs /\ v.mutated = view.mutated
        /\ v.limbo = view.limbo /\ v.current = FALSE
        /\ v.synced = IF view.current THEN FALSE ELSE view.synced
    BY DEF View
  <2>2. view' = v /\ RaiseEvents(v, o, waiting) /\ listening' = listening
    BY <1>1 DEF Broadcast
  <2>3. waiting' \in BOOLEAN
    BY <2>2 DEF RaiseEvents
  <2> HIDE DEF v
  <2> QED BY <2>1, <2>2, <2>3
<1>2. CASE ~(o = "Offline" /\ listening)
  BY <1>2 DEF Broadcast, shown
<1> QED BY <1>1, <1>2

\* The steps of the streams and of the online state.
LEMMA StreamsTyped ==
    ASSUME TypeInv,
           WriteStreamFails \/ AddQueryListener \/ TimerFires \/ WatchStreamOpens
    PROVE  TypeInv'
<1>1. CASE WriteStreamFails
  <2>1. acks' = <<>> /\ faults' \in 0 .. MaxFaults
    BY <1>1, FaultsType DEF WriteStreamFails, TypeInv, TypeOK
  <2>2. Entry' = Entry
    BY <1>1, EntriesUnchanged DEF WriteStreamFails
  <2>3. acks' \in Seq(1 .. Len(log)) /\ Len(acks') <= Len(queue)
    <3>1. <<>> \in Seq(1 .. Len(log))
      BY EmptySeq
    <3>2. Len(<<>>) = 0 /\ Len(queue) \in Nat
      BY Typed
    <3> QED BY <2>1, <3>1, <3>2
  <2> QED BY <1>1, <2>1, <2>2, <2>3
          DEF WriteStreamFails, TypeInv, TypeOK, Past, disk, shown, tracker, watch
<1>2. CASE AddQueryListener
  <2>1. UNCHANGED <<log, disk, acks, counters>>
    BY <1>2 DEF AddQueryListener
  <2>2. Entry' = Entry
    BY <2>1, EntriesUnchanged
  <2>3. CASE listening
    <3>1. /\ RaiseEvents(view, online, TRUE)
          /\ UNCHANGED <<listening, view, tracker, assertFailed, watch>>
      BY <1>2, <2>3 DEF AddQueryListener
    <3>2. waiting' \in BOOLEAN
      BY <3>1 DEF RaiseEvents
    <3> QED BY <2>1, <2>2, <3>1, <3>2
            DEF TypeInv, TypeOK, Past, disk, tracker, watch, counters
  <2>4. CASE ~listening
    <3>1. /\ listening' = TRUE /\ view' = InitialView
          /\ RaiseEvents(InitialView, online, TRUE)
          /\ UNCHANGED <<failed, asked, toClient>>
          /\ \/ stream' = "connecting" /\ TrackStart(online, timer, failed)
             \/ UNCHANGED <<stream, online, timer, assertFailed>>
          /\ \/ target' = "asked" /\ sent' = snapshot
             \/ UNCHANGED <<target, sent>>
      BY <1>2, <2>4 DEF AddQueryListener
    <3>2. view' \in View
      BY <3>1, InitialType, Typed
    <3>3. waiting' \in BOOLEAN
      BY <3>1 DEF RaiseEvents
    <3>4. /\ stream' \in {"stopped", "connecting", "open"}
          /\ online' \in {"Unknown", "Online", "Offline"}
          /\ timer' \in BOOLEAN /\ assertFailed' \in BOOLEAN
      BY <3>1 DEF TrackStart, HardAssert, TypeInv, TypeOK
    <3>5. target' \in {"none", "asked", "refused", "added", "current"} /\ sent' \in 0 .. Len(log)
      BY <3>1 DEF TypeInv, TypeOK
    <3> QED BY <2>1, <2>2, <3>1, <3>2, <3>3, <3>4, <3>5
            DEF TypeInv, TypeOK, Past, disk, counters
  <2> QED BY <2>3, <2>4
<1>3. CASE TimerFires
  <2>1. /\ timer' = FALSE /\ HardAssert(online = "Unknown") /\ online' = "Offline"
        /\ Broadcast("Offline") /\ UNCHANGED <<log, disk, failed, acks, watch, counters>>
    BY <1>3 DEF TimerFires
  <2>2. view' \in View /\ waiting' \in BOOLEAN /\ listening' = listening
    BY <2>1, BroadcastType, Typed
  <2>3. Entry' = Entry
    BY <2>1, EntriesUnchanged
  <2>4. assertFailed' \in BOOLEAN
    BY <2>1 DEF HardAssert
  <2> QED BY <2>1, <2>2, <2>3, <2>4 DEF TypeInv, TypeOK, Past, disk, watch, counters
<1>4. CASE WatchStreamOpens
  <2>1. /\ stream' = "open" /\ asked' = view.limbo
        /\ target' \in {"asked", "none"} /\ sent' \in {snapshot, 0}
        /\ UNCHANGED <<log, disk, shown, tracker, assertFailed, acks, toClient, counters>>
    BY <1>4 DEF WatchStreamOpens, AskedOnOpen
  <2>2. asked' \subseteq Doc /\ sent' \in 0 .. Len(log)
    BY <2>1, Typed DEF View
  <2>3. Entry' = Entry
    BY <2>1, EntriesUnchanged
  <2> QED BY <2>1, <2>2, <2>3 DEF TypeInv, TypeOK, Past, disk, shown, tracker, counters
<1> QED BY <1>1, <1>2, <1>3, <1>4

\* A stream that is gone says no more.
LEMMA DisconnectedType ==
    ASSUME TypeInv, Disconnected
    PROVE  /\ target' = "none" /\ sent' \in 0 .. Len(log) /\ asked' \subseteq Doc
           /\ toClient' = <<>> /\ toClient' \in Seq(Message) /\ Past(toClient)'
<1>1. /\ target' = "none" /\ sent' = 0 /\ asked' = {} /\ toClient' = <<>>
  BY DEF Disconnected
<1>2. <<>> \in Seq(Message) /\ Len(<<>>) = 0
  BY EmptySeq
<1>3. Past(toClient)'
  BY <1>1, <1>2 DEF Past
<1>4. sent' \in 0 .. Len(log)
  BY <1>1, Typed
<1> QED BY <1>1, <1>2, <1>3, <1>4

LEMMA EmptyAcks ==
    ASSUME TypeInv, acks' = <<>>, queue' = queue
    PROVE  acks' \in Seq(1 .. Len(log)) /\ Len(acks') <= Len(queue')
<1>1. <<>> \in Seq(1 .. Len(log)) /\ Len(<<>>) = 0
  BY EmptySeq
<1> QED BY <1>1, Typed

\* The steps that lose the watch stream.
LEMMA DisconnectionsTyped ==
    ASSUME TypeInv, WatchStreamFails \/ RestartNetwork \/ Relaunch
    PROVE  TypeInv'
<1>1. /\ Failing /\ Disconnected /\ UNCHANGED <<log, disk, writes>>
  BY DEF WatchStreamFails, RestartNetwork, Relaunch
<1>2. /\ target' = "none" /\ sent' \in 0 .. Len(log) /\ asked' \subseteq Doc
      /\ toClient' = <<>> /\ toClient' \in Seq(Message) /\ Past(toClient)'
  BY <1>1, DisconnectedType
<1>3. Entry' = Entry /\ faults' \in 0 .. MaxFaults
  BY <1>1, EntriesUnchanged, FaultsType DEF TypeInv, TypeOK
<1>4. acks' \in Seq(1 .. Len(log)) /\ Len(acks') <= Len(queue')
  <2>1. acks' = acks \/ acks' = <<>>
    BY DEF WatchStreamFails, RestartNetwork, Relaunch
  <2>2. queue' = queue
    BY <1>1 DEF disk
  <2>3. acks \in Seq(1 .. Len(log)) /\ Len(acks) <= Len(queue)
    BY DEF TypeInv, TypeOK
  <2> QED BY <2>1, <2>2, <2>3, EmptyAcks
<1>5. /\ stream' \in {"stopped", "connecting", "open"}
      /\ online' \in {"Unknown", "Online", "Offline"}
      /\ timer' \in BOOLEAN /\ failed' \in BOOLEAN /\ assertFailed' \in BOOLEAN
      /\ view' \in View /\ waiting' \in BOOLEAN /\ listening' \in BOOLEAN
  <2>1. CASE WatchStreamFails
    <3>1. CASE ~listening
      BY <2>1, <3>1 DEF WatchStreamFails, TypeInv, TypeOK, shown
    <3>2. CASE listening /\ online = "Online"
      BY <2>1, <3>2 DEF WatchStreamFails, TypeInv, TypeOK, shown, HardAssert
    <3>3. CASE listening /\ online # "Online"
      <4>1. /\ stream' = "connecting" /\ failed' = TRUE /\ timer' = TimerCleared
            /\ online' = "Offline" /\ Broadcast("Offline") /\ UNCHANGED assertFailed
        BY <2>1, <3>3 DEF WatchStreamFails
      <4>2. view' \in View /\ waiting' \in BOOLEAN /\ listening' = listening
        BY <4>1, BroadcastType, Typed
      <4> QED BY <4>1, <4>2 DEF TypeInv, TypeOK, TimerCleared
    <3> QED BY <3>1, <3>2, <3>3 DEF TypeInv, TypeOK
  <2>2. CASE RestartNetwork
    BY <2>2 DEF RestartNetwork, TrackStart, HardAssert, TypeInv, TypeOK, shown
  <2>3. CASE Relaunch
    BY <2>3, NewViewType DEF Relaunch, TypeInv, TypeOK
  <2> QED BY <2>1, <2>2, <2>3
<1>6. TypeOK'
  BY <1>1, <1>2, <1>3, <1>4, <1>5 DEF TypeInv, TypeOK, disk
<1> QED BY <1>2, <1>4, <1>6 DEF TypeInv

LEMMA VersionType ==
    ASSUME log \in Seq(Batch), NEW v \in 0 .. Len(log), NEW d
    PROVE  VersionOf(v, d) \in 0 .. v /\ VersionOf(v, d) \in 0 .. Len(log) /\ At(v, d) \in Content
<1>1. v \in Nat /\ Len(log) \in Nat /\ v <= Len(log)
  OBVIOUS
<1>2. VersionIn(log, v, d) \in 0 .. v
  BY <1>1, VersionFacts
<1>3. VersionIn(log, v, d) \in 0 .. Len(log)
  BY <1>1, <1>2
<1>4. ValueIn(log, v, d) \in Content
  BY ValueType
<1> QED BY <1>2, <1>3, <1>4, OfThisLog

LEMMA ToldType ==
    ASSUME log \in Seq(Batch), NEW v \in 0 .. Len(log), NEW d
    PROVE  Told(v, d) \in Entry
<1>1. /\ VersionOf(v, d) \in 0 .. Len(log) /\ At(v, d) \in Content
  BY VersionType
<1> QED BY <1>1 DEF Told, Entry

\* A snapshot of the watch stream.
LEMMA RaiseWatchSnapshotTyped ==
    ASSUME TypeInv, RaiseWatchSnapshot
    PROVE  TypeInv'
<1> DEFINE m == Head(toClient)
           updates == {d \in m.docs \cup m.limbo : IsUpdate(cache[d], Told(m.version, d))}
           tail == Tail(toClient)
<1>1. /\ toClient # <<>> /\ m.type = "snapshot" /\ IsOnline
      /\ HardAssert(m.version >= snapshot)
      /\ cache' = [d \in Doc |-> IF d \in updates THEN Told(m.version, d) ELSE cache[d]]
      /\ remoteKeys' = KeysAfter(m) /\ snapshot' = m.version
      /\ EmitNewSnapshots(updates, cache', queue, remoteKeys', TRUE, tail)
      /\ UNCHANGED <<log, queue, acks, stream, target, sent, counters>>
  BY DEF RaiseWatchSnapshot, Reading
<1>2. m \in Message /\ m.version <= Len(log) /\ tail \in Seq(Message) /\ Past(tail)
  BY <1>1, Typed, PastOfTail DEF TypeInv
<1>3. m.version \in 0 .. Len(log) /\ m.docs \subseteq Doc /\ m.limbo \subseteq Doc
  <2>1. m.version \in Nat /\ m.docs \subseteq Doc /\ m.limbo \subseteq Doc
    BY <1>1, <1>2, MessageFields
  <2> HIDE DEF m
  <2> QED BY <1>2, <2>1, Typed
<1>4. updates \in SUBSET Doc
  BY <1>3
<1>5. cache' \in [Doc -> Entry]
  <2>1. \A d \in Doc : Told(m.version, d) \in Entry
    BY <1>3, ToldType, Typed
  <2>2. cache \in [Doc -> Entry]
    BY DEF TypeInv, TypeOK
  <2> HIDE DEF m, updates, tail
  <2> QED BY <1>1, <2>1, <2>2
<1>6. Cached(cache')
  BY <1>5 DEF Cached, Entry
<1>7. remoteKeys' \subseteq Doc
  <2>1. remoteKeys \subseteq Doc
    BY DEF TypeInv, TypeOK
  <2> HIDE DEF updates
  <2> QED BY <1>1, <1>3, <2>1 DEF KeysAfter, Present
<1>8. /\ view' \in View /\ listening' = listening /\ waiting' \in BOOLEAN
      /\ asked' \subseteq Doc /\ toClient' \in Seq(Message) /\ AllAlike(toClient', tail)
  <2>1. /\ queue \in Seq(Batch) /\ view \in View
        /\ listening \in BOOLEAN /\ waiting \in BOOLEAN /\ asked \subseteq Doc
    BY Typed
  <2>2. EmitNewSnapshots(updates, cache', queue, remoteKeys', TRUE, tail)
    BY <1>1
  <2> HIDE DEF m, updates, tail
  <2> QED BY <1>2, <1>4, <1>6, <2>1, <2>2, EmitType
<1>9. Past(toClient)'
  <2> HIDE DEF m, updates, tail
  <2> QED BY <1>1, <1>2, <1>8, PastKept
<1>10. Entry' = Entry
  BY <1>1, EntriesUnchanged
<1>11. /\ online' = "Online" /\ timer' = FALSE /\ failed' = FALSE /\ assertFailed' \in BOOLEAN
       /\ snapshot' \in 0 .. Len(log)
  BY <1>1, <1>3 DEF IsOnline, HardAssert
<1>12. TypeOK' /\ Len(acks') <= Len(queue')
  <2> HIDE DEF m, updates, tail
  <2> QED BY <1>1, <1>5, <1>7, <1>8, <1>10, <1>11 DEF TypeInv, TypeOK, counters
<1> QED BY <1>9, <1>12 DEF TypeInv

\* The other messages.
LEMMA MessagesTyped ==
    ASSUME TypeInv, TargetAdded \/ TargetRefused
    PROVE  TypeInv'
<1>1. /\ toClient # <<>> /\ toClient' = Tail(toClient)
      /\ UNCHANGED <<log, disk, assertFailed, acks, stream, counters>>
      /\ IsOnline
  BY DEF TargetAdded, TargetRefused, Reading
<1>2. Tail(toClient) \in Seq(Message) /\ Past(Tail(toClient))
  BY <1>1, Typed, PastOfTail DEF TypeInv
<1>3. Past(toClient)'
  BY <1>1, <1>2 DEF Past
<1>4. Entry' = Entry
  BY <1>1, EntriesUnchanged
<1>5. /\ view' \in View /\ waiting' \in BOOLEAN /\ listening' \in BOOLEAN
      /\ target' \in {"none", "asked", "refused", "added", "current"}
      /\ sent' \in 0 .. Len(log) /\ asked' \subseteq Doc
  <2>1. CASE TargetAdded
    BY <2>1 DEF TargetAdded, TypeInv, TypeOK, shown
  <2>2. CASE TargetRefused
    <3>1. 0 \in 0 .. Len(log)
      BY Typed
    <3> QED BY <2>2, <3>1, NewViewType DEF TargetRefused
  <2> QED BY <2>1, <2>2
<1>6. TypeOK' /\ Len(acks') <= Len(queue')
  BY <1>1, <1>2, <1>4, <1>5 DEF TypeInv, TypeOK, disk, counters, IsOnline
<1> QED BY <1>3, <1>6 DEF TypeInv

\* A value that a document has was written at some version.
LEMMA WrittenVersion ==
    ASSUME log \in Seq(Batch), NEW v \in 0 .. Len(log), NEW d, At(v, d) # Absent
    PROVE  VersionOf(v, d) \in 1 .. Len(log)
<1>1. VersionOf(v, d) \in 0 .. Len(log)
  BY VersionType
<1>2. VersionOf(v, d) # 0
  BY DEF At
<1> QED BY <1>1, <1>2

\* The writes that reach the backend.
LEMMA LogTyped ==
    ASSUME TypeInv, ServerCommits \/ RemoteWrite
    PROVE  TypeInv'
<1>1. LogStep
  <2>1. CASE ServerCommits
    <3>1. Len(acks) + 1 \in DOMAIN queue
      <4>1. Len(acks) < Len(queue) /\ Len(acks) \in Nat /\ Len(queue) \in Nat
            /\ queue \in Seq(Batch)
        BY <2>1, Typed DEF ServerCommits
      <4> QED BY <4>1
    <3>2. queue[Len(acks) + 1] \in Batch
      BY <3>1, Typed
    <3> QED BY <2>1, <3>2 DEF ServerCommits, LogStep
  <2>2. CASE RemoteWrite
    BY <2>2 DEF RemoteWrite, LogStep
  <2> QED BY <2>1, <2>2
<1>2. /\ log' \in Seq(Batch) /\ Entry \subseteq Entry'
      /\ 0 .. Len(log) \subseteq 0 .. Len(log') /\ 1 .. Len(log) \subseteq 1 .. Len(log')
      /\ Len(log) \in Nat /\ Len(log') \in Nat /\ Len(log) <= Len(log')
  BY <1>1, TypesGrow, Typed
<1>3. acks' \in Seq(1 .. Len(log')) /\ Len(acks') <= Len(queue') /\ queue' = queue
  <2>1. acks \in Seq(1 .. Len(log'))
    BY <1>2, Typed
  <2>2. CASE RemoteWrite
    BY <2>1, <2>2 DEF RemoteWrite, TypeInv, disk
  <2>3. CASE ServerCommits
    <3> DEFINE b == queue[Len(acks) + 1]
    <3>1. /\ Len(acks) < Len(queue) /\ UNCHANGED disk
          /\ \/ /\ At(Len(log), b.doc) # Absent
                /\ acks' = Append(acks, VersionOf(Len(log), b.doc))
             \/ acks' = Append(acks, Len(log) + 1) /\ log' = Append(log, b)
      BY <2>3 DEF ServerCommits
    <3> HIDE DEF b
    <3>2. \E v \in 1 .. Len(log') : acks' = Append(acks, v)
      <4>1. CASE /\ At(Len(log), b.doc) # Absent
                 /\ acks' = Append(acks, VersionOf(Len(log), b.doc))
        <5>1. Len(log) \in 0 .. Len(log) /\ log \in Seq(Batch)
          BY <1>2, Typed
        <5>2. VersionOf(Len(log), b.doc) \in 1 .. Len(log)
          BY <4>1, <5>1, WrittenVersion
        <5> QED BY <1>2, <4>1, <5>2
      <4>2. CASE acks' = Append(acks, Len(log) + 1) /\ log' = Append(log, b)
        <5>1. Len(log') = Len(log) + 1
          BY <4>2, Typed
        <5>2. Len(log) + 1 \in 1 .. Len(log')
          BY <1>2, <5>1
        <5> QED BY <4>2, <5>2
      <4> QED BY <3>1, <4>1, <4>2
    <3>3. PICK v \in 1 .. Len(log') : acks' = Append(acks, v)
      BY <3>2
    <3>4. acks' \in Seq(1 .. Len(log')) /\ Len(acks') = Len(acks) + 1
      BY <2>1, <3>3, AppendProperties
    <3>5. Len(acks') <= Len(queue)
      BY <3>1, <3>4, Typed
    <3> QED BY <3>1, <3>4, <3>5 DEF disk
  <2> QED BY <2>2, <2>3
<1>4. /\ UNCHANGED <<disk, shown, tracker, assertFailed, watch, faults>>
      /\ writes' \in 0 .. MaxWrites
  BY WritesType DEF ServerCommits, RemoteWrite, counters, TypeInv, TypeOK
<1>5. Past(toClient)'
  <2> SUFFICES ASSUME NEW i \in 1 .. Len(toClient), toClient[i].type = "snapshot"
               PROVE  toClient[i].version <= Len(log')
    BY <1>4 DEF Past, watch
  <2>1. toClient[i].version <= Len(log)
    BY DEF TypeInv, Past
  <2>2. toClient[i].version \in Nat
    BY Typed, MessageFields
  <2> QED BY <1>2, <2>1, <2>2
<1>6. cache' \in [Doc -> Entry']
  <2>1. cache \in [Doc -> Entry] /\ cache' = cache
    BY <1>4 DEF TypeInv, TypeOK, disk
  <2> QED BY <1>2, <2>1
<1>7. snapshot' \in 0 .. Len(log') /\ sent' \in 0 .. Len(log')
  BY <1>2, <1>4, Typed DEF disk, watch
<1>8. TypeOK'
  BY <1>2, <1>3, <1>4, <1>6, <1>7 DEF TypeInv, TypeOK, disk, shown, tracker, watch
<1> QED BY <1>3, <1>5, <1>8 DEF TypeInv

\* What the backend says.
LEMMA ServerTyped ==
    ASSUME TypeInv, ServerAdds \/ ServerRefuses \/ ServerSnapshot
    PROVE  TypeInv'
<1>1. /\ UNCHANGED <<log, disk, shown, tracker, assertFailed, acks, stream, writes>>
      /\ faults' \in 0 .. MaxFaults
      /\ target' \in {"none", "asked", "refused", "added", "current"}
  <2>1. CASE ServerSnapshot
    <3>1. faults' = faults \/ Failing
      BY <2>1 DEF ServerSnapshot
    <3>2. faults' \in 0 .. MaxFaults
      BY <3>1, FaultsType DEF TypeInv, TypeOK
    <3> QED BY <2>1, <3>2 DEF ServerSnapshot
  <2>2. CASE ServerAdds \/ ServerRefuses
    BY <2>2, FaultsType DEF ServerAdds, ServerRefuses, counters, TypeInv, TypeOK
  <2> QED BY <2>1, <2>2
<1>2. Entry' = Entry
  BY <1>1, EntriesUnchanged
<1>3. sent' \in 0 .. Len(log) /\ asked' \subseteq Doc
  BY Typed DEF ServerAdds, ServerRefuses, ServerSnapshot
<1>4. \E m \in Message : /\ toClient' = Append(toClient, m)
                         /\ m.type = "snapshot" => m.version <= Len(log)
  <2>1. CASE ServerAdds
    <3>1. [type |-> "added"] \in Message
      BY DEF Message
    <3> QED BY <2>1, <3>1 DEF ServerAdds, Tell
  <2>2. CASE ServerRefuses
    <3>1. [type |-> "refused"] \in Message
      BY DEF Message
    <3> QED BY <2>2, <3>1 DEF ServerRefuses, Tell
  <2>3. CASE ServerSnapshot
    <3>1. PICK reset \in BOOLEAN :
            toClient' = Append(toClient,
                [type |-> "snapshot", version |-> Len(log), reset |-> reset, limbo |-> asked,
                 docs |-> IF reset THEN Present(Len(log), Doc) ELSE Changed(sent, Len(log))])
      BY <2>3 DEF ServerSnapshot, Tell
    <3> DEFINE docs == IF reset THEN Present(Len(log), Doc) ELSE Changed(sent, Len(log))
               m == [type |-> "snapshot", version |-> Len(log), reset |-> reset,
                     limbo |-> asked, docs |-> docs]
    <3>2. docs \subseteq Doc
      BY DEF Present, Changed
    <3> HIDE DEF docs
    <3>3. m \in Message /\ m.version <= Len(log)
      BY <3>2, Typed DEF Message
    <3>4. toClient' = Append(toClient, m)
      BY <3>1 DEF docs
    <3> HIDE DEF m
    <3> QED BY <3>3, <3>4
  <2> QED BY <2>1, <2>2, <2>3
<1>5. toClient' \in Seq(Message) /\ Past(toClient)'
  <2>1. PICK m \in Message : /\ toClient' = Append(toClient, m)
                             /\ m.type = "snapshot" => m.version <= Len(log)
    BY <1>4
  <2>2. Append(toClient, m) \in Seq(Message) /\ Past(Append(toClient, m))
    BY <2>1, Typed, PastOfAppend DEF TypeInv
  <2> QED BY <1>1, <2>1, <2>2 DEF Past
<1>6. TypeOK' /\ Len(acks') <= Len(queue')
  BY <1>1, <1>2, <1>3, <1>5 DEF TypeInv, TypeOK, disk, shown, tracker
<1> QED BY <1>5, <1>6 DEF TypeInv

LEMMA NextTyped == TypeInv /\ [Next]_vars => TypeInv'
<1> SUFFICES ASSUME TypeInv, [Next]_vars
             PROVE  TypeInv'
  OBVIOUS
<1>1. CASE UNCHANGED vars
  <2>1. Entry' = Entry
    BY <1>1, EntriesUnchanged DEF vars
  <2> QED BY <1>1, <2>1 DEF vars, disk, shown, tracker, watch, counters, TypeInv, TypeOK, Past
<1> QED BY <1>1, WriteMutationsTyped, WriteAcknowledgedTyped, WriteRejectedTyped, StreamsTyped,
           DisconnectionsTyped, RaiseWatchSnapshotTyped, MessagesTyped, LogTyped, ServerTyped
        DEF Next, Worker, Backend

\* Every variable of QueryListen keeps its type.
THEOREM TypeCorrect == Spec => []TypeOK
<1>1. TypeInv => TypeOK
  BY DEF TypeInv
<1> QED BY InitTyped, NextTyped, <1>1, PTL DEF Spec

-----------------------------------------------------------------------------
(* The online state.                                                       *)

\* The timer runs only while nothing is known of the backend, a failure counts
\* only until the backend is reached, and a stopped stream has no timer.
TrackerInv ==
    /\ timer => online = "Unknown"
    /\ online = "Online" => ~failed
    /\ failed => ~timer
    /\ stream = "stopped" => ~timer

\* The assertion of the stream's messages is the chain's, below.
SnapshotsAscend == Reading("snapshot") => Head(toClient).version >= snapshot

LEMMA InitTracker == Init => TrackerInv
BY DEF Init, TrackerInv

LEMMA NextTracker ==
    ASSUME TypeInv, TrackerInv, [Next]_vars
    PROVE  TrackerInv'
<1>0. timer \in BOOLEAN /\ failed \in BOOLEAN
  BY DEF TypeInv, TypeOK
<1>1. CASE UNCHANGED <<tracker, stream>>
  BY <1>1 DEF TrackerInv, tracker
<1>2. CASE /\ online' = "Online" /\ timer' = FALSE /\ failed' = FALSE
  BY <1>2 DEF TrackerInv
<1>3. CASE AddQueryListener
  <2>1. CASE UNCHANGED <<tracker, stream>>
    BY <1>1, <2>1
  <2>2. CASE ~UNCHANGED <<tracker, stream>>
    <3>1. /\ stream' = "connecting" /\ TrackStart(online, timer, failed) /\ failed' = failed
      BY <1>3, <2>2 DEF AddQueryListener, tracker, watch
    <3>2. CASE failed
      BY <3>1, <3>2 DEF TrackStart, TrackerInv
    <3>3. CASE ~failed
      BY <3>1, <3>3 DEF TrackStart, TrackerInv
    <3> QED BY <3>2, <3>3
  <2> QED BY <2>1, <2>2
<1>4. CASE TimerFires
  <2>1. timer' = FALSE /\ online' = "Offline" /\ failed' = failed /\ timer = TRUE
    BY <1>0, <1>4 DEF TimerFires
  <2> QED BY <2>1 DEF TrackerInv
<1>5. CASE WatchStreamOpens
  BY <1>5 DEF WatchStreamOpens, TrackerInv, tracker
<1>6. CASE WatchStreamFails
  <2>1. CASE ~listening
    BY <1>6, <2>1 DEF WatchStreamFails, TrackerInv
  <2>2. CASE listening /\ online = "Online"
    BY <1>6, <2>2 DEF WatchStreamFails, TrackerInv
  <2>3. CASE listening /\ online # "Online"
    BY <1>6, <2>3 DEF WatchStreamFails, TrackerInv, TimerCleared
  <2> QED BY <2>1, <2>2, <2>3 DEF TypeInv, TypeOK
<1>7. CASE RestartNetwork
  BY <1>7 DEF RestartNetwork, TrackStart, TrackerInv
<1>8. CASE Relaunch
  BY <1>8 DEF Relaunch, TrackerInv
<1>9. CASE TargetAdded \/ TargetRefused \/ RaiseWatchSnapshot
  <2>1. IsOnline
    BY <1>9 DEF TargetAdded, TargetRefused, RaiseWatchSnapshot
  <2> QED BY <1>2, <2>1 DEF IsOnline
<1>10. CASE WriteMutations \/ WriteAcknowledged \/ WriteRejected \/ WriteStreamFails
  <2>1. UNCHANGED <<tracker, stream>>
    BY <1>10 DEF WriteMutations, WriteAcknowledged, WriteRejected, WriteStreamFails, watch
  <2> QED BY <1>1, <2>1
<1>11. CASE ServerCommits \/ ServerAdds \/ ServerRefuses \/ ServerSnapshot \/ RemoteWrite
  <2>1. UNCHANGED <<tracker, stream>>
    BY <1>11 DEF ServerCommits, ServerAdds, ServerRefuses, ServerSnapshot, RemoteWrite, watch
  <2> QED BY <1>1, <2>1
<1>12. CASE UNCHANGED vars
  BY <1>1, <1>12 DEF vars, watch
<1> QED BY <1>3, <1>4, <1>5, <1>6, <1>7, <1>8, <1>9, <1>10, <1>11, <1>12
        DEF Next, Worker, Backend

\* While no assertion has failed and snapshots ascend, none fails.
LEMMA AssertNext ==
    ASSUME TypeInv, TrackerInv, SnapshotsAscend, ~assertFailed, [Next]_vars
    PROVE  ~assertFailed'
<1>0. timer \in BOOLEAN /\ failed \in BOOLEAN
  BY DEF TypeInv, TypeOK
<1>1. CASE AddQueryListener
  <2>1. CASE UNCHANGED assertFailed
    BY <2>1
  <2>2. CASE ~UNCHANGED assertFailed
    <3>1. stream = "stopped" /\ TrackStart(online, timer, failed)
      BY <1>1, <2>2 DEF AddQueryListener
    <3>2. ~timer
      BY <3>1 DEF TrackerInv
    <3> QED BY <3>1, <3>2 DEF TrackStart, HardAssert
  <2> QED BY <2>1, <2>2
<1>2. CASE TimerFires
  BY <1>2 DEF TimerFires, HardAssert, TrackerInv
<1>3. CASE WatchStreamFails
  <2>1. CASE UNCHANGED assertFailed
    BY <2>1
  <2>2. CASE ~UNCHANGED assertFailed
    <3>1. online = "Online" /\ HardAssert(~failed /\ ~timer)
      BY <1>3, <2>2 DEF WatchStreamFails
    <3>2. ~failed /\ ~timer
      BY <3>1 DEF TrackerInv
    <3> QED BY <3>1, <3>2 DEF HardAssert
  <2> QED BY <2>1, <2>2
<1>4. CASE RestartNetwork
  BY <1>4 DEF RestartNetwork, TrackStart, HardAssert
<1>5. CASE RaiseWatchSnapshot
  <2>1. HardAssert(Head(toClient).version >= snapshot) /\ Reading("snapshot")
    BY <1>5 DEF RaiseWatchSnapshot
  <2> QED BY <2>1 DEF HardAssert, SnapshotsAscend
<1>6. CASE \/ WriteMutations \/ WriteAcknowledged \/ WriteRejected \/ WriteStreamFails
           \/ WatchStreamOpens \/ TargetAdded \/ TargetRefused \/ Relaunch
  BY <1>6 DEF WriteMutations, WriteAcknowledged, WriteRejected, WriteStreamFails,
              WatchStreamOpens, TargetAdded, TargetRefused, Relaunch
<1>7. CASE ServerCommits \/ ServerAdds \/ ServerRefuses \/ ServerSnapshot \/ RemoteWrite
  BY <1>7 DEF ServerCommits, ServerAdds, ServerRefuses, ServerSnapshot, RemoteWrite
<1>8. CASE UNCHANGED vars
  BY <1>8 DEF vars
<1> QED BY <1>1, <1>2, <1>3, <1>4, <1>5, <1>6, <1>7, <1>8 DEF Next, Worker, Backend

-----------------------------------------------------------------------------
(* The watch stream.                                                       *)

\* A message takes the target from one version to another.
Follows(m, from, to) ==
    /\ from <= to
    /\ IF m.type = "snapshot"
       THEN /\ to = m.version
            /\ m.docs = IF m.reset THEN Present(to, Doc) ELSE Changed(from, to)
       ELSE to = from

\* f has the version that the target has before each message, and after all.
Chained(f, ms, from, to) ==
    /\ f[1] = from /\ f[Len(ms) + 1] = to
    /\ \A i \in 1 .. Len(ms) : Follows(ms[i], f[i], f[i + 1])

Leads(ms, from, to) ==
    \E f \in [1 .. Len(ms) + 1 -> 0 .. Len(log)] : Chained(f, ms, from, to)

\* The messages lead from the snapshot that the client has to what the backend
\* has sent, one after the other.
ChainInv == target # "none" => Leads(toClient, snapshot, sent)

\* Nothing is said on a stream that is not open, or to nobody; and a refusal
\* is the last that is said of a target.
RefusalIsLast(ms) ==
    \A i \in 1 .. Len(ms) : ms[i].type = "refused" => target = "refused" /\ i = Len(ms)

TargetInv ==
    /\ stream # "open" \/ ~listening => target = "none"
    /\ target = "none" => toClient = <<>>
    /\ RefusalIsLast(toClient)

LEMMA LeadsNowhere ==
    ASSUME Len(log) \in Nat, NEW a \in 0 .. Len(log)
    PROVE  Leads(<<>>, a, a)
<1> DEFINE f == [i \in 1 .. 1 |-> a]
<1>1. f \in [1 .. Len(<<>>) + 1 -> 0 .. Len(log)] /\ f[1] = a /\ f[Len(<<>>) + 1] = a
  OBVIOUS
<1>2. Chained(f, <<>>, a, a)
  BY <1>1 DEF Chained
<1> HIDE DEF f
<1> QED BY <1>1, <1>2 DEF Leads

LEMMA LeadsAlike ==
    ASSUME NEW ms, NEW ns, AllAlike(ns, ms), NEW a, NEW b, Leads(ms, a, b)
    PROVE  Leads(ns, a, b)
<1>1. PICK f \in [1 .. Len(ms) + 1 -> 0 .. Len(log)] : Chained(f, ms, a, b)
  BY DEF Leads
<1>2. Len(ns) = Len(ms) /\ \A i \in 1 .. Len(ms) : Alike(ns[i], ms[i])
  BY DEF AllAlike
<1>3. \A i \in 1 .. Len(ms) : Follows(ns[i], f[i], f[i + 1])
  BY <1>1, <1>2 DEF Chained, Follows, Alike
<1>4. Chained(f, ns, a, b)
  BY <1>1, <1>2, <1>3 DEF Chained
<1> QED BY <1>2, <1>4 DEF Leads

LEMMA LeadsTail ==
    ASSUME NEW T, NEW ms \in Seq(T), ms # <<>>, NEW a, NEW b, Leads(ms, a, b),
           Len(log) \in Nat
    PROVE  \E c \in 0 .. Len(log) : Follows(Head(ms), a, c) /\ Leads(Tail(ms), c, b)
<1> DEFINE t == Tail(ms)
<1>1. /\ Len(ms) \in Nat \ {0} /\ Len(t) = Len(ms) - 1
      /\ \A i \in 1 .. Len(ms) - 1 : t[i] = ms[i + 1]
      /\ Head(ms) = ms[1]
  BY TailElements
<1> HIDE DEF t
<1>2. PICK f \in [1 .. Len(ms) + 1 -> 0 .. Len(log)] : Chained(f, ms, a, b)
  BY DEF Leads
<1> DEFINE g == [i \in 1 .. Len(ms) |-> f[i + 1]]
<1>3. g \in [1 .. Len(t) + 1 -> 0 .. Len(log)]
  BY <1>1
<1>4. g[1] = f[2] /\ g[Len(t) + 1] = b /\ f[2] \in 0 .. Len(log)
  BY <1>1, <1>2 DEF Chained
<1>5. ASSUME NEW i \in 1 .. Len(t) PROVE Follows(t[i], g[i], g[i + 1])
  <2>1. t[i] = ms[i + 1] /\ g[i] = f[i + 1] /\ g[i + 1] = f[(i + 1) + 1]
        /\ i + 1 \in 1 .. Len(ms)
    BY <1>1
  <2>2. Follows(ms[i + 1], f[i + 1], f[(i + 1) + 1])
    BY <1>2, <2>1 DEF Chained
  <2> QED BY <2>1, <2>2
<1>6. Follows(ms[1], a, f[2])
  <2>1. 1 \in 1 .. Len(ms) /\ 1 + 1 = 2
    BY <1>1
  <2> QED BY <1>2, <2>1 DEF Chained
<1> HIDE DEF g
<1>7. Chained(g, t, f[2], b)
  BY <1>4, <1>5 DEF Chained
<1>8. Leads(t, f[2], b)
  BY <1>3, <1>7 DEF Leads
<1> QED BY <1>1, <1>4, <1>6, <1>8 DEF t

LEMMA LeadsAppend ==
    ASSUME NEW T, NEW ms \in Seq(T), NEW m \in T, NEW a, NEW b, Leads(ms, a, b),
           NEW c \in 0 .. Len(log), Follows(m, b, c), Len(log) \in Nat
    PROVE  Leads(Append(ms, m), a, c)
<1> DEFINE s == Append(ms, m)
           n == Len(ms)
<1>1. /\ n \in Nat /\ Len(s) = n + 1
      /\ \A i \in 1 .. n : s[i] = ms[i]
      /\ s[n + 1] = m
  BY AppendProperties
<1>2. PICK f \in [1 .. n + 1 -> 0 .. Len(log)] : Chained(f, ms, a, b)
  BY DEF Leads
<1> HIDE DEF s, n
<1> DEFINE g == [i \in 1 .. n + 2 |-> IF i = n + 2 THEN c ELSE f[i]]
<1>3. g \in [1 .. Len(s) + 1 -> 0 .. Len(log)]
  BY <1>1
<1>4. g[1] = a /\ g[Len(s) + 1] = c
  BY <1>1, <1>2 DEF Chained, n
<1>5. ASSUME NEW i \in 1 .. Len(s) PROVE Follows(s[i], g[i], g[i + 1])
  <2>1. CASE i \in 1 .. n
    <3>1. s[i] = ms[i] /\ g[i] = f[i] /\ g[i + 1] = f[i + 1]
      BY <1>1, <2>1
    <3>2. Follows(ms[i], f[i], f[i + 1])
      BY <1>2, <2>1 DEF Chained, n
    <3> QED BY <3>1, <3>2
  <2>2. CASE i = n + 1
    <3>1. s[i] = m /\ g[i] = f[n + 1] /\ g[i + 1] = c
      BY <1>1, <2>2
    <3>2. f[n + 1] = b
      BY <1>2 DEF Chained, n
    <3> QED BY <3>1, <3>2
  <2> QED BY <1>1, <2>1, <2>2
<1> HIDE DEF g
<1>6. Chained(g, s, a, c)
  BY <1>4, <1>5 DEF Chained
<1>7. Leads(s, a, c)
  BY <1>3, <1>6 DEF Leads
<1> QED BY <1>7 DEF s

\* What the backend writes later changes no message.
LEMMA FollowsKept ==
    ASSUME log \in Seq(Batch), LogStep, NEW a \in 0 .. Len(log), NEW b \in 0 .. Len(log), NEW m,
           Follows(m, a, b)
    PROVE  Follows(m, a, b)'
<1>1. \A v \in 0 .. Len(log) : \A d :
        /\ VersionOf(v, d)' = VersionOf(v, d)
        /\ At(v, d)' = At(v, d)
  BY KeptByLog, OfThisLog, OfNextLog
<1>2. Present(b, Doc)' = Present(b, Doc)
  BY <1>1 DEF Present
<1>3. Changed(a, b)' = Changed(a, b)
  BY <1>1 DEF Changed
<1> QED BY <1>2, <1>3 DEF Follows

LEMMA LeadsKept ==
    ASSUME log \in Seq(Batch), LogStep, NEW ms, Len(ms) \in Nat, NEW a, NEW b, Leads(ms, a, b)
    PROVE  Leads(ms, a, b)'
<1>1. PICK f \in [1 .. Len(ms) + 1 -> 0 .. Len(log)] : Chained(f, ms, a, b)
  BY DEF Leads
<1>2. 0 .. Len(log) \subseteq 0 .. Len(log')
  BY KeptByLog
<1>3. f \in [1 .. Len(ms) + 1 -> 0 .. Len(log')]
  BY <1>2
<1>4. ASSUME NEW i \in 1 .. Len(ms) PROVE Follows(ms[i], f[i], f[i + 1])'
  <2>1. f[i] \in 0 .. Len(log) /\ f[i + 1] \in 0 .. Len(log)
    OBVIOUS
  <2>2. Follows(ms[i], f[i], f[i + 1])
    BY <1>1 DEF Chained
  <2> QED BY <2>1, <2>2, FollowsKept
<1>5. Chained(f, ms, a, b)'
  BY <1>1, <1>4 DEF Chained
<1> QED BY <1>3, <1>5 DEF Leads

\* The snapshot that the backend sends.
LEMMA SnapshotSent ==
    ASSUME TypeInv, ServerSnapshot
    PROVE  \E m \in Message :
               /\ toClient' = Append(toClient, m)
               /\ m.type = "snapshot" /\ m.version = Len(log)
               /\ m.docs = IF m.reset THEN Present(Len(log), Doc) ELSE Changed(sent, Len(log))
               /\ sent' = Len(log)
<1>1. PICK reset \in BOOLEAN :
          toClient' = Append(toClient,
              [type |-> "snapshot", version |-> Len(log), reset |-> reset, limbo |-> asked,
               docs |-> IF reset THEN Present(Len(log), Doc) ELSE Changed(sent, Len(log))])
  BY DEF ServerSnapshot, Tell
<1> DEFINE docs == IF reset THEN Present(Len(log), Doc) ELSE Changed(sent, Len(log))
           m == [type |-> "snapshot", version |-> Len(log), reset |-> reset,
                 limbo |-> asked, docs |-> docs]
<1>2. docs \subseteq Doc
  BY DEF Present, Changed
<1>3. toClient' = Append(toClient, m) /\ sent' = Len(log)
  BY <1>1 DEF ServerSnapshot
<1>4. m.docs = IF m.reset THEN Present(Len(log), Doc) ELSE Changed(sent, Len(log))
  OBVIOUS
<1> HIDE DEF docs
<1>5. m \in Message /\ m.type = "snapshot" /\ m.version = Len(log)
  BY <1>2, Typed DEF Message
<1> HIDE DEF m
<1> QED BY <1>3, <1>4, <1>5

\* A step that changes the view leaves the messages but for limbo answers.
LEMMA EmitMessages ==
    ASSUME NEW changes, NEW c, NEW q, NEW keys, NEW current, NEW ms \in Seq(Message),
           EmitNewSnapshots(changes, c, q, keys, current, ms)
    PROVE  AllAlike(toClient', ms) /\ listening' = listening /\ (ms = <<>> => toClient' = <<>>)
<1> DEFINE v == ApplyChanges(changes, c, q, keys, current)
<1>1. AllAlike(ms, ms)
  BY DEF AllAlike, Alike
<1>2. toClient' = ms \/ toClient' = Forgotten(ms, view.limbo \ v.limbo)
  BY DEF EmitNewSnapshots, TrackLimbo
<1>3. listening' = listening
  BY DEF EmitNewSnapshots, shown
<1> HIDE DEF v
<1> DEFINE f == Forgotten(ms, view.limbo \ v.limbo)
<1>4. f \in Seq(Message) /\ AllAlike(f, ms) /\ Len(f) = Len(ms)
  BY ForgottenType DEF AllAlike
<1>5. ms = <<>> => f = <<>>
  <2> HIDE DEF f
  <2>1. ms = <<>> => Len(ms) = 0
    OBVIOUS
  <2>2. Len(f) = 0 => f = <<>>
    BY <1>4
  <2> QED BY <1>4, <2>1, <2>2
<1> QED BY <1>1, <1>2, <1>3, <1>4, <1>5

\* The steps of the writes leave the watch stream as it is.
WriteStep == WriteMutations \/ WriteAcknowledged \/ WriteRejected

LEMMA WriteStepWatch ==
    ASSUME TypeInv, WriteStep
    PROVE  /\ AllAlike(toClient', toClient) /\ (toClient = <<>> => toClient' = <<>>)
           /\ UNCHANGED <<log, remoteKeys, snapshot, listening, stream, target, sent>>
<1>0. toClient \in Seq(Message)
  BY Typed
<1>1. CASE WriteMutations
  <2>1. PICK b \in Batch :
            EmitNewSnapshots({b.doc}, cache, queue', remoteKeys, view.current, toClient)
    BY <1>1 DEF WriteMutations
  <2>2. /\ AllAlike(toClient', toClient) /\ listening' = listening
        /\ (toClient = <<>> => toClient' = <<>>)
    BY <1>0, <2>1, EmitMessages
  <2>3. UNCHANGED <<log, remoteKeys, snapshot, stream, target, sent>>
    BY <1>1 DEF WriteMutations
  <2> QED BY <2>2, <2>3
<1>2. CASE WriteAcknowledged
  <2> DEFINE ch == {Head(queue).doc}
  <2>1. EmitNewSnapshots(ch, cache', queue', remoteKeys, view.current, toClient)
    BY <1>2 DEF WriteAcknowledged
  <2> HIDE DEF ch
  <2>2. /\ AllAlike(toClient', toClient) /\ listening' = listening
        /\ (toClient = <<>> => toClient' = <<>>)
    BY <1>0, <2>1, EmitMessages
  <2>3. UNCHANGED <<log, remoteKeys, snapshot, stream, target, sent>>
    BY <1>2 DEF WriteAcknowledged
  <2> QED BY <2>2, <2>3
<1>3. CASE WriteRejected
  <2> DEFINE ch == {Head(queue).doc}
  <2>1. EmitNewSnapshots(ch, cache, queue', remoteKeys, view.current, toClient)
    BY <1>3 DEF WriteRejected
  <2> HIDE DEF ch
  <2>2. /\ AllAlike(toClient', toClient) /\ listening' = listening
        /\ (toClient = <<>> => toClient' = <<>>)
    BY <1>0, <2>1, EmitMessages
  <2>3. UNCHANGED <<log, remoteKeys, snapshot, stream, target, sent>>
    BY <1>3 DEF WriteRejected
  <2> QED BY <2>2, <2>3
<1> QED BY <1>1, <1>2, <1>3 DEF WriteStep

LEMMA SnapshotStepWatch ==
    ASSUME TypeInv, RaiseWatchSnapshot
    PROVE  /\ AllAlike(toClient', Tail(toClient)) /\ (Tail(toClient) = <<>> => toClient' = <<>>)
           /\ toClient # <<>> /\ Tail(toClient) \in Seq(Message)
           /\ Head(toClient).type = "snapshot" /\ snapshot' = Head(toClient).version
           /\ UNCHANGED <<log, queue, acks, listening, stream, target, sent>>
<1> DEFINE m == Head(toClient)
           updates == {d \in m.docs \cup m.limbo : IsUpdate(cache[d], Told(m.version, d))}
           tail == Tail(toClient)
<1>1. /\ toClient # <<>> /\ m.type = "snapshot" /\ snapshot' = m.version
      /\ EmitNewSnapshots(updates, cache', queue, remoteKeys', TRUE, tail)
      /\ UNCHANGED <<log, queue, acks, stream, target, sent>>
  BY DEF RaiseWatchSnapshot, Reading
<1>2. tail \in Seq(Message)
  BY <1>1, Typed, TailElements
<1>3. /\ AllAlike(toClient', tail) /\ listening' = listening
      /\ (tail = <<>> => toClient' = <<>>)
  <2>1. EmitNewSnapshots(updates, cache', queue, remoteKeys', TRUE, tail)
    BY <1>1
  <2> HIDE DEF m, updates, tail
  <2> QED BY <1>2, <2>1, EmitMessages
<1> QED BY <1>1, <1>2, <1>3

\* A message is read.
LEMMA RefusalOfTail ==
    ASSUME toClient \in Seq(Message), toClient # <<>>, RefusalIsLast(toClient)
    PROVE  /\ RefusalIsLast(Tail(toClient))
           /\ Head(toClient).type = "refused" => Tail(toClient) = <<>>
<1> DEFINE t == Tail(toClient)
<1>1. /\ Len(toClient) \in Nat \ {0} /\ Len(t) = Len(toClient) - 1 /\ t \in Seq(Message)
      /\ \A i \in 1 .. Len(toClient) - 1 : t[i] = toClient[i + 1]
      /\ Head(toClient) = toClient[1]
  BY TailElements
<1> HIDE DEF t
<1>2. RefusalIsLast(t)
  <2> SUFFICES ASSUME NEW i \in 1 .. Len(t), t[i].type = "refused"
               PROVE  target = "refused" /\ i = Len(t)
    BY DEF RefusalIsLast
  <2>1. t[i] = toClient[i + 1] /\ i + 1 \in 1 .. Len(toClient)
    BY <1>1
  <2>2. target = "refused" /\ i + 1 = Len(toClient)
    BY <2>1 DEF RefusalIsLast
  <2> QED BY <1>1, <2>2
<1>3. toClient[1].type = "refused" => t = <<>>
  <2> SUFFICES ASSUME toClient[1].type = "refused"
               PROVE  t = <<>>
    OBVIOUS
  <2>1. 1 \in 1 .. Len(toClient)
    BY <1>1
  <2>2. Len(toClient) = 1
    BY <2>1 DEF RefusalIsLast
  <2> QED BY <1>1, <2>2
<1> QED BY <1>1, <1>2, <1>3 DEF t

LEMMA RefusalAlike ==
    ASSUME NEW ms, RefusalIsLast(ms), AllAlike(toClient', ms), target' = target
    PROVE  RefusalIsLast(toClient)'
BY DEF RefusalIsLast, AllAlike, Alike

\* The backend speaks to a target that it has not refused.
LEMMA RefusalOfAppend ==
    ASSUME toClient \in Seq(Message), target # "refused", RefusalIsLast(toClient),
           NEW m \in Message, toClient' = Append(toClient, m),
           m.type = "refused" => target' = "refused"
    PROVE  RefusalIsLast(toClient)'
<1>1. /\ Len(toClient) \in Nat /\ Len(toClient') = Len(toClient) + 1
      /\ \A i \in 1 .. Len(toClient) : toClient'[i] = toClient[i]
      /\ toClient'[Len(toClient) + 1] = m
  BY AppendProperties
<1> SUFFICES ASSUME NEW i \in 1 .. Len(toClient'), toClient'[i].type = "refused"
             PROVE  target' = "refused" /\ i = Len(toClient')
  BY DEF RefusalIsLast
<1>2. CASE i \in 1 .. Len(toClient)
  BY <1>1, <1>2 DEF RefusalIsLast
<1>3. CASE i = Len(toClient) + 1
  BY <1>1, <1>3
<1> QED BY <1>1, <1>2, <1>3

LEMMA NextTarget ==
    ASSUME TypeInv, TargetInv, [Next]_vars
    PROVE  TargetInv'
<1>0. toClient \in Seq(Message) /\ listening \in BOOLEAN
  BY Typed
<1>1. CASE UNCHANGED <<stream, listening, target, toClient>>
  BY <1>1 DEF TargetInv, RefusalIsLast
<1>2. CASE target' = "none" /\ toClient' = <<>>
  <2>1. Len(<<>>) = 0
    OBVIOUS
  <2> QED BY <1>2, <2>1 DEF TargetInv, RefusalIsLast
<1>3. CASE WriteStep
  <2>1. /\ AllAlike(toClient', toClient) /\ (toClient = <<>> => toClient' = <<>>)
        /\ UNCHANGED <<listening, stream, target>>
    BY <1>3, WriteStepWatch
  <2> QED BY <2>1, RefusalAlike DEF TargetInv
<1>4. CASE AddQueryListener
  <2>1. CASE listening
    BY <1>1, <1>4, <2>1 DEF AddQueryListener, watch
  <2>2. CASE ~listening
    <3>1. target = "none" /\ toClient = <<>> /\ toClient' = <<>> /\ listening' = TRUE
      BY <1>4, <2>2 DEF AddQueryListener, TargetInv
    <3>2. stream' # "open" => target' = target
      BY <1>4, <2>2 DEF AddQueryListener
    <3>3. Len(<<>>) = 0
      OBVIOUS
    <3> QED BY <3>1, <3>2, <3>3 DEF TargetInv, RefusalIsLast
  <2> QED BY <1>0, <2>1, <2>2
<1>5. CASE WatchStreamOpens
  <2>1. target = "none" /\ toClient = <<>> /\ toClient' = <<>> /\ listening' = listening
        /\ stream' = "open" /\ (~listening => target' = "none")
    BY <1>5 DEF WatchStreamOpens, TargetInv, shown
  <2>2. Len(<<>>) = 0
    OBVIOUS
  <2> QED BY <2>1, <2>2 DEF TargetInv, RefusalIsLast
<1>6. CASE WatchStreamFails \/ RestartNetwork \/ Relaunch
  BY <1>2, <1>6 DEF WatchStreamFails, RestartNetwork, Relaunch, Disconnected
<1>7. CASE TargetAdded
  <2>1. /\ toClient # <<>> /\ toClient' = Tail(toClient)
        /\ UNCHANGED <<listening, stream, target>>
    BY <1>7 DEF TargetAdded, Reading, shown
  <2>2. RefusalIsLast(Tail(toClient))
    BY <1>0, <2>1, RefusalOfTail DEF TargetInv
  <2> QED BY <2>1, <2>2 DEF TargetInv, RefusalIsLast
<1>8. CASE TargetRefused
  <2>1. /\ toClient # <<>> /\ Head(toClient).type = "refused"
        /\ toClient' = Tail(toClient) /\ target' = "none"
    BY <1>8 DEF TargetRefused, Reading
  <2>2. toClient' = <<>>
    BY <1>0, <2>1, RefusalOfTail DEF TargetInv
  <2> QED BY <1>2, <2>1, <2>2
<1>9. CASE RaiseWatchSnapshot
  <2>1. /\ AllAlike(toClient', Tail(toClient)) /\ toClient # <<>>
        /\ UNCHANGED <<listening, stream, target>>
    BY <1>9, SnapshotStepWatch
  <2>2. RefusalIsLast(Tail(toClient))
    BY <1>0, <2>1, RefusalOfTail DEF TargetInv
  <2>3. RefusalIsLast(toClient)'
    BY <2>1, <2>2, RefusalAlike
  <2> QED BY <2>1, <2>3 DEF TargetInv
<1>10. CASE ServerAdds \/ ServerRefuses \/ ServerSnapshot
  <2>1. /\ target \in {"asked", "added", "current"} /\ target' # "none"
        /\ UNCHANGED <<listening, stream>>
    BY <1>10 DEF ServerAdds, ServerRefuses, ServerSnapshot, shown
  <2>2. \E m \in Message : /\ toClient' = Append(toClient, m)
                           /\ m.type = "refused" => target' = "refused"
    <3>1. CASE ServerAdds
      <4>1. [type |-> "added"] \in Message
        BY DEF Message
      <4> QED BY <3>1, <4>1 DEF ServerAdds, Tell
    <3>2. CASE ServerRefuses
      <4>1. [type |-> "refused"] \in Message
        BY DEF Message
      <4> QED BY <3>2, <4>1 DEF ServerRefuses, Tell
    <3>3. CASE ServerSnapshot
      BY <3>3, SnapshotSent
    <3> QED BY <1>10, <3>1, <3>2, <3>3
  <2>3. RefusalIsLast(toClient)'
    BY <1>0, <2>1, <2>2, RefusalOfAppend DEF TargetInv
  <2>4. stream = "open" /\ listening
    BY <2>1 DEF TargetInv
  <2> QED BY <2>1, <2>3, <2>4 DEF TargetInv
<1>11. CASE WriteStreamFails \/ TimerFires \/ ServerCommits \/ RemoteWrite \/ UNCHANGED vars
  <2>1. UNCHANGED <<stream, target, toClient>>
    BY <1>11 DEF WriteStreamFails, TimerFires, ServerCommits, RemoteWrite, vars, watch
  <2>2. listening' = listening
    BY <1>11 DEF WriteStreamFails, TimerFires, ServerCommits, RemoteWrite, vars, shown, Broadcast
  <2> QED BY <1>1, <2>1, <2>2
<1> QED BY <1>3, <1>4, <1>5, <1>6, <1>7, <1>8, <1>9, <1>10, <1>11
        DEF Next, Worker, Backend, WriteStep

\* The backend's log, in any step.
LEMMA LogChanges ==
    ASSUME TypeInv, [Next]_vars
    PROVE  UNCHANGED log \/ RemoteWrite \/ ServerCommits
<1>1. WriteStep \/ WatchStreamOpens \/ WatchStreamFails \/ RestartNetwork \/ Relaunch
          => UNCHANGED log
  BY WriteStepWatch DEF WatchStreamOpens, WatchStreamFails, RestartNetwork, Relaunch
<1>2. AddQueryListener \/ TimerFires \/ WriteStreamFails \/ TargetAdded \/ TargetRefused
        \/ RaiseWatchSnapshot => UNCHANGED log
  BY DEF AddQueryListener, TimerFires, WriteStreamFails, TargetAdded, TargetRefused,
         RaiseWatchSnapshot
<1>3. ServerAdds \/ ServerRefuses \/ ServerSnapshot \/ UNCHANGED vars => UNCHANGED log
  BY DEF ServerAdds, ServerRefuses, ServerSnapshot, vars
<1> QED BY <1>1, <1>2, <1>3 DEF Next, Worker, Backend, WriteStep

LEMMA NextLog ==
    ASSUME TypeInv, [Next]_vars
    PROVE  LogStep
<1>1. CASE UNCHANGED log
  BY <1>1 DEF LogStep
<1>2. CASE RemoteWrite
  BY <1>2 DEF RemoteWrite, LogStep
<1>3. CASE ServerCommits
  <2>1. Len(acks) < Len(queue) /\ Len(acks) \in Nat /\ Len(queue) \in Nat
        /\ queue \in Seq(Batch)
    BY <1>3, Typed DEF ServerCommits
  <2>2. queue[Len(acks) + 1] \in Batch
    BY <2>1
  <2> QED BY <1>3, <2>2 DEF ServerCommits, LogStep
<1>4. UNCHANGED log \/ RemoteWrite \/ ServerCommits
  BY LogChanges
<1> QED BY <1>1, <1>2, <1>3, <1>4

LEMMA ChainKept ==
    ASSUME log \in Seq(Batch), LogStep, Len(toClient') \in Nat,
           Leads(toClient', snapshot', sent')
    PROVE  Leads(toClient, snapshot, sent)'
<1> SUFFICES ASSUME NEW ms, ms = toClient', NEW a, a = snapshot', NEW b, b = sent'
             PROVE  Leads(toClient, snapshot, sent)'
  OBVIOUS
<1>1. Leads(ms, a, b)'
  BY LeadsKept
<1>2. PICK f \in [1 .. Len(ms) + 1 -> 0 .. Len(log')] : Chained(f, ms, a, b)'
  BY <1>1, Zenon DEF Leads
<1>3. ASSUME NEW i \in 1 .. Len(ms)
      PROVE  Follows(toClient[i], f[i], f[i + 1])'
  <2>1. Follows(ms[i], f[i], f[i + 1])'
    BY <1>2 DEF Chained
  <2> QED BY <2>1 DEF Follows, Present, Changed, At, VersionOf
<1>4. Chained(f, toClient, snapshot, sent)'
  BY <1>2, <1>3 DEF Chained
<1> QED BY <1>2, <1>4 DEF Leads

\* Where the messages lead after a step, in the log before it.
LEMMA NextLeads ==
    ASSUME TypeInv, TargetInv, ChainInv, [Next]_vars, target' # "none"
    PROVE  Leads(toClient', snapshot', sent')
<1>0. /\ toClient \in Seq(Message) /\ Len(log) \in Nat
      /\ snapshot \in 0 .. Len(log) /\ sent \in 0 .. Len(log)
  BY Typed
<1>1. CASE UNCHANGED <<target, toClient, snapshot, sent>>
  BY <1>1 DEF ChainInv
<1>2. CASE WriteStep
  <2>1. AllAlike(toClient', toClient) /\ UNCHANGED <<snapshot, target, sent>>
    BY <1>2, WriteStepWatch
  <2>2. Leads(toClient, snapshot, sent)
    BY <2>1 DEF ChainInv
  <2> QED BY <2>1, <2>2, LeadsAlike
<1>3. CASE toClient' = <<>> /\ sent' = snapshot /\ snapshot' = snapshot
  <2>1. Leads(<<>>, snapshot, snapshot)
    BY <1>0, LeadsNowhere
  <2> QED BY <1>3, <2>1
<1>4. CASE AddQueryListener
  <2>1. CASE UNCHANGED <<target, sent>>
    BY <1>1, <1>4, <2>1 DEF AddQueryListener, watch, disk
  <2>2. CASE ~UNCHANGED <<target, sent>>
    <3>1. ~listening /\ sent' = snapshot /\ toClient' = toClient /\ snapshot' = snapshot
      BY <1>4, <2>2 DEF AddQueryListener, watch, disk
    <3>2. toClient = <<>>
      BY <3>1 DEF TargetInv
    <3> QED BY <1>3, <3>1, <3>2
  <2> QED BY <2>1, <2>2
<1>5. CASE WatchStreamOpens
  <2>1. stream = "connecting" /\ toClient' = toClient /\ snapshot' = snapshot
    BY <1>5 DEF WatchStreamOpens, disk
  <2>2. toClient = <<>>
    BY <2>1 DEF TargetInv
  <2>3. sent' = snapshot
    BY <1>5 DEF WatchStreamOpens
  <2> QED BY <1>3, <2>1, <2>2, <2>3
<1>6. CASE WatchStreamFails \/ RestartNetwork \/ Relaunch \/ TargetRefused
  BY <1>6 DEF WatchStreamFails, RestartNetwork, Relaunch, TargetRefused, Disconnected
<1>7. CASE TargetAdded
  <2>1. /\ toClient # <<>> /\ Head(toClient).type = "added" /\ toClient' = Tail(toClient)
        /\ UNCHANGED <<target, snapshot, sent>>
    BY <1>7 DEF TargetAdded, Reading, disk
  <2>2. Leads(toClient, snapshot, sent)
    BY <2>1 DEF ChainInv
  <2>3. PICK c \in 0 .. Len(log) :
            Follows(Head(toClient), snapshot, c) /\ Leads(Tail(toClient), c, sent)
    BY <1>0, <2>1, <2>2, LeadsTail
  <2>4. c = snapshot
    BY <2>1, <2>3 DEF Follows
  <2> QED BY <2>1, <2>3, <2>4
<1>8. CASE RaiseWatchSnapshot
  <2>1. /\ AllAlike(toClient', Tail(toClient)) /\ toClient # <<>>
        /\ Head(toClient).type = "snapshot" /\ snapshot' = Head(toClient).version
        /\ UNCHANGED <<target, sent>>
    BY <1>8, SnapshotStepWatch
  <2>2. Leads(toClient, snapshot, sent)
    BY <2>1 DEF ChainInv
  <2>3. PICK c \in 0 .. Len(log) :
            Follows(Head(toClient), snapshot, c) /\ Leads(Tail(toClient), c, sent)
    BY <1>0, <2>1, <2>2, LeadsTail
  <2>4. c = snapshot'
    BY <2>1, <2>3 DEF Follows
  <2>5. Leads(toClient', c, sent)
    BY <2>1, <2>3, LeadsAlike
  <2> QED BY <2>1, <2>4, <2>5
<1>9. CASE ServerAdds \/ ServerRefuses
  <2>1. target # "none" /\ UNCHANGED <<snapshot, sent>>
    BY <1>9 DEF ServerAdds, ServerRefuses, disk
  <2>2. \E m \in Message : toClient' = Append(toClient, m) /\ m.type # "snapshot"
    <3>1. CASE ServerAdds
      <4>1. [type |-> "added"] \in Message
        BY DEF Message
      <4> QED BY <3>1, <4>1 DEF ServerAdds, Tell
    <3>2. CASE ServerRefuses
      <4>1. [type |-> "refused"] \in Message
        BY DEF Message
      <4> QED BY <3>2, <4>1 DEF ServerRefuses, Tell
    <3> QED BY <1>9, <3>1, <3>2
  <2>3. PICK m \in Message : toClient' = Append(toClient, m) /\ m.type # "snapshot"
    BY <2>2
  <2>4. Leads(toClient, snapshot, sent)
    BY <2>1 DEF ChainInv
  <2>5. Follows(m, sent, sent)
    BY <1>0, <2>3 DEF Follows
  <2>6. Leads(Append(toClient, m), snapshot, sent)
    BY <1>0, <2>4, <2>5, LeadsAppend
  <2> QED BY <2>1, <2>3, <2>6
<1>10. CASE ServerSnapshot
  <2>1. target # "none" /\ snapshot' = snapshot
    BY <1>10 DEF ServerSnapshot, disk
  <2>2. PICK m \in Message :
            /\ toClient' = Append(toClient, m)
            /\ m.type = "snapshot" /\ m.version = Len(log)
            /\ m.docs = IF m.reset THEN Present(Len(log), Doc) ELSE Changed(sent, Len(log))
            /\ sent' = Len(log)
    BY <1>10, SnapshotSent
  <2>3. Leads(toClient, snapshot, sent)
    BY <2>1 DEF ChainInv
  <2>4. Follows(m, sent, Len(log)) /\ Len(log) \in 0 .. Len(log)
    BY <1>0, <2>2 DEF Follows
  <2>5. Leads(Append(toClient, m), snapshot, Len(log))
    BY <1>0, <2>3, <2>4, LeadsAppend
  <2> QED BY <2>1, <2>2, <2>5
<1>11. CASE WriteStreamFails \/ TimerFires \/ ServerCommits \/ RemoteWrite \/ UNCHANGED vars
  <2>1. UNCHANGED <<target, toClient, snapshot, sent>>
    BY <1>11 DEF WriteStreamFails, TimerFires, ServerCommits, RemoteWrite, vars, watch, disk
  <2> QED BY <1>1, <2>1
<1> QED BY <1>2, <1>4, <1>5, <1>6, <1>7, <1>8, <1>9, <1>10, <1>11
        DEF Next, Worker, Backend, WriteStep

LEMMA NextChain ==
    ASSUME TypeInv, TargetInv, ChainInv, [Next]_vars
    PROVE  ChainInv'
<1>1. CASE target' = "none"
  BY <1>1 DEF ChainInv
<1>2. CASE target' # "none"
  <2>1. Leads(toClient', snapshot', sent')
    BY <1>2, NextLeads
  <2>2. Len(toClient') \in Nat
    <3>1. TypeInv'
      BY NextTyped
    <3>2. toClient' \in Seq(Message)
      BY <3>1 DEF TypeInv, TypeOK
    <3> QED BY <3>2
  <2>3. Leads(toClient, snapshot, sent)'
    BY <2>1, <2>2, NextLog, ChainKept, Typed
  <2> QED BY <2>3 DEF ChainInv
<1> QED BY <1>1, <1>2

\* What the messages at the head take the client's snapshot to.
LEMMA HeadFollows ==
    ASSUME TypeInv, TargetInv, ChainInv, Reading("snapshot")
    PROVE  /\ Follows(Head(toClient), snapshot, Head(toClient).version)
           /\ Head(toClient).version \in 0 .. Len(log)
<1>0. toClient \in Seq(Message) /\ Len(log) \in Nat
  BY Typed
<1>1. toClient # <<>> /\ Head(toClient).type = "snapshot"
  BY DEF Reading
<1>2. Leads(toClient, snapshot, sent)
  BY <1>1 DEF TargetInv, ChainInv
<1>3. PICK c \in 0 .. Len(log) : Follows(Head(toClient), snapshot, c)
  BY <1>0, <1>1, <1>2, LeadsTail
<1>4. c = Head(toClient).version
  BY <1>1, <1>3 DEF Follows
<1> QED BY <1>3, <1>4

LEMMA Ascending ==
    ASSUME TypeInv, TargetInv, ChainInv
    PROVE  SnapshotsAscend
<1> SUFFICES ASSUME Reading("snapshot")
             PROVE  Head(toClient).version >= snapshot
  BY DEF SnapshotsAscend
<1>1. /\ Follows(Head(toClient), snapshot, Head(toClient).version)
      /\ Head(toClient).version \in 0 .. Len(log)
  BY HeadFollows
<1>2. snapshot \in 0 .. Len(log) /\ Len(log) \in Nat
  BY Typed
<1> QED BY <1>1, <1>2 DEF Follows

WatchInv == TypeInv /\ TrackerInv /\ TargetInv /\ ChainInv

LEMMA InitWatch == Init => WatchInv
<1> SUFFICES ASSUME Init
             PROVE  WatchInv
  OBVIOUS
<1>1. TargetInv
  <2>1. Len(<<>>) = 0
    OBVIOUS
  <2> QED BY <2>1 DEF Init, TargetInv, RefusalIsLast
<1>2. ChainInv
  BY DEF Init, ChainInv
<1> QED BY <1>1, <1>2, InitTyped, InitTracker DEF WatchInv

LEMMA NextWatch == WatchInv /\ [Next]_vars => WatchInv'
BY NextTyped, NextTracker, NextTarget, NextChain DEF WatchInv

\* No HARD_ASSERT of the client fails: none of the online state tracker's, and
\* no snapshot is older than the one before it.
THEOREM NoAssertionFails == Spec => []AssertionsHold
<1> DEFINE Inv == WatchInv /\ ~assertFailed
<1>1. Init => Inv
  BY InitWatch DEF Init
<1>2. Inv /\ [Next]_vars => Inv'
  BY NextWatch, AssertNext, Ascending DEF WatchInv
<1>3. Inv => AssertionsHold
  BY DEF AssertionsHold
<1> QED BY <1>1, <1>2, <1>3, PTL DEF Spec

-----------------------------------------------------------------------------
(* The cache.                                                              *)

\* Acknowledgements vs are of the first writes of the queue q, and say at which
\* version of the log each of them is.
Acked(l, vs, q) ==
    \A i \in 1 .. Len(vs) : ValueIn(l, vs[i], q[i].doc) = q[i].value

AckInv == Acked(log, acks, queue)

\* The cache has what the backend had at its version of each document.
CacheInv == \A d \in Doc : cache[d].value = ValueIn(log, cache[d].version, d)

DataInv == WatchInv /\ AckInv /\ CacheInv

LEMMA NothingAcked ==
    ASSUME NEW l, NEW q
    PROVE  Acked(l, <<>>, q)
<1>1. Len(<<>>) = 0
  OBVIOUS
<1> QED BY <1>1 DEF Acked

LEMMA AckedByLog ==
    ASSUME TypeInv, AckInv, LogStep
    PROVE  Acked(log', acks, queue)
<1> SUFFICES ASSUME NEW i \in 1 .. Len(acks)
             PROVE  ValueIn(log', acks[i], queue[i].doc) = queue[i].value
  BY DEF Acked
<1>1. acks[i] \in 0 .. Len(log)
  <2>1. acks[i] \in 1 .. Len(log) /\ Len(log) \in Nat
    BY Typed
  <2> QED BY <2>1
<1>2. ValueIn(log', acks[i], queue[i].doc) = ValueIn(log, acks[i], queue[i].doc)
  BY <1>1, Typed, KeptByLog
<1> QED BY <1>2 DEF AckInv, Acked

\* The backend has committed another write of the queue, or found it done.
LEMMA CommitIsAcked ==
    ASSUME TypeInv, AckInv, ServerCommits
    PROVE  Acked(log', acks', queue)
<1> DEFINE n == Len(acks) + 1
           b == queue[n]
<1>1. /\ acks \in Seq(1 .. Len(log)) /\ Len(acks) \in Nat /\ Len(acks) < Len(queue)
      /\ queue \in Seq(Batch) /\ Len(queue) \in Nat /\ log \in Seq(Batch) /\ Len(log) \in Nat
  BY Typed DEF ServerCommits
<1>2. n \in 1 .. Len(queue) /\ b \in Batch
  BY <1>1
<1>3. Acked(log', acks, queue)
  <2>1. LogStep
    BY <1>2 DEF ServerCommits, LogStep
  <2> QED BY <2>1, AckedByLog
<1>4. \E v \in Nat : acks' = Append(acks, v) /\ ValueIn(log', v, b.doc) = b.value
  <2>1. CASE b.value # Absent /\ At(Len(log), b.doc) = b.value
    <3>1. acks' = Append(acks, VersionOf(Len(log), b.doc)) /\ log' = log
      BY <2>1 DEF ServerCommits
    <3> DEFINE v == VersionIn(log, Len(log), b.doc)
    <3>2. v \in 0 .. Len(log)
      BY <1>1, VersionFacts
    <3>3. ValueIn(log, v, b.doc) = ValueIn(log, Len(log), b.doc)
      <4>1. v \in v .. Len(log)
        BY <1>1, <3>2
      <4> QED BY <1>1, <4>1, VersionBetween
    <3>4. acks' = Append(acks, v) /\ ValueIn(log, Len(log), b.doc) = b.value
      BY <2>1, <3>1, OfThisLog
    <3>5. v \in Nat
      BY <1>1, <3>2
    <3> HIDE DEF v, b
    <3> QED BY <3>1, <3>3, <3>4, <3>5
  <2>2. CASE ~(b.value # Absent /\ At(Len(log), b.doc) = b.value)
    <3>1. acks' = Append(acks, Len(log) + 1) /\ log' = Append(log, b)
      BY <2>2 DEF ServerCommits
    <3> HIDE DEF b
    <3>2. ValueIn(Append(log, b), Len(log) + 1, b.doc) = b.value
      BY <1>1, <1>2, VersionAtEnd
    <3> QED BY <1>1, <3>1, <3>2
  <2> QED BY <2>1, <2>2
<1>5. PICK v \in Nat : acks' = Append(acks, v) /\ ValueIn(log', v, b.doc) = b.value
  BY <1>4
<1>6. acks \in Seq(Nat)
  BY <1>1
<1>7. /\ Len(acks') = n /\ acks'[n] = v
      /\ \A i \in 1 .. Len(acks) : acks'[i] = acks[i]
  BY <1>5, <1>6, AppendProperties
<1> SUFFICES ASSUME NEW i \in 1 .. Len(acks')
             PROVE  ValueIn(log', acks'[i], queue[i].doc) = queue[i].value
  BY DEF Acked
<1>8. CASE i = n
  BY <1>5, <1>7, <1>8
<1>9. CASE i # n
  <2>1. i \in 1 .. Len(acks)
    BY <1>1, <1>7, <1>9
  <2> QED BY <1>3, <1>7, <2>1 DEF Acked
<1> QED BY <1>8, <1>9

LEMMA NextAck ==
    ASSUME TypeInv, AckInv, [Next]_vars
    PROVE  AckInv'
<1>0. /\ acks \in Seq(1 .. Len(log)) /\ Len(acks) \in Nat /\ Len(acks) <= Len(queue)
      /\ queue \in Seq(Batch) /\ Len(queue) \in Nat
  BY Typed DEF TypeInv
<1> SUFFICES Acked(log', acks', queue')
  BY DEF AckInv, Acked
<1>1. CASE UNCHANGED <<log, acks, queue>>
  BY <1>1 DEF AckInv
<1>2. CASE acks' = <<>>
  BY <1>2, NothingAcked
<1>3. CASE WriteMutations
  <2>1. PICK b \in Batch : queue' = Append(queue, b)
    BY <1>3 DEF WriteMutations
  <2>2. log' = log /\ acks' = acks
    BY <1>3 DEF WriteMutations
  <2>3. \A i \in 1 .. Len(queue) : queue'[i] = queue[i]
    BY <1>0, <2>1, AppendProperties
  <2>4. \A i \in 1 .. Len(acks) : queue'[i] = queue[i]
    BY <1>0, <2>3
  <2> QED BY <2>2, <2>4 DEF AckInv, Acked
<1>4. CASE WriteAcknowledged
  <2>1. acks # <<>> /\ acks' = Tail(acks) /\ queue' = Tail(queue) /\ log' = log
    BY <1>4 DEF WriteAcknowledged
  <2>2. /\ Len(acks') = Len(acks) - 1 /\ Len(acks) # 0
        /\ \A i \in 1 .. Len(acks) - 1 : acks'[i] = acks[i + 1]
    BY <1>0, <2>1, TailElements
  <2>3. queue # <<>>
    BY <1>0, <2>2
  <2>4. \A i \in 1 .. Len(queue) - 1 : queue'[i] = queue[i + 1]
    BY <1>0, <2>1, <2>3, TailElements
  <2>5. ASSUME NEW i \in 1 .. Len(acks')
        PROVE  ValueIn(log', acks'[i], queue'[i].doc) = queue'[i].value
    <3>1. i \in 1 .. Len(acks) - 1 /\ i \in 1 .. Len(queue) - 1 /\ i + 1 \in 1 .. Len(acks)
      BY <1>0, <2>2
    <3>2. acks'[i] = acks[i + 1] /\ queue'[i] = queue[i + 1]
      BY <2>2, <2>4, <3>1
    <3>3. ValueIn(log, acks[i + 1], queue[i + 1].doc) = queue[i + 1].value
      BY <3>1 DEF AckInv, Acked
    <3> QED BY <2>1, <3>2, <3>3
  <2> QED BY <2>5 DEF Acked
<1>5. CASE WriteRejected
  BY <1>2, <1>5 DEF WriteRejected
<1>6. CASE WriteStreamFails \/ RestartNetwork \/ Relaunch
  BY <1>2, <1>6 DEF WriteStreamFails, RestartNetwork, Relaunch
<1>7. CASE ServerCommits
  BY <1>7, CommitIsAcked DEF ServerCommits, disk
<1>8. CASE RemoteWrite
  <2>1. LogStep
    BY <1>8, NextLog DEF Next
  <2> QED BY <1>8, <2>1, AckedByLog DEF RemoteWrite, disk
<1>9. CASE RaiseWatchSnapshot
  BY <1>1, <1>9, SnapshotStepWatch
<1>10. CASE \/ AddQueryListener \/ TimerFires \/ WatchStreamOpens \/ WatchStreamFails
            \/ TargetAdded \/ TargetRefused
  BY <1>1, <1>10 DEF AddQueryListener, TimerFires, WatchStreamOpens, WatchStreamFails,
                     TargetAdded, TargetRefused, disk
<1>11. CASE ServerAdds \/ ServerRefuses \/ ServerSnapshot \/ UNCHANGED vars
  BY <1>1, <1>11 DEF ServerAdds, ServerRefuses, ServerSnapshot, vars, disk
<1> QED BY <1>3, <1>4, <1>5, <1>6, <1>7, <1>8, <1>9, <1>10, <1>11 DEF Next, Worker, Backend

\* The document that a snapshot tells is the backend's.
LEMMA ToldIsServer ==
    ASSUME NEW v \in Nat, NEW d
    PROVE  /\ Told(v, d).value = ValueIn(log, v, d)
           /\ ValueIn(log, Told(v, d).version, d) = ValueIn(log, v, d)
           /\ Told(v, d).version \in VersionIn(log, v, d) .. v
           /\ ~Told(v, d).committed
<1> DEFINE u == VersionIn(log, v, d)
<1>1. u \in 0 .. v
  BY VersionFacts
<1>2. u \in u .. v /\ v \in u .. v
  BY <1>1
<1>3. ValueIn(log, u, d) = ValueIn(log, v, d)
  BY <1>2, VersionBetween
<1>4. Told(v, d) = [version |-> IF ValueIn(log, v, d) = Absent THEN v ELSE u,
                    value |-> ValueIn(log, v, d), committed |-> FALSE]
  BY OfThisLog DEF Told
<1> HIDE DEF u
<1>5. CASE ValueIn(log, v, d) = Absent
  BY <1>2, <1>4, <1>5 DEF u
<1>6. CASE ValueIn(log, v, d) # Absent
  BY <1>2, <1>3, <1>4, <1>6 DEF u
<1> QED BY <1>5, <1>6

\* What a snapshot at version v makes of a document d of the cache.
LEMMA SnapshotOfCache ==
    ASSUME TypeInv, RaiseWatchSnapshot, NEW d \in Doc
    PROVE  LET v == Head(toClient).version
               m == Head(toClient)
           IN  /\ v \in 0 .. Len(log) /\ Len(log) \in Nat
               /\ cache'[d] = IF d \in m.docs \cup m.limbo /\ IsUpdate(cache[d], Told(v, d))
                              THEN Told(v, d) ELSE cache[d]
<1> DEFINE m == Head(toClient)
<1>1. toClient # <<>> /\ m.type = "snapshot"
  BY DEF RaiseWatchSnapshot, Reading
<1>2. m \in Message /\ m.version <= Len(log)
  BY <1>1, Typed, PastOfTail DEF TypeInv
<1>3. m.version \in Nat
  BY <1>1, <1>2, MessageFields
<1>4. Len(log) \in Nat
  BY Typed
<1>5. cache' = [e \in Doc |-> IF e \in {x \in m.docs \cup m.limbo :
                                          IsUpdate(cache[x], Told(m.version, x))}
                              THEN Told(m.version, e) ELSE cache[e]]
  BY DEF RaiseWatchSnapshot
<1> HIDE DEF m
<1>6. cache'[d] = IF d \in m.docs \cup m.limbo /\ IsUpdate(cache[d], Told(m.version, d))
                  THEN Told(m.version, d) ELSE cache[d]
  BY <1>5
<1> QED BY <1>2, <1>3, <1>4, <1>6 DEF m

\* A step never takes a document of the cache back, and leaves there what the
\* backend had.
CacheStep ==
    \A d \in Doc :
        /\ cache'[d].version >= cache[d].version
        /\ cache'[d].value = ValueIn(log, cache'[d].version, d)

LEMMA CacheNext ==
    ASSUME TypeInv, AckInv, CacheInv, [Next]_vars
    PROVE  CacheStep
<1>0. cache \in [Doc -> Entry] /\ \A d \in Doc : cache[d].version \in Nat
  BY Typed, EntryFields DEF TypeInv, TypeOK
<1>1. CASE cache' = cache
  BY <1>0, <1>1 DEF CacheStep, CacheInv
<1>2. CASE WriteAcknowledged
  <2> DEFINE b == Head(queue)
             v == Head(acks)
             e == [version |-> v, value |-> b.value, committed |-> TRUE]
  <2>1. /\ acks # <<>>
        /\ cache' = IF IsNewer(cache[b.doc], v) THEN [cache EXCEPT ![b.doc] = e] ELSE cache
    BY <1>2 DEF WriteAcknowledged
  <2>2. /\ v = acks[1] /\ v \in 1 .. Len(log) /\ Len(acks) \in Nat \ {0}
    BY <2>1, Typed, TailElements
  <2>3. queue # <<>>
    BY <2>2, Typed DEF TypeInv
  <2>4. b = queue[1] /\ b \in Batch
    BY <2>3, Typed, TailElements
  <2>5. ValueIn(log, v, b.doc) = b.value
    <3>1. 1 \in 1 .. Len(acks)
      BY <2>2
    <3> HIDE DEF v, b
    <3> QED BY <2>2, <2>4, <3>1 DEF AckInv, Acked
  <2>6. e.version = v /\ e.value = b.value /\ b.doc \in Doc /\ v \in Nat
    BY <2>2, <2>4, Typed DEF Batch
  <2> HIDE DEF b, v, e
  <2>7. CASE IsNewer(cache[b.doc], v)
    <3> SUFFICES ASSUME NEW d \in Doc
                 PROVE  /\ cache'[d].version >= cache[d].version
                        /\ cache'[d].value = ValueIn(log, cache'[d].version, d)
      BY DEF CacheStep
    <3>1. cache'[d] = IF d = b.doc THEN e ELSE cache[d]
      BY <1>0, <2>1, <2>7
    <3>2. CASE d = b.doc
      BY <1>0, <2>5, <2>6, <2>7, <3>1, <3>2 DEF IsNewer
    <3>3. CASE d # b.doc
      BY <1>0, <3>1, <3>3 DEF CacheInv
    <3> QED BY <3>2, <3>3
  <2>8. CASE ~IsNewer(cache[b.doc], v)
    BY <1>1, <2>1, <2>8
  <2> QED BY <2>7, <2>8
<1>3. CASE RaiseWatchSnapshot
  <2> SUFFICES ASSUME NEW d \in Doc
               PROVE  /\ cache'[d].version >= cache[d].version
                      /\ cache'[d].value = ValueIn(log, cache'[d].version, d)
    BY DEF CacheStep
  <2> DEFINE v == Head(toClient).version
  <2>1. /\ v \in 0 .. Len(log) /\ Len(log) \in Nat
        /\ \/ cache'[d] = cache[d]
           \/ cache'[d] = Told(v, d) /\ IsUpdate(cache[d], Told(v, d))
    BY <1>3, SnapshotOfCache
  <2> HIDE DEF v
  <2>2. CASE cache'[d] = cache[d]
    BY <1>0, <2>2 DEF CacheInv
  <2>3. CASE cache'[d] = Told(v, d) /\ IsUpdate(cache[d], Told(v, d))
    <3>1. v \in Nat
      BY <2>1
    <3> DEFINE t == Told(v, d)
    <3>2. /\ t.value = ValueIn(log, v, d) /\ ValueIn(log, t.version, d) = ValueIn(log, v, d)
          /\ t.version \in VersionIn(log, v, d) .. v /\ VersionIn(log, v, d) \in 0 .. v
      BY <3>1, ToldIsServer, VersionFacts
    <3> HIDE DEF t
    <3>3. t.version >= cache[d].version
      BY <1>0, <2>3, <3>1, <3>2 DEF IsUpdate, t
    <3> QED BY <2>3, <3>2, <3>3 DEF t
  <2> QED BY <2>1, <2>2, <2>3
<1>4. CASE \/ WriteMutations \/ WriteRejected \/ WriteStreamFails \/ AddQueryListener
           \/ TimerFires \/ WatchStreamOpens \/ WatchStreamFails \/ RestartNetwork
           \/ TargetAdded \/ TargetRefused \/ Relaunch
  BY <1>1, <1>4 DEF WriteMutations, WriteRejected, WriteStreamFails, AddQueryListener,
                    TimerFires, WatchStreamOpens, WatchStreamFails, RestartNetwork,
                    TargetAdded, TargetRefused, Relaunch, disk
<1>5. CASE \/ ServerCommits \/ RemoteWrite \/ ServerAdds \/ ServerRefuses \/ ServerSnapshot
           \/ UNCHANGED vars
  BY <1>1, <1>5 DEF ServerCommits, RemoteWrite, ServerAdds, ServerRefuses, ServerSnapshot,
                    vars, disk
<1> QED BY <1>2, <1>3, <1>4, <1>5 DEF Next, Worker, Backend

LEMMA NextCache ==
    ASSUME TypeInv, AckInv, CacheInv, [Next]_vars
    PROVE  CacheInv'
<1>1. CacheStep
  BY CacheNext
<1>2. CASE UNCHANGED log
  BY <1>1, <1>2 DEF CacheStep, CacheInv
<1>3. CASE RemoteWrite \/ ServerCommits
  <2>1. cache' = cache
    BY <1>3 DEF RemoteWrite, ServerCommits, disk
  <2> SUFFICES ASSUME NEW d \in Doc
               PROVE  cache[d].value = ValueIn(log', cache[d].version, d)
    BY <2>1 DEF CacheInv
  <2>2. cache[d].version \in 0 .. Len(log)
    BY EntryFields DEF TypeInv, TypeOK
  <2>3. ValueIn(log', cache[d].version, d) = ValueIn(log, cache[d].version, d)
    BY <2>2, NextLog, Typed, KeptByLog
  <2> QED BY <2>3 DEF CacheInv
<1>4. UNCHANGED log \/ RemoteWrite \/ ServerCommits
  BY LogChanges
<1> QED BY <1>2, <1>3, <1>4

LEMMA InitData == Init => DataInv
<1> SUFFICES ASSUME Init
             PROVE  DataInv
  OBVIOUS
<1>1. AckInv
  BY NothingAcked DEF Init, AckInv
<1>2. ASSUME NEW d \in Doc PROVE ValueIn(log, 0, d) = Absent
  <2>1. 0 \in Nat
    OBVIOUS
  <2>2. VersionIn(log, 0, d) \in 0 .. 0
    BY <2>1, VersionFacts
  <2> QED BY <2>2 DEF ValueIn
<1>3. CacheInv
  BY <1>2 DEF Init, CacheInv
<1> QED BY <1>1, <1>3, InitWatch DEF DataInv

LEMMA NextData == DataInv /\ [Next]_vars => DataInv'
BY NextWatch, NextAck, NextCache DEF DataInv, WatchInv

\* Neither an acknowledgement nor a snapshot takes a document of the cache back
\* to an older version, and the cache has what the backend had at its version.
THEOREM CacheNeverOlder == Spec => NeverOlder
<1>1. DataInv /\ [Next]_vars =>
          [\A d \in Doc : /\ cache'[d].version >= cache[d].version
                          /\ cache'[d].value = At(cache'[d].version, d)]_vars
  <2> SUFFICES ASSUME DataInv, [Next]_vars
               PROVE  \A d \in Doc : /\ cache'[d].version >= cache[d].version
                                     /\ cache'[d].value = At(cache'[d].version, d)
    OBVIOUS
  <2>1. CacheStep
    BY CacheNext DEF DataInv, WatchInv
  <2> QED BY <2>1, OfThisLog DEF CacheStep
<1> QED BY InitData, NextData, <1>1, PTL DEF Spec, NeverOlder

-----------------------------------------------------------------------------
(* The target's matching keys.                                             *)

Keys(l, v) == {d \in Doc : ValueIn(l, v, d) # Absent}

\* The keys are those of the last snapshot, and no document among them is older
\* in the cache than in that snapshot.
KeysInv ==
    /\ remoteKeys = Keys(log, snapshot)
    /\ \A d \in remoteKeys : VersionIn(log, snapshot, d) <= cache[d].version

LEMMA PresentIsKeys ==
    ASSUME NEW v, NEW docs \in SUBSET Doc
    PROVE  Present(v, docs) = docs \cap Keys(log, v)
BY OfThisLog DEF Present, Keys

\* A document of which a snapshot says nothing is as it was.
LEMMA UntoldIsKept ==
    ASSUME NEW v \in Nat, NEW from \in 0 .. v, NEW d \in Doc, d \notin Changed(from, v)
    PROVE  /\ ValueIn(log, from, d) = ValueIn(log, v, d)
           /\ d \in Keys(log, v) => VersionIn(log, from, d) = VersionIn(log, v, d)
<1>1. \/ ~(VersionIn(log, v, d) > from)
      \/ ValueIn(log, from, d) = Absent /\ ValueIn(log, v, d) = Absent
  BY OfThisLog DEF Changed
<1>2. CASE ~(VersionIn(log, v, d) > from)
  <2>1. VersionIn(log, v, d) \in 0 .. v
    BY VersionFacts
  <2>2. from \in VersionIn(log, v, d) .. v
    BY <1>2, <2>1
  <2> QED BY <2>2, VersionBetween
<1>3. CASE ValueIn(log, from, d) = Absent /\ ValueIn(log, v, d) = Absent
  BY <1>3 DEF Keys
<1> QED BY <1>1, <1>2, <1>3

\* A snapshot gives the target the keys of its version.
LEMMA SnapshotKeys ==
    ASSUME TypeInv, TargetInv, ChainInv, KeysInv, RaiseWatchSnapshot
    PROVE  /\ remoteKeys' = Keys(log, Head(toClient).version)
           /\ \A d \in remoteKeys' :
                 VersionIn(log, Head(toClient).version, d) <= cache'[d].version
<1> DEFINE m == Head(toClient)
           v == m.version
<1>1. /\ Follows(m, snapshot, v) /\ v \in 0 .. Len(log) /\ m.type = "snapshot"
      /\ remoteKeys' = KeysAfter(m)
  BY HeadFollows DEF RaiseWatchSnapshot, Reading
<1>2. v \in Nat /\ snapshot \in 0 .. v /\ Len(log) \in Nat
  <2>1. snapshot \in 0 .. Len(log) /\ Len(log) \in Nat
    BY Typed
  <2> QED BY <1>1, <2>1 DEF Follows
<1>3. m.docs = IF m.reset THEN Present(v, Doc) ELSE Changed(snapshot, v)
  BY <1>1 DEF Follows
<1>4. m.docs \in SUBSET Doc
  BY <1>3 DEF Present, Changed
<1>5. KeysAfter(m) = IF m.reset THEN m.docs \cap Keys(log, v)
                     ELSE (remoteKeys \ m.docs) \cup (m.docs \cap Keys(log, v))
  BY <1>4, PresentIsKeys DEF KeysAfter
<1>6. \A d \in Doc : cache'[d] = cache[d] \/ cache'[d] = Told(v, d)
  BY SnapshotOfCache
<1>7. \A d \in Doc : d \in m.docs => \/ cache'[d] = Told(v, d)
                                     \/ cache'[d] = cache[d] /\ ~IsUpdate(cache[d], Told(v, d))
  BY SnapshotOfCache
<1>8. \A d \in Doc : /\ Told(v, d).version \in VersionIn(log, v, d) .. v
                     /\ VersionIn(log, v, d) \in 0 .. v
  BY <1>2, ToldIsServer, VersionFacts
<1>9. \A d \in Doc : cache[d].version \in Nat
  BY <1>2, EntryFields DEF TypeInv, TypeOK
<1> HIDE DEF m, v
<1>10. ASSUME NEW d \in Doc, d \in m.docs
       PROVE  VersionIn(log, v, d) <= cache'[d].version
  <2>1. CASE cache'[d] = Told(v, d)
    BY <1>2, <1>8, <2>1
  <2>2. CASE cache'[d] = cache[d] /\ ~IsUpdate(cache[d], Told(v, d))
    BY <1>2, <1>8, <1>9, <2>2 DEF IsUpdate
  <2> QED BY <1>7, <1>10, <2>1, <2>2
<1>11. ASSUME NEW d \in Doc, ~m.reset, d \notin m.docs
       PROVE  /\ d \in remoteKeys <=> d \in Keys(log, v)
              /\ d \in remoteKeys => VersionIn(log, v, d) <= cache'[d].version
  <2>1. d \notin Changed(snapshot, v)
    BY <1>3, <1>11
  <2>2. /\ ValueIn(log, snapshot, d) = ValueIn(log, v, d)
        /\ d \in Keys(log, v) => VersionIn(log, snapshot, d) = VersionIn(log, v, d)
    BY <1>2, <2>1, UntoldIsKept
  <2>3. d \in remoteKeys <=> d \in Keys(log, v)
    BY <2>2 DEF KeysInv, Keys
  <2>4. ASSUME d \in remoteKeys PROVE VersionIn(log, v, d) <= cache'[d].version
    <3>1. VersionIn(log, v, d) <= cache[d].version
      BY <2>2, <2>3, <2>4 DEF KeysInv
    <3>2. CASE cache'[d] = cache[d]
      BY <3>1, <3>2
    <3>3. CASE cache'[d] = Told(v, d)
      BY <1>2, <1>8, <3>3
    <3> QED BY <1>6, <3>2, <3>3
  <2> QED BY <2>3, <2>4
<1>12. CASE m.reset
  <2>1. m.docs = Keys(log, v)
    <3>1. Present(v, Doc) = Doc \cap Keys(log, v)
      BY PresentIsKeys
    <3> QED BY <1>3, <1>12, <3>1 DEF Keys
  <2>2. remoteKeys' = m.docs
    BY <1>1, <1>5, <1>12, <2>1
  <2> QED BY <1>4, <1>10, <2>1, <2>2 DEF m, v
<1>13. CASE ~m.reset
  <2>1. remoteKeys' = (remoteKeys \ m.docs) \cup (m.docs \cap Keys(log, v))
    BY <1>1, <1>5, <1>13
  <2>2. remoteKeys \subseteq Doc /\ Keys(log, v) \subseteq Doc
    BY DEF KeysInv, Keys
  <2>3. remoteKeys' = Keys(log, v)
    BY <1>11, <1>13, <2>1, <2>2
  <2>4. \A d \in remoteKeys' : VersionIn(log, v, d) <= cache'[d].version
    BY <1>10, <1>11, <1>13, <2>1, <2>2
  <2> QED BY <2>3, <2>4 DEF m, v
<1> QED BY <1>12, <1>13

LEMMA NextKeys ==
    ASSUME DataInv, KeysInv, [Next]_vars
    PROVE  KeysInv'
<1>1. CASE RaiseWatchSnapshot
  <2>1. snapshot' = Head(toClient).version /\ log' = log
    BY <1>1, SnapshotStepWatch DEF DataInv, WatchInv
  <2> DEFINE v == Head(toClient).version
  <2>2. remoteKeys' = Keys(log, v) /\ \A d \in remoteKeys' : VersionIn(log, v, d) <= cache'[d].version
    BY <1>1, SnapshotKeys DEF DataInv, WatchInv
  <2>3. snapshot' = v
    BY <2>1
  <2> HIDE DEF v
  <2> QED BY <2>1, <2>2, <2>3 DEF KeysInv, Keys
<1>2. CASE UNCHANGED <<remoteKeys, snapshot>>
  <2>1. /\ CacheStep /\ LogStep /\ log \in Seq(Batch) /\ Len(log) \in Nat
        /\ snapshot \in 0 .. Len(log)
        /\ \A d \in Doc : cache[d].version \in Nat
    BY CacheNext, NextLog, Typed, EntryFields DEF DataInv, WatchInv, TypeInv, TypeOK
  <2>2. \A d : /\ VersionIn(log', snapshot, d) = VersionIn(log, snapshot, d)
               /\ ValueIn(log', snapshot, d) = ValueIn(log, snapshot, d)
    BY <2>1, KeptByLog
  <2>3. Keys(log', snapshot) = Keys(log, snapshot)
    BY <2>2 DEF Keys
  <2>4. \A d \in Doc : cache'[d].version \in Nat
    <3>1. TypeInv'
      BY NextTyped DEF DataInv, WatchInv
    <3>2. cache' \in [Doc -> [version : 0 .. Len(log'), value : Content, committed : BOOLEAN]]
      BY <3>1 DEF TypeInv, TypeOK, Entry
    <3>3. Len(log') \in Nat
      BY <2>1, KeptByLog
    <3> QED BY <3>2, <3>3
  <2>5. ASSUME NEW d \in remoteKeys
        PROVE  VersionIn(log, snapshot, d) <= cache'[d].version
    <3>1. d \in Doc /\ VersionIn(log, snapshot, d) \in Nat
      <4>1. snapshot \in Nat
        BY <2>1
      <4>2. VersionIn(log, snapshot, d) \in 0 .. snapshot
        BY <4>1, VersionFacts
      <4> QED BY <4>1, <4>2 DEF KeysInv, Keys
    <3>2. VersionIn(log, snapshot, d) <= cache[d].version /\ cache'[d].version >= cache[d].version
      BY <2>1, <3>1 DEF KeysInv, CacheStep
    <3> QED BY <2>1, <2>4, <3>1, <3>2
  <2>6. remoteKeys' = Keys(log', snapshot')
    BY <1>2, <2>3 DEF KeysInv
  <2>7. \A d \in remoteKeys' : VersionIn(log', snapshot', d) <= cache'[d].version
    BY <1>2, <2>2, <2>5
  <2> QED BY <2>6, <2>7 DEF KeysInv, Keys
<1>3. RaiseWatchSnapshot \/ UNCHANGED <<remoteKeys, snapshot>>
  <2>1. WriteStep => UNCHANGED <<remoteKeys, snapshot>>
    BY WriteStepWatch DEF DataInv, WatchInv
  <2>2. AddQueryListener \/ TimerFires \/ WriteStreamFails \/ WatchStreamOpens
          \/ WatchStreamFails \/ RestartNetwork \/ Relaunch \/ TargetAdded \/ TargetRefused
          => UNCHANGED <<remoteKeys, snapshot>>
    BY DEF AddQueryListener, TimerFires, WriteStreamFails, WatchStreamOpens,
           WatchStreamFails, RestartNetwork, Relaunch, TargetAdded, TargetRefused, disk
  <2>3. ServerCommits \/ RemoteWrite \/ ServerAdds \/ ServerRefuses \/ ServerSnapshot
          \/ UNCHANGED vars => UNCHANGED <<remoteKeys, snapshot>>
    BY DEF ServerCommits, RemoteWrite, ServerAdds, ServerRefuses, ServerSnapshot, vars, disk
  <2> QED BY <2>1, <2>2, <2>3 DEF Next, Worker, Backend, WriteStep
<1> QED BY <1>1, <1>2, <1>3

-----------------------------------------------------------------------------
(* The view.                                                               *)

\* What a view shows of a document: as it is here, or until watch sends it.
Shows(v, c, q, d) ==
    \/ v.docs[d] = Local(c, q, d)
    \/ d \in v.mutated /\ c[d].committed /\ ~HasLocalMutations(q, d)

ShownInv == listening => \A d \in Doc : Shows(view, cache, queue, d)

\* Documents shown with local mutations are there, and have some, or had them
\* committed.
Mutated(v, c, q) ==
    \A d \in v.mutated : v.docs[d] # Absent /\ (HasLocalMutations(q, d) \/ c[d].committed)

\* A view is synced when it is current and nothing in it is in limbo.
Settled(v, keys) ==
    /\ v.synced => v.current /\ v.limbo = {}
    /\ v.current => v.limbo = Limbo(v.docs, v.mutated, keys)

ViewInv ==
    /\ ~listening => view = NewView
    /\ Settled(view, remoteKeys)
    /\ Mutated(view, cache, queue)

\* A piece of news changes nothing but the documents that it names.
SameElsewhere(changes, c, q) ==
    \A d \in Doc \ changes :
        /\ c[d] = cache[d]
        /\ Local(c, q, d) = Local(cache, queue, d)
        /\ HasLocalMutations(q, d) <=> HasLocalMutations(queue, d)

AppliedTo(changes, c, q) == {d \in changes : Applies(c, q, d)}

\* The view v that comes of applying the documents of applied.
Applied(v, applied, c, q, keys, current) ==
    /\ v.docs = [d \in Doc |-> IF d \in applied THEN Local(c, q, d) ELSE view.docs[d]]
    /\ v.mutated = (view.mutated \ applied)
                      \cup {d \in applied : v.docs[d] # Absent /\ HasLocalMutations(q, d)}
    /\ v.current = current
    /\ v.limbo = IF current THEN Limbo(v.docs, v.mutated, keys) ELSE view.limbo
    /\ v.synced = (current /\ v.limbo = {})

LEMMA AppliedView ==
    ASSUME NEW changes \in SUBSET Doc, NEW c, NEW q, NEW keys, NEW current
    PROVE  Applied(ApplyChanges(changes, c, q, keys, current), AppliedTo(changes, c, q),
                   c, q, keys, current)
<1> DEFINE applied == {d \in changes : Applies(c, q, d)}
           docs == [d \in Doc |-> IF d \in applied THEN Local(c, q, d) ELSE view.docs[d]]
           mutated == (view.mutated \ applied)
                        \cup {d \in applied : docs[d] # Absent /\ HasLocalMutations(q, d)}
           limbo == IF current THEN Limbo(docs, mutated, keys) ELSE view.limbo
           synced == current /\ limbo = {}
           v == ApplyChanges(changes, c, q, keys, current)
<1>1. v = [docs |-> docs, mutated |-> mutated, current |-> current, synced |-> synced,
           limbo |-> limbo]
  BY DEF ApplyChanges
<1> HIDE DEF docs, mutated, limbo, synced, v
<1>2. /\ v.docs = docs /\ v.mutated = mutated /\ v.current = current /\ v.limbo = limbo
      /\ v.synced = synced
  BY <1>1
<1>3. mutated = (view.mutated \ applied)
                  \cup {d \in applied : v.docs[d] # Absent /\ HasLocalMutations(q, d)}
  <2> HIDE DEF applied
  <2> QED BY <1>2 DEF mutated
<1>4. limbo = IF current THEN Limbo(v.docs, v.mutated, keys) ELSE view.limbo
  BY <1>2 DEF limbo
<1>5. synced = (current /\ v.limbo = {})
  BY <1>2 DEF synced
<1> QED BY <1>2, <1>3, <1>4, <1>5 DEF docs, v, Applied, AppliedTo

LEMMA ApplyShows ==
    ASSUME view \in View, NEW changes \in SUBSET Doc, NEW c, NEW q, NEW keys,
           NEW current, NEW d \in Doc,
           SameElsewhere(changes, c, q), Shows(view, cache, queue, d)
    PROVE  Shows(ApplyChanges(changes, c, q, keys, current), c, q, d)
<1> DEFINE v == ApplyChanges(changes, c, q, keys, current)
           applied == AppliedTo(changes, c, q)
<1>1. /\ v.docs[d] = IF d \in applied THEN Local(c, q, d) ELSE view.docs[d]
      /\ d \notin applied => (d \in v.mutated <=> d \in view.mutated)
  <2>1. Applied(v, applied, c, q, keys, current)
    BY AppliedView
  <2> HIDE DEF v, applied
  <2> QED BY <2>1 DEF Applied
<1>2. d \in applied <=> d \in changes /\ Applies(c, q, d)
  BY DEF AppliedTo
<1> HIDE DEF v, applied
<1>3. CASE d \in applied
  BY <1>1, <1>3 DEF Shows, v
<1>4. CASE d \notin changes
  <2>1. /\ c[d] = cache[d] /\ Local(c, q, d) = Local(cache, queue, d)
        /\ HasLocalMutations(q, d) <=> HasLocalMutations(queue, d)
    BY <1>4 DEF SameElsewhere
  <2> QED BY <1>1, <1>2, <1>4, <2>1 DEF Shows, v
<1>5. CASE d \in changes /\ ~Applies(c, q, d)
  <2>1. \/ view.docs[d] = Local(c, q, d)
        \/ d \in view.mutated /\ c[d].committed /\ ~HasLocalMutations(q, d)
    BY <1>5 DEF Applies, ShouldWaitForSyncedDocument
  <2> QED BY <1>1, <1>2, <1>5, <2>1 DEF Shows, v
<1> QED BY <1>2, <1>3, <1>4, <1>5

LEMMA ApplyMutated ==
    ASSUME view \in View, NEW changes \in SUBSET Doc, NEW c, NEW q, NEW keys,
           NEW current, SameElsewhere(changes, c, q), Mutated(view, cache, queue)
    PROVE  Mutated(ApplyChanges(changes, c, q, keys, current), c, q)
<1> DEFINE v == ApplyChanges(changes, c, q, keys, current)
           applied == AppliedTo(changes, c, q)
<1> SUFFICES ASSUME NEW d \in v.mutated
             PROVE  v.docs[d] # Absent /\ (HasLocalMutations(q, d) \/ c[d].committed)
  BY DEF Mutated
<1>0. Applied(v, applied, c, q, keys, current)
  BY AppliedView
<1>3. view.mutated \subseteq Doc /\ applied \subseteq changes
      /\ (d \in changes /\ d \notin applied => ~Applies(c, q, d))
  BY DEF View, AppliedTo
<1> HIDE DEF v, applied
<1>1. v.docs = [x \in Doc |-> IF x \in applied THEN Local(c, q, x) ELSE view.docs[x]]
  BY <1>0 DEF Applied
<1>2. v.mutated = (view.mutated \ applied)
            \cup {x \in applied : v.docs[x] # Absent /\ HasLocalMutations(q, x)}
  BY <1>0 DEF Applied
<1>4. CASE d \in applied
  BY <1>2, <1>4
<1>5. CASE d \notin applied
  <2>1. d \in view.mutated /\ d \in Doc /\ v.docs[d] = view.docs[d]
    BY <1>1, <1>2, <1>3, <1>5
  <2>2. view.docs[d] # Absent /\ (HasLocalMutations(queue, d) \/ cache[d].committed)
    BY <2>1 DEF Mutated
  <2>3. CASE d \notin changes
    BY <2>1, <2>2, <2>3 DEF SameElsewhere
  <2>4. CASE d \in changes
    <3>1. ~Applies(c, q, d)
      BY <1>3, <1>5, <2>4
    <3>2. HasLocalMutations(q, d) \/ c[d].committed
      BY <2>1, <2>2, <3>1 DEF Applies, ShouldWaitForSyncedDocument
    <3> QED BY <2>1, <2>2, <3>2
  <2> QED BY <2>3, <2>4
<1> QED BY <1>4, <1>5

LEMMA ApplySettled ==
    ASSUME NEW changes \in SUBSET Doc, NEW c, NEW q, NEW keys, NEW current
    PROVE  Settled(ApplyChanges(changes, c, q, keys, current), keys)
<1> DEFINE v == ApplyChanges(changes, c, q, keys, current)
<1>1. Applied(v, AppliedTo(changes, c, q), c, q, keys, current)
  BY AppliedView
<1> HIDE DEF v
<1>2. Settled(v, keys)
  BY <1>1 DEF Settled, Applied
<1> QED BY <1>2 DEF v

LEMMA NewViewSettled ==
    ASSUME NEW c, NEW q, NEW keys
    PROVE  Settled(NewView, keys) /\ Mutated(NewView, c, q)
BY DEF NewView, Settled, Mutated

\* What a step that tells the view a piece of news leaves of it.
LEMMA EmitView ==
    ASSUME view \in View, listening \in BOOLEAN, ShownInv, ViewInv,
           NEW changes \in SUBSET Doc, NEW c, NEW q, NEW keys, NEW current, NEW ms,
           SameElsewhere(changes, c, q),
           EmitNewSnapshots(changes, c, q, keys, current, ms)
    PROVE  /\ listening' => \A d \in Doc : Shows(view', c, q, d)
           /\ ~listening' => view' = NewView
           /\ Settled(view', keys)
           /\ Mutated(view', c, q)
<1> DEFINE v == ApplyChanges(changes, c, q, keys, current)
<1>1. CASE listening
  <2>1. view' = v /\ listening'
    BY <1>1 DEF EmitNewSnapshots
  <2>2. \A d \in Doc : Shows(v, c, q, d)
    BY <1>1, ApplyShows DEF ShownInv
  <2>3. Settled(v, keys)
    BY ApplySettled
  <2>4. Mutated(v, c, q)
    BY ApplyMutated DEF ViewInv
  <2> HIDE DEF v
  <2> QED BY <2>1, <2>2, <2>3, <2>4
<1>2. CASE ~listening
  <2>1. view' = view /\ listening' = listening
    BY <1>2 DEF EmitNewSnapshots, shown
  <2>2. view' = NewView
    BY <1>2, <2>1 DEF ViewInv
  <2> QED BY <1>2, <2>1, <2>2, NewViewSettled
<1> QED BY <1>1, <1>2

\* Writes change nothing but their documents.
LEMMA AppendElsewhere ==
    ASSUME queue \in Seq(Batch), NEW b \in Batch
    PROVE  SameElsewhere({b.doc}, cache, Append(queue, b))
<1> SUFFICES ASSUME NEW d \in Doc, d # b.doc
             PROVE  /\ Local(cache, Append(queue, b), d) = Local(cache, queue, d)
                    /\ HasLocalMutations(Append(queue, b), d) <=> HasLocalMutations(queue, d)
  BY DEF SameElsewhere
<1>1. /\ Pending(Append(queue, b), d) = {} <=> Pending(queue, d) = {}
      /\ Pending(queue, d) # {} => Overlay(Append(queue, b), d) = Overlay(queue, d)
  BY PendingOfAppend
<1> QED BY <1>1 DEF Local, HasLocalMutations

LEMMA TailElsewhere ==
    ASSUME queue \in Seq(Batch), queue # <<>>, NEW c,
           \A d \in Doc : d # Head(queue).doc => c[d] = cache[d]
    PROVE  SameElsewhere({Head(queue).doc}, c, Tail(queue))
<1> SUFFICES ASSUME NEW d \in Doc, d # Head(queue).doc
             PROVE  /\ Local(c, Tail(queue), d) = Local(cache, queue, d)
                    /\ HasLocalMutations(Tail(queue), d) <=> HasLocalMutations(queue, d)
  BY DEF SameElsewhere
<1>1. /\ Pending(Tail(queue), d) = {} <=> Pending(queue, d) = {}
      /\ Pending(queue, d) # {} => Overlay(Tail(queue), d) = Overlay(queue, d)
  BY PendingOfTail
<1> QED BY <1>1 DEF Local, HasLocalMutations

\* What of the view and of what it shows holds after a step.
NewsShown ==
    /\ listening' => \A d \in Doc : Shows(view', cache', queue', d)
    /\ ~listening' => view' = NewView
    /\ Settled(view', remoteKeys')
    /\ Mutated(view', cache', queue')

LEMMA NewsOfWrites ==
    ASSUME TypeInv, ShownInv, ViewInv, WriteStep
    PROVE  NewsShown
<1>0. view \in View /\ listening \in BOOLEAN /\ queue \in Seq(Batch) /\ Len(queue) \in Nat
  BY Typed
<1>1. CASE WriteMutations
  <2>1. PICK b \in Batch :
            /\ queue' = Append(queue, b)
            /\ EmitNewSnapshots({b.doc}, cache, queue', remoteKeys, view.current, toClient)
    BY <1>1 DEF WriteMutations
  <2>2. cache' = cache /\ remoteKeys' = remoteKeys
    BY <1>1 DEF WriteMutations
  <2>3. SameElsewhere({b.doc}, cache, queue')
    BY <1>0, <2>1, AppendElsewhere
  <2>4. {b.doc} \in SUBSET Doc
    BY DEF Batch
  <2> DEFINE ch == {b.doc}
  <2>5. /\ ch \in SUBSET Doc /\ SameElsewhere(ch, cache', queue')
        /\ EmitNewSnapshots(ch, cache', queue', remoteKeys', view.current, toClient)
    BY <2>1, <2>2, <2>3, <2>4
  <2> HIDE DEF ch
  <2> QED BY <1>0, <2>5, EmitView DEF NewsShown
<1>2. CASE WriteAcknowledged \/ WriteRejected
  <2> DEFINE ch == {Head(queue).doc}
  <2>1. queue # <<>>
    <3>1. acks # <<>> => Len(acks) # 0
      BY Typed
    <3>2. Len(acks) <= Len(queue) /\ Len(acks) \in Nat
      BY Typed DEF TypeInv
    <3>3. queue = <<>> => Len(queue) = 0
      OBVIOUS
    <3> QED BY <1>2, <3>1, <3>2, <3>3 DEF WriteAcknowledged, WriteRejected
  <2>2. /\ queue' = Tail(queue) /\ remoteKeys' = remoteKeys
        /\ EmitNewSnapshots(ch, cache', queue', remoteKeys, view.current, toClient)
    BY <1>2 DEF WriteAcknowledged, WriteRejected
  <2>3. Head(queue) \in Batch
    BY <1>0, <2>1, TailElements
  <2>4. \A d \in Doc : d # Head(queue).doc => cache'[d] = cache[d]
    <3> DEFINE b == Head(queue)
               e == [version |-> Head(acks), value |-> b.value, committed |-> TRUE]
    <3>1. cache' = cache \/ cache' = [cache EXCEPT ![b.doc] = e]
      BY <1>2 DEF WriteAcknowledged, WriteRejected
    <3>2. cache \in [Doc -> Entry]
      BY DEF TypeInv, TypeOK
    <3> HIDE DEF b, e
    <3>3. \A d \in Doc : d # b.doc => cache'[d] = cache[d]
      BY <3>1, <3>2
    <3> QED BY <3>3 DEF b
  <2>5. SameElsewhere(ch, cache', queue')
    BY <1>0, <2>1, <2>2, <2>4, TailElsewhere
  <2>6. ch \in SUBSET Doc
    BY <2>3 DEF Batch
  <2> HIDE DEF ch
  <2>7. EmitNewSnapshots(ch, cache', queue', remoteKeys', view.current, toClient)
    BY <2>2
  <2> QED BY <1>0, <2>5, <2>6, <2>7, EmitView DEF NewsShown
<1> QED BY <1>1, <1>2 DEF WriteStep

LEMMA NewsOfWatch ==
    ASSUME TypeInv, ShownInv, ViewInv, RaiseWatchSnapshot
    PROVE  NewsShown
<1> DEFINE m == Head(toClient)
           updates == {d \in m.docs \cup m.limbo : IsUpdate(cache[d], Told(m.version, d))}
           tail == Tail(toClient)
<1>0. view \in View /\ listening \in BOOLEAN /\ queue \in Seq(Batch) /\ toClient \in Seq(Message)
  BY Typed
<1>1. /\ toClient # <<>> /\ m.type = "snapshot" /\ queue' = queue
      /\ cache' = [d \in Doc |-> IF d \in updates THEN Told(m.version, d) ELSE cache[d]]
      /\ EmitNewSnapshots(updates, cache', queue, remoteKeys', TRUE, tail)
  BY DEF RaiseWatchSnapshot, Reading
<1>2. m \in Message
  BY <1>0, <1>1, TailElements
<1>3. m.docs \subseteq Doc /\ m.limbo \subseteq Doc
  BY <1>1, <1>2, MessageFields
<1>4. updates \in SUBSET Doc
  BY <1>3
<1> HIDE DEF m, updates, tail
<1>5. SameElsewhere(updates, cache', queue')
  <2>1. \A d \in Doc \ updates : cache'[d] = cache[d]
    BY <1>1
  <2> QED BY <1>1, <2>1 DEF SameElsewhere, Local
<1>6. EmitNewSnapshots(updates, cache', queue', remoteKeys', TRUE, tail)
  BY <1>1
<1> QED BY <1>0, <1>4, <1>5, <1>6, EmitView DEF NewsShown

\* The view is told that the client is offline.
LEMMA NewsOfState ==
    ASSUME TypeInv, ShownInv, ViewInv, UNCHANGED <<cache, queue, remoteKeys>>,
           NEW o, Broadcast(o)
    PROVE  NewsShown
<1>1. view \in View /\ listening \in BOOLEAN
  BY Typed
<1>2. /\ listening => \A d \in Doc : Shows(view, cache', queue', d)
      /\ ~listening => view = NewView
      /\ Settled(view, remoteKeys') /\ Mutated(view, cache', queue')
  BY DEF ShownInv, ViewInv
<1>3. CASE UNCHANGED shown
  BY <1>2, <1>3 DEF NewsShown, shown
<1>4. CASE ~UNCHANGED shown
  <2> DEFINE v == [view EXCEPT !.current = FALSE,
                               !.synced = IF view.current THEN FALSE ELSE @]
  <2>1. view' = v /\ listening' = listening /\ listening
    BY <1>4 DEF Broadcast
  <2>2. /\ v.docs = view.docs /\ v.mutated = view.mutated /\ v.current = FALSE
        /\ v.synced = IF view.current THEN FALSE ELSE view.synced
    BY <1>1 DEF View
  <2> HIDE DEF v
  <2>3. \A d \in Doc : Shows(v, cache', queue', d)
    BY <1>2, <2>1, <2>2 DEF Shows
  <2>4. Settled(v, remoteKeys') /\ Mutated(v, cache', queue')
    BY <1>2, <2>2 DEF Settled, Mutated
  <2> QED BY <2>1, <2>3, <2>4 DEF NewsShown
<1> QED BY <1>3, <1>4

LEMMA NextNews ==
    ASSUME TypeInv, ShownInv, ViewInv, [Next]_vars
    PROVE  NewsShown
<1>0. view \in View /\ listening \in BOOLEAN
  BY Typed
<1>1. CASE UNCHANGED <<listening, view, cache, queue, remoteKeys>>
  BY <1>1 DEF NewsShown, ShownInv, ViewInv
<1>2. CASE AddQueryListener
  <2>1. UNCHANGED <<cache, queue, remoteKeys>>
    BY <1>2 DEF AddQueryListener, disk
  <2>2. CASE listening
    <3>1. UNCHANGED <<listening, view>>
      BY <1>2, <2>2 DEF AddQueryListener
    <3> QED BY <1>1, <2>1, <3>1
  <2>3. CASE ~listening
    <3> DEFINE docs == [d \in Doc |-> Local(cache, queue, d)]
               mutated == {d \in Doc : docs[d] # Absent /\ HasLocalMutations(queue, d)}
               v == [NewView EXCEPT !.docs = docs, !.mutated = mutated]
    <3>1. listening' = TRUE /\ view' = v
      BY <1>2, <2>3 DEF AddQueryListener, InitialView
    <3>2. /\ v.docs = docs /\ v.mutated = mutated /\ v.current = FALSE /\ v.synced = FALSE
      BY DEF NewView
    <3> HIDE DEF v
    <3>3. \A d \in Doc : Shows(v, cache, queue, d)
      BY <3>2 DEF Shows
    <3>4. Settled(v, remoteKeys) /\ Mutated(v, cache, queue)
      BY <3>2 DEF Settled, Mutated
    <3> QED BY <2>1, <3>1, <3>3, <3>4 DEF NewsShown
  <2> QED BY <1>0, <2>2, <2>3
<1>3. CASE TimerFires
  <2>1. UNCHANGED <<cache, queue, remoteKeys>> /\ Broadcast("Offline")
    BY <1>3 DEF TimerFires, disk
  <2> QED BY <2>1, NewsOfState
<1>4. CASE WatchStreamFails
  <2>1. UNCHANGED <<cache, queue, remoteKeys>> /\ (UNCHANGED shown \/ Broadcast("Offline"))
    BY <1>4 DEF WatchStreamFails, disk
  <2>2. CASE UNCHANGED shown
    BY <1>1, <2>1, <2>2 DEF shown
  <2>3. CASE Broadcast("Offline")
    BY <2>1, <2>3, NewsOfState
  <2> QED BY <2>1, <2>2, <2>3
<1>5. CASE TargetRefused \/ Relaunch
  <2>1. listening' = FALSE /\ view' = NewView
    BY <1>5 DEF TargetRefused, Relaunch
  <2> QED BY <2>1, NewViewSettled DEF NewsShown
<1>6. CASE RestartNetwork \/ WriteStreamFails \/ WatchStreamOpens \/ TargetAdded
  BY <1>1, <1>6 DEF RestartNetwork, WriteStreamFails, WatchStreamOpens, TargetAdded, shown, disk
<1>7. CASE \/ ServerCommits \/ RemoteWrite \/ ServerAdds \/ ServerRefuses \/ ServerSnapshot
           \/ UNCHANGED vars
  BY <1>1, <1>7 DEF ServerCommits, RemoteWrite, ServerAdds, ServerRefuses, ServerSnapshot,
                    vars, shown, disk
<1> QED BY <1>2, <1>3, <1>4, <1>5, <1>6, <1>7, NewsOfWrites, NewsOfWatch
        DEF Next, Worker, Backend, WriteStep

LEMMA NextShown ==
    ASSUME TypeInv, ShownInv, ViewInv, [Next]_vars
    PROVE  ShownInv' /\ ViewInv'
BY NextNews DEF NewsShown, ShownInv, ViewInv

\* All that holds of the cache and of what is shown of it.
ListenInv == DataInv /\ KeysInv /\ ShownInv /\ ViewInv

LEMMA InitListen == Init => ListenInv
<1> SUFFICES ASSUME Init
             PROVE  ListenInv
  OBVIOUS
<1>1. DataInv
  BY InitData
<1>2. KeysInv
  <2>1. \A d \in Doc : ValueIn(log, 0, d) = Absent
    <3>1. \A d \in Doc : VersionIn(log, 0, d) = 0
      <4>1. 0 \in Nat
        OBVIOUS
      <4>2. \A d \in Doc : VersionIn(log, 0, d) \in 0 .. 0
        BY <4>1, VersionFacts
      <4> QED BY <4>2
    <3> QED BY <3>1 DEF ValueIn
  <2>2. remoteKeys = {} /\ snapshot = 0
    BY DEF Init
  <2> QED BY <2>1, <2>2 DEF KeysInv, Keys
<1>3. ShownInv /\ ViewInv
  BY NewViewSettled DEF Init, ShownInv, ViewInv
<1> QED BY <1>1, <1>2, <1>3 DEF ListenInv

LEMMA NextListen == ListenInv /\ [Next]_vars => ListenInv'
<1> SUFFICES ASSUME ListenInv, [Next]_vars
             PROVE  ListenInv'
  OBVIOUS
<1>1. DataInv' /\ KeysInv'
  BY NextData, NextKeys DEF ListenInv
<1>2. ShownInv' /\ ViewInv'
  BY NextShown DEF ListenInv, DataInv, WatchInv
<1> QED BY <1>1, <1>2 DEF ListenInv

LEMMA AlwaysListen == Spec => []ListenInv
BY InitListen, NextListen, PTL DEF Spec

\* A view that was changed by one piece of news after the other is what a new
\* one would be: every document as last written here, or as the cache has it,
\* but for one whose acknowledged write waits for watch.
THEOREM ViewShowsLocal == Spec => []ViewIsLocal
<1>1. ListenInv => ViewIsLocal
  <2> SUFFICES ASSUME ListenInv, listening, NEW d \in Doc
               PROVE  \/ \E i \in Pending(queue, d) :
                           /\ \A j \in Pending(queue, d) : j <= i
                           /\ view.docs[d] = queue[i].value
                      \/ Pending(queue, d) = {} /\ view.docs[d] = cache[d].value
                      \/ ShouldWaitForSyncedDocument(cache, queue, d)
    BY DEF ViewIsLocal
  <2>1. \/ view.docs[d] = Local(cache, queue, d)
        \/ ShouldWaitForSyncedDocument(cache, queue, d)
    BY DEF ListenInv, ShownInv, Shows, ShouldWaitForSyncedDocument
  <2>2. CASE Pending(queue, d) = {}
    BY <2>1, <2>2 DEF Local
  <2>3. CASE Pending(queue, d) # {}
    <3>1. queue \in Seq(Batch)
      BY Typed DEF ListenInv, DataInv, WatchInv
    <3>2. PICK i \in DOMAIN queue :
              LastPending(queue, d, i) /\ Overlay(queue, d) = queue[i].value
      BY <2>3, <3>1, LastPendingExists
    <3>3. Local(cache, queue, d) = queue[i].value
      BY <2>3, <3>2 DEF Local
    <3> QED BY <2>1, <3>2, <3>3 DEF LastPending
  <2> QED BY <2>2, <2>3
<1> QED BY AlwaysListen, <1>1, PTL

\* The later of two versions.
LEMMA LaterOfTwo ==
    ASSUME NEW a \in Nat, NEW b \in Nat
    PROVE  Max({a, b}) = IF a >= b THEN a ELSE b
<1> DEFINE S == {a, b}
<1>1. /\ S \in SUBSET Nat /\ S # {} /\ (IF a >= b THEN a ELSE b) \in Nat
      /\ \A x \in S : x <= (IF a >= b THEN a ELSE b)
  OBVIOUS
<1>2. Max(S) \in S /\ \A x \in S : x <= Max(S)
  <2> DEFINE g == IF a >= b THEN a ELSE b
  <2>1. g \in Nat /\ \A x \in S : x <= g
    BY <1>1
  <2> HIDE DEF S, g
  <2> QED BY <1>1, <2>1, GreatestOfBounded
<1> QED BY <1>2

\* A document in the cache is the snapshot's, unless a later write of this
\* client made it.
LEMMA CachedIsServer ==
    ASSUME ListenInv, view.synced, NEW d \in Doc, ~HasLocalMutations(queue, d),
           ~Unconfirmed(d), cache[d].version < snapshot
    PROVE  cache[d].value = ValueIn(log, snapshot, d)
<1>1. TypeInv /\ CacheInv /\ KeysInv /\ ShownInv /\ ViewInv
  BY DEF ListenInv, DataInv, WatchInv
<1>2. snapshot \in Nat /\ cache[d].version \in Nat
  <2>1. snapshot \in 0 .. Len(log) /\ Len(log) \in Nat /\ cache[d].version \in 0 .. Len(log)
    BY <1>1, Typed, EntryFields DEF TypeInv, TypeOK
  <2> QED BY <2>1
<1>3. listening
  BY <1>1 DEF ViewInv, NewView
<1>4. view.docs[d] = cache[d].value
  BY <1>1, <1>3 DEF ShownInv, Shows, Unconfirmed, ShouldWaitForSyncedDocument, Local,
                    HasLocalMutations
<1>5. CASE d \in remoteKeys
  <2>1. VersionIn(log, snapshot, d) <= cache[d].version /\ VersionIn(log, snapshot, d) \in 0 .. snapshot
    BY <1>1, <1>2, <1>5, VersionFacts DEF KeysInv
  <2>2. cache[d].version \in VersionIn(log, snapshot, d) .. snapshot
    BY <1>2, <2>1
  <2>3. ValueIn(log, cache[d].version, d) = ValueIn(log, snapshot, d)
    BY <1>2, <2>2, VersionBetween
  <2> QED BY <1>1, <2>3 DEF CacheInv
<1>6. CASE d \notin remoteKeys
  <2>1. ValueIn(log, snapshot, d) = Absent
    BY <1>1, <1>6 DEF KeysInv, Keys
  <2>2. view.limbo = {} /\ view.limbo = Limbo(view.docs, view.mutated, remoteKeys)
    BY <1>1 DEF ViewInv, Settled
  <2>3. d \in view.mutated => Unconfirmed(d)
    BY <1>1 DEF ViewInv, Mutated, Unconfirmed, ShouldWaitForSyncedDocument
  <2>4. view.docs[d] = Absent
    BY <1>6, <2>2, <2>3 DEF Limbo
  <2> QED BY <1>4, <2>1, <2>4
<1> QED BY <1>5, <1>6

\* What is not said to come from the cache is what the backend had at the
\* version of the last snapshot, or of a later write of this client, with the
\* pending writes over it.
THEOREM SyncedShowsServer == Spec => []SyncedIsServer
<1>1. ListenInv => SyncedIsServer
  <2> SUFFICES ASSUME ListenInv, view.synced, NEW d \in Doc,
                      ~HasLocalMutations(queue, d), ~Unconfirmed(d)
               PROVE  view.docs[d] = At(Max({snapshot, cache[d].version}), d)
    BY DEF SyncedIsServer
  <2>1. TypeInv /\ CacheInv /\ ShownInv /\ ViewInv
    BY DEF ListenInv, DataInv, WatchInv
  <2>2. snapshot \in Nat /\ cache[d].version \in Nat
    <3>1. snapshot \in 0 .. Len(log) /\ Len(log) \in Nat /\ cache[d].version \in 0 .. Len(log)
      BY <2>1, Typed, EntryFields DEF TypeInv, TypeOK
    <3> QED BY <3>1
  <2>3. view.docs[d] = cache[d].value
    <3>1. listening
      BY <2>1 DEF ViewInv, NewView
    <3> QED BY <2>1, <3>1 DEF ShownInv, Shows, Unconfirmed, ShouldWaitForSyncedDocument,
                              Local, HasLocalMutations
  <2> DEFINE x == Max({snapshot, cache[d].version})
  <2>4. x = IF snapshot >= cache[d].version THEN snapshot ELSE cache[d].version
    BY <2>2, LaterOfTwo
  <2>5. At(x, d) = ValueIn(log, x, d)
    BY OfThisLog
  <2> HIDE DEF x
  <2>6. cache[d].value = ValueIn(log, x, d)
    <3>1. CASE x = cache[d].version
      BY <2>1, <3>1 DEF CacheInv
    <3>2. CASE x # cache[d].version
      <4>1. x = snapshot /\ cache[d].version < snapshot
        BY <2>2, <2>4, <3>2
      <4> QED BY <4>1, CachedIsServer
    <3> QED BY <3>1, <3>2
  <2> QED BY <2>3, <2>5, <2>6 DEF x
<1> QED BY AlwaysListen, <1>1, PTL

=============================================================================

-------------------------- MODULE SavedStopsProofs --------------------------
(***************************************************************************)
(* What holds of SavedStops for every finite set of documents, every bound *)
(* and every set of contents of the arrival-times documents.               *)
(***************************************************************************)
EXTENDS SavedStops, ListLemmas, FiniteSetTheorems, WellFoundedInduction

USE DEF listeners

-----------------------------------------------------------------------------
(* The inductive invariant.  TypeOK is not inductive as it stands: that a  *)
(* snapshot names no unknown document depends on what is queued before it. *)

\* blocks and calls that name no stop outside U
KnownBlocks(U) == {b \in Block : b.kind = "stops" => b.docs \subseteq U}
KnownCalls(U)  == {c \in Call : c.op = "setStop" => c.doc \in U}

IInv ==
    /\ TypeOK
    /\ mainQueue \in Seq(KnownBlocks(used))
    /\ fsQueue \in Seq(KnownCalls(used))
    /\ ToSet(finalTableArray) \subseteq used \ partial
    /\ NoDuplicateRows

-----------------------------------------------------------------------------
(* Blocks and calls. *)

\* every block that is posted is one, and names only known stops
LEMMA PostedBlocks ==
    ASSUME NEW U \in SUBSET Doc
    PROVE  /\ \A S \in SUBSET U : StopsBlock(S) \in KnownBlocks(U)
           /\ ErrorBlock \in KnownBlocks(U)
           /\ ReloadBlock \in KnownBlocks(U)
           /\ \A d \in Doc, r \in Content : TimesBlock(d, r) \in KnownBlocks(U)
           /\ \A d \in Doc, r \in Content : AppendBlock(d, r) \in KnownBlocks(U)
           /\ \A d \in Doc, t \in Seq(Reading) : FetchedBlock(d, t) \in KnownBlocks(U)
BY DEF KnownBlocks, Block, StopsBlock, ErrorBlock, ReloadBlock, TimesBlock, AppendBlock,
       FetchedBlock

\* every call that is queued is one, and writes only known stops
LEMMA QueuedCalls ==
    ASSUME NEW U \in SUBSET Doc
    PROVE  /\ ListenStops \in KnownCalls(U)
           /\ \A d \in Doc : ListenTimes(d) \in KnownCalls(U)
           /\ \A d \in U : SetStop(d) \in KnownCalls(U)
           /\ \A d \in Doc : DeleteStop(d) \in KnownCalls(U)
           /\ \A d \in Doc, r \in Content : WriteTimes(d, r) \in KnownCalls(U)
BY DEF KnownCalls, Call, ListenStops, ListenTimes, SetStop, DeleteStop, WriteTimes

\* what a handler finds in a block of its kind
LEMMA BlockFields ==
    ASSUME NEW U, NEW b \in KnownBlocks(U)
    PROVE  /\ b.kind = "stops" => b.docs \in SUBSET Doc /\ b.docs \subseteq U
           /\ b.kind \in {"times", "append"} => b.doc \in Doc /\ b.reading \in Content
           /\ b.kind = "fetched" => b.doc \in Doc /\ b.trains \in Seq(Reading)
BY DEF KnownBlocks, Block

\* what the worker finds in a call of a kind
LEMMA CallFields ==
    ASSUME NEW U, NEW c \in KnownCalls(U)
    PROVE  /\ c.op \in {"listenTimes", "setStop", "deleteStop"} => c.doc \in Doc
           /\ c.op = "setStop" => c.doc \in U
           /\ c.op = "writeTimes" => c.doc \in Doc /\ c.reading \in Content
BY DEF KnownCalls, Call

\* a stop once known stays known
LEMMA KnownMonotonic ==
    ASSUME NEW U, NEW V, U \subseteq V
    PROVE  /\ Seq(KnownBlocks(U)) \subseteq Seq(KnownBlocks(V))
           /\ Seq(KnownCalls(U)) \subseteq Seq(KnownCalls(V))
<1>1. KnownBlocks(U) \subseteq KnownBlocks(V) /\ KnownCalls(U) \subseteq KnownCalls(V)
  BY DEF KnownBlocks, KnownCalls
<1> QED BY <1>1, SeqMonotonic

LEMMA KnownAreTyped ==
    ASSUME NEW U
    PROVE  /\ Seq(KnownBlocks(U)) \subseteq Seq(Block)
           /\ Seq(KnownCalls(U)) \subseteq Seq(Call)
<1>1. KnownBlocks(U) \subseteq Block /\ KnownCalls(U) \subseteq Call
  BY DEF KnownBlocks, KnownCalls
<1> QED BY <1>1, SeqMonotonic

\* one block for each listener
LEMMA CopiesType ==
    ASSUME NEW T, NEW b \in T, NEW n \in Nat
    PROVE  Copies(n, b) \in Seq(T)
BY DEF Copies

\* The documents of a snapshot in order: each of them once.
LEMMA AscendingProperties ==
    ASSUME NEW S \in SUBSET Doc, NEW s \in Ascending(S)
    PROVE  /\ s \in Seq(S)
           /\ s \in Seq(Doc)
           /\ ToSet(s) = S
           /\ \A i, j \in DOMAIN s : s[i] = s[j] => i = j
<1>1. Cardinality(S) \in Nat
  BY DocAssumption, FS_Subset, FS_CardinalityType
<1>2. /\ s \in [1 .. Cardinality(S) -> S]
      /\ \A i, j \in DOMAIN s : i < j => s[i] < s[j]
      /\ \A d \in S : \E i \in DOMAIN s : s[i] = d
  BY DEF Ascending
<1>3. s \in Seq(S) /\ s \in Seq(Doc)
  BY <1>1, <1>2
<1>4. ToSet(s) = S
  BY <1>2 DEF ToSet
<1>5. ASSUME NEW i \in DOMAIN s, NEW j \in DOMAIN s, s[i] = s[j]
      PROVE  i = j
  <2> DEFINE n == Cardinality(S)
  <2>a. n \in Nat /\ i \in 1 .. n /\ j \in 1 .. n
    BY <1>1, <1>2
  <2> HIDE DEF n
  <2>b. s[i] \in S /\ s[j] \in S
    BY <1>2
  <2>1. i \in Nat /\ j \in Nat
    BY <2>a
  <2>2. s[i] \in Nat /\ s[j] \in Nat
    BY <2>b, DocAssumption
  <2>3. ~(s[i] < s[j]) /\ ~(s[j] < s[i])
    BY <1>5, <2>2
  <2>4. ~(i < j) /\ ~(j < i)
    BY <1>2, <2>3
  <2> QED BY <2>1, <2>4
<1> QED BY <1>3, <1>4, <1>5

-----------------------------------------------------------------------------
(* The main thread. *)

LEMMA InitInvariant == Init => IInv
<1> SUFFICES ASSUME Init PROVE IInv
  OBVIOUS
<1>1. TypeOK
  <2>1. <<ListenStops>> \in Seq(Call)
    BY DEF Call, ListenStops
  <2> QED BY <2>1 DEF Init, TypeOK, Content
<1>2. mainQueue \in Seq(KnownBlocks(used))
  BY DEF Init
<1>3. fsQueue \in Seq(KnownCalls(used))
  <2>1. ListenStops \in KnownCalls(used)
    BY QueuedCalls DEF Init
  <2> QED BY <2>1 DEF Init
<1>4. ToSet(finalTableArray) \subseteq used \ partial /\ NoDuplicateRows
  BY DEF Init, ToSet, NoDuplicateRows
<1> QED BY <1>1, <1>2, <1>3, <1>4 DEF IInv

\* A step that leaves the stops, the rows and the bounds alone keeps the
\* invariant as soon as it keeps the types of what it changes.
LEMMA QueuesKept ==
    ASSUME IInv,
           UNCHANGED <<used, partial, finalTableArray>>,
           docs' \subseteq used,
           arrivals' \in [Doc -> Content],
           stopsListeners' \in Nat,
           timesListeners' \in [Doc -> Nat],
           stopsAwaiting' \in Nat,
           timesAwaiting' \in [Doc -> Nat],
           mainQueue' \in Seq(KnownBlocks(used)),
           fsQueue' \in Seq(KnownCalls(used)),
           timeArray' \in Seq([doc : Doc, reading : Content]),
           shown' \in Seq(Doc),
           timers' \subseteq Doc,
           requests' \in [Doc -> Nat],
           ticks' \in Nat, launches' \in Nat,
           app' \in {"running", "trapped"}
    PROVE  IInv'
<1>1. mainQueue' \in Seq(KnownBlocks(used')) /\ fsQueue' \in Seq(KnownCalls(used'))
  OBVIOUS
<1>2. mainQueue' \in Seq(Block) /\ fsQueue' \in Seq(Call)
  BY KnownAreTyped
<1>3. TypeOK'
  BY <1>2 DEF IInv, TypeOK
<1>4. (ToSet(finalTableArray) \subseteq used \ partial)' /\ NoDuplicateRows'
  BY DEF IInv, ToSet, NoDuplicateRows
<1>5. (mainQueue \in Seq(KnownBlocks(used)))' /\ (fsQueue \in Seq(KnownCalls(used)))'
  BY <1>1 DEF KnownBlocks, KnownCalls, Block, Call, Content
<1> QED BY <1>3, <1>4, <1>5 DEF IInv

\* the head and the tail of the main queue while a block of a kind runs
LEMMA RunningBlock ==
    ASSUME IInv, NEW kind, Running(kind)
    PROVE  /\ Head(mainQueue) \in KnownBlocks(used)
           /\ Head(mainQueue).kind = kind
           /\ Tail(mainQueue) \in Seq(KnownBlocks(used))
BY HeadTailProperties DEF IInv, Running

LEMMA SavedStopsErrorStep == IInv /\ SavedStopsError => IInv'
<1> SUFFICES ASSUME IInv, SavedStopsError PROVE IInv'
  OBVIOUS
<1>1. Running("error")
  BY DEF SavedStopsError
<1>2. Tail(mainQueue) \in Seq(KnownBlocks(used))
  BY <1>1, RunningBlock
<1>3. Tail(mainQueue) \in Seq(Block)
  BY <1>2, KnownAreTyped
<1>4. TypeOK'
  BY <1>3 DEF IInv, TypeOK, SavedStopsError, stored, client, network, counters
<1>5. (mainQueue \in Seq(KnownBlocks(used)))' /\ (fsQueue \in Seq(KnownCalls(used)))'
  BY <1>2 DEF IInv, SavedStopsError, stored, client
<1>6. (ToSet(finalTableArray) \subseteq used \ partial)' /\ NoDuplicateRows'
  BY DEF SavedStopsError, ToSet, NoDuplicateRows
<1> QED BY <1>4, <1>5, <1>6 DEF IInv

LEMMA TimesSnapshotStep == IInv /\ TimesSnapshot => IInv'
<1> SUFFICES ASSUME IInv, TimesSnapshot PROVE IInv'
  OBVIOUS
<1> DEFINE b == Head(mainQueue)
<1>1. b \in KnownBlocks(used) /\ b.kind = "times" /\ Tail(mainQueue) \in Seq(KnownBlocks(used))
  BY RunningBlock DEF TimesSnapshot, TimesPosted
<1>2. AppendBlock(b.doc, b.reading) \in KnownBlocks(used)
  BY <1>1, BlockFields, PostedBlocks DEF IInv, TypeOK
<1>3. mainQueue' \in Seq(KnownBlocks(used))
  BY <1>1, <1>2, AppendProperties DEF TimesSnapshot, TimesPosted
<1> QED BY <1>3, QueuesKept
        DEF IInv, TypeOK, TimesSnapshot, stored, client, network, counters

LEMMA AppendTimesStep == IInv /\ AppendTimes => IInv'
<1> SUFFICES ASSUME IInv, AppendTimes PROVE IInv'
  OBVIOUS
<1> DEFINE b == Head(mainQueue)
<1>1. b \in KnownBlocks(used) /\ b.kind = "append" /\ Tail(mainQueue) \in Seq(KnownBlocks(used))
  BY RunningBlock DEF AppendTimes
<1>2. b.doc \in Doc /\ b.reading \in Content
  BY <1>1, BlockFields
<1>3. timeArray' \in Seq([doc : Doc, reading : Content])
  BY <1>2, AppendProperties DEF AppendTimes, IInv, TypeOK
<1> QED BY <1>1, <1>3, QueuesKept
        DEF IInv, TypeOK, AppendTimes, stored, client, network, counters

LEMMA ReloadDataStep == IInv /\ ReloadData => IInv'
<1> SUFFICES ASSUME IInv, ReloadData PROVE IInv'
  OBVIOUS
<1>1. Tail(mainQueue) \in Seq(KnownBlocks(used))
  BY RunningBlock DEF ReloadData
<1> QED BY <1>1, QueuesKept
        DEF IInv, TypeOK, ReloadData, stored, client, network, counters

LEMMA TrainTimesStep == IInv /\ TrainTimes => IInv'
<1> SUFFICES ASSUME IInv, TrainTimes PROVE IInv'
  OBVIOUS
<1> DEFINE b == Head(mainQueue)
           writes == [i \in DOMAIN b.trains |-> WriteTimes(b.doc, b.trains[i])]
<1>1. b \in KnownBlocks(used) /\ b.kind = "fetched" /\ Tail(mainQueue) \in Seq(KnownBlocks(used))
  BY RunningBlock DEF TrainTimes
<1>2. b.doc \in Doc /\ b.trains \in Seq(Reading)
  BY <1>1, BlockFields
<1>3. \A i \in DOMAIN b.trains : WriteTimes(b.doc, b.trains[i]) \in KnownCalls(used)
  <2> SUFFICES ASSUME NEW i \in DOMAIN b.trains
               PROVE  WriteTimes(b.doc, b.trains[i]) \in KnownCalls(used)
    OBVIOUS
  <2>1. b.trains[i] \in Content
    BY <1>2 DEF Content
  <2> QED BY <1>2, <2>1, QueuedCalls DEF IInv, TypeOK
<1>4. writes \in Seq(KnownCalls(used))
  BY <1>2, <1>3
<1>5. fsQueue' = fsQueue \o writes
  BY DEF TrainTimes
<1> HIDE DEF writes
<1>6. fsQueue' \in Seq(KnownCalls(used))
  BY <1>4, <1>5, ConcatProperties DEF IInv
<1> QED BY <1>1, <1>6, QueuesKept
        DEF IInv, TypeOK, TrainTimes, stored, network, counters

LEMMA SavedStopsSnapshotStep == IInv /\ SavedStopsSnapshot => IInv'
<1> SUFFICES ASSUME IInv, SavedStopsSnapshot PROVE IInv'
  OBVIOUS
<1> DEFINE S == Head(mainQueue).docs
<1>1. Running("stops")
  BY DEF SavedStopsSnapshot
<1>2. S \in SUBSET Doc /\ S \subseteq used /\ Tail(mainQueue) \in Seq(KnownBlocks(used))
  BY <1>1, RunningBlock, BlockFields
<1> HIDE DEF S
<1>3. Rows(S) \in SUBSET Doc /\ Rows(S) \subseteq used \ partial /\ Reached(S) \in SUBSET Doc
  BY <1>2 DEF Rows, Reached
<1>4. finalTableArray' \in Ascending(Rows(S))
  BY DEF SavedStopsSnapshot, Table, S
<1>5. /\ finalTableArray' \in Seq(Doc)
      /\ ToSet(finalTableArray') = Rows(S)
      /\ \A i, j \in DOMAIN finalTableArray' :
            finalTableArray'[i] = finalTableArray'[j] => i = j
  BY <1>3, <1>4, AscendingProperties
<1>6. mainQueue' \in Seq(KnownBlocks(used))
  <2>1. ReloadBlock \in KnownBlocks(used)
    BY PostedBlocks DEF IInv, TypeOK
  <2>2. ReloadAfter(S) \in Seq(KnownBlocks(used))
    BY <2>1 DEF ReloadAfter
  <2>3. mainQueue' = Tail(mainQueue) \o ReloadAfter(S)
    BY DEF SavedStopsSnapshot, S
  <2> QED BY <1>2, <2>2, <2>3, ConcatProperties
<1>7. fsQueue' \in Seq(KnownCalls(used))
  <2>1. PICK reached \in Ascending(Reached(S)) : fsQueue' = fsQueue \o TimesCalls(reached)
    BY DEF SavedStopsSnapshot, S
  <2>2. reached \in Seq(Doc)
    BY <1>3, AscendingProperties
  <2>3. \A d \in Doc : ListenTimes(d) \in KnownCalls(used)
    BY QueuedCalls DEF IInv, TypeOK
  <2>4. TimesCalls(reached) \in Seq(KnownCalls(used))
    BY <2>2, <2>3 DEF TimesCalls
  <2> QED BY <2>1, <2>4, ConcatProperties DEF IInv
<1>8. mainQueue' \in Seq(Block) /\ fsQueue' \in Seq(Call)
  BY <1>6, <1>7, KnownAreTyped
<1>9. UpdateTubeTimes(Rows(S))
  BY DEF SavedStopsSnapshot, S
<1>10. timers' \subseteq Doc /\ requests' \in [Doc -> Nat]
  BY <1>3, <1>9 DEF UpdateTubeTimes, IInv, TypeOK
<1>11. TypeOK'
  BY <1>5, <1>8, <1>10 DEF IInv, TypeOK, SavedStopsSnapshot, stored, counters
<1>12. used' = used /\ partial' = partial
  BY DEF SavedStopsSnapshot, stored
<1>13. (ToSet(finalTableArray) \subseteq used \ partial)' /\ NoDuplicateRows'
  BY <1>3, <1>5, <1>12 DEF NoDuplicateRows, ToSet
<1>14. (mainQueue \in Seq(KnownBlocks(used)))' /\ (fsQueue \in Seq(KnownCalls(used)))'
  BY <1>6, <1>7, <1>12 DEF KnownBlocks, KnownCalls, Block, Call, Content
<1> QED BY <1>11, <1>13, <1>14 DEF IInv

-----------------------------------------------------------------------------
(* The user. *)

LEMMA AddStopStep == ASSUME IInv, NEW d \in Doc, AddStop(d) PROVE IInv'
<1>1. used \subseteq used' /\ used' \subseteq Doc /\ d \in used' /\ partial' \subseteq used'
  BY DEF AddStop, IInv, TypeOK
<1>2. mainQueue' \in Seq(KnownBlocks(used'))
  BY <1>1, KnownMonotonic DEF AddStop, IInv
<1>3. fsQueue' \in Seq(KnownCalls(used'))
  <2>1. fsQueue \in Seq(KnownCalls(used'))
    BY <1>1, KnownMonotonic DEF IInv
  <2>2. SetStop(d) \in KnownCalls(used') /\ ListenStops \in KnownCalls(used')
    BY <1>1, QueuedCalls
  <2>3. <<SetStop(d), ListenStops>> \in Seq(KnownCalls(used'))
    BY <2>2
  <2>4. fsQueue' = fsQueue \o <<SetStop(d), ListenStops>>
    BY DEF AddStop
  <2> QED BY <2>1, <2>3, <2>4, ConcatProperties
<1>4. mainQueue' \in Seq(Block) /\ fsQueue' \in Seq(Call)
  BY <1>2, <1>3, KnownAreTyped
<1>5. TypeOK'
  BY <1>1, <1>4 DEF IInv, TypeOK, AddStop, network, counters
<1>6. (ToSet(finalTableArray) \subseteq used \ partial)' /\ NoDuplicateRows'
  BY DEF AddStop, ToSet, NoDuplicateRows
<1>7. (mainQueue \in Seq(KnownBlocks(used)))' /\ (fsQueue \in Seq(KnownCalls(used)))'
  BY <1>2, <1>3 DEF KnownBlocks, KnownCalls, Block, Call, Content
<1> QED BY <1>5, <1>6, <1>7 DEF IInv

LEMMA HiddenContainerViewTappedStep ==
    ASSUME IInv, NEW i \in DOMAIN shown, HiddenContainerViewTapped(i)
    PROVE  IInv'
<1>1. CASE i \notin DOMAIN finalTableArray
  <2>1. UNCHANGED <<used, partial, docs, arrivals, listeners, fsQueue,
                    mainQueue, finalTableArray, timeArray, shown, timers, requests,
                    ticks, launches>>
    BY <1>1 DEF HiddenContainerViewTapped, stored, page, network, counters
  <2>2. app' = "trapped"
    BY <1>1 DEF HiddenContainerViewTapped
  <2> QED BY <2>1, <2>2, QueuesKept DEF IInv, TypeOK
<1>2. CASE i \in DOMAIN finalTableArray
  <2>1. /\ finalTableArray' = RemoveAt(finalTableArray, i)
        /\ fsQueue' = fsQueue \o DeleteCalls(DocAt(i))
        /\ \/ /\ Len(finalTableArray) = Len(shown)
              /\ shown' = RemoveAt(shown, i)
              /\ mainQueue' = Append(mainQueue, ReloadBlock)
              /\ app' = app
           \/ /\ app' = "trapped"
              /\ UNCHANGED <<shown, mainQueue>>
        /\ UNCHANGED <<used, partial, docs, arrivals, listeners,
                       timeArray, timers, requests, ticks, launches>>
    BY <1>2 DEF HiddenContainerViewTapped, stored, network, counters
  <2>2. finalTableArray \in Seq(Doc) /\ i \in 1 .. Len(finalTableArray)
    <3>1. finalTableArray \in Seq(Doc)
      BY DEF IInv, TypeOK
    <3> QED BY <1>2, <3>1, LenProperties
  <2>3. /\ finalTableArray' \in Seq(Doc)
        /\ ToSet(finalTableArray') \subseteq ToSet(finalTableArray)
        /\ Distinct(finalTableArray')
    <3>1. Distinct(finalTableArray)
      BY DEF IInv, NoDuplicateRows, Distinct
    <3>2. RemoveAt(finalTableArray, i) \in Seq(Doc)
      BY <2>2, RemoveAtProperties
    <3> QED BY <2>1, <2>2, <3>1, <3>2, RemoveKeepsRows
  <2>4. shown' \in Seq(Doc)
    <3>1. shown \in Seq(Doc) /\ i \in 1 .. Len(shown)
      BY DEF IInv, TypeOK
    <3>2. RemoveAt(shown, i) \in Seq(Doc)
      BY <3>1, RemoveAtProperties
    <3> QED BY <2>1, <3>1, <3>2
  <2>5. mainQueue' \in Seq(KnownBlocks(used))
    <3>1. ReloadBlock \in KnownBlocks(used)
      BY PostedBlocks DEF IInv, TypeOK
    <3>2. mainQueue \in Seq(KnownBlocks(used))
      BY DEF IInv
    <3>3. Append(mainQueue, ReloadBlock) \in Seq(KnownBlocks(used))
      BY <3>1, <3>2, AppendProperties
    <3> QED BY <2>1, <3>2, <3>3
  <2>6. fsQueue' \in Seq(KnownCalls(used))
    <3>1. DocAt(i) \in Doc /\ NoTimes \in Content
      BY <2>2 DEF DocAt, Content
    <3>2. DeleteStop(DocAt(i)) \in KnownCalls(used)
      BY <3>1, QueuedCalls DEF IInv, TypeOK
    <3>3. WriteTimes(DocAt(i), NoTimes) \in KnownCalls(used)
      BY <3>1, QueuedCalls DEF IInv, TypeOK
    <3>4. DeleteCalls(DocAt(i)) \in Seq(KnownCalls(used))
      BY <3>2, <3>3 DEF DeleteCalls
    <3> QED BY <2>1, <3>4, ConcatProperties DEF IInv
  <2>7. mainQueue' \in Seq(Block) /\ fsQueue' \in Seq(Call)
    BY <2>5, <2>6, KnownAreTyped
  <2>8. TypeOK'
    BY <2>1, <2>3, <2>4, <2>7 DEF IInv, TypeOK
  <2>9. (ToSet(finalTableArray) \subseteq used \ partial)' /\ NoDuplicateRows'
    BY <2>1, <2>3 DEF IInv, NoDuplicateRows, ToSet, Distinct
  <2>10. (mainQueue \in Seq(KnownBlocks(used)))' /\ (fsQueue \in Seq(KnownCalls(used)))'
    BY <2>1, <2>5, <2>6 DEF KnownBlocks, KnownCalls, Block, Call, Content
  <2> QED BY <2>8, <2>9, <2>10 DEF IInv
<1> QED BY <1>1, <1>2

\* A drag keeps the rows, each once.
LEMMA RowMoved ==
    ASSUME NEW T, NEW s \in Seq(T), NEW i \in 1 .. Len(s), NEW j \in 1 .. Len(s)
    PROVE  /\ Moved(s, i, j) \in Seq(T)
           /\ ToSet(Moved(s, i, j)) = ToSet(s)
           /\ Distinct(s) => Distinct(Moved(s, i, j))
BY MoveKeepsRows DEF Moved

LEMMA MoveItemAtStep ==
    ASSUME IInv, NEW i \in DOMAIN shown, NEW j \in DOMAIN shown, MoveItemAt(i, j)
    PROVE  IInv'
<1>1. UNCHANGED <<used, partial, docs, arrivals, listeners, fsQueue,
                  mainQueue, timers, requests, ticks, launches>>
  BY DEF MoveItemAt, stored, client, network, counters
<1>2. CASE {i, j} \subseteq DOMAIN finalTableArray \cap DOMAIN timeArray
  <2>1. /\ finalTableArray' = Moved(finalTableArray, i, j)
        /\ timeArray' = Moved(timeArray, i, j)
        /\ shown' = Moved(shown, i, j)
        /\ app' = app
    BY <1>2 DEF MoveItemAt
  <2>2. /\ finalTableArray' \in Seq(Doc)
        /\ ToSet(finalTableArray') = ToSet(finalTableArray)
        /\ Distinct(finalTableArray')
    <3>1. finalTableArray \in Seq(Doc) /\ Distinct(finalTableArray)
      BY DEF IInv, TypeOK, NoDuplicateRows, Distinct
    <3>2. i \in 1 .. Len(finalTableArray) /\ j \in 1 .. Len(finalTableArray)
      BY <1>2, <3>1
    <3> QED BY <2>1, <3>1, <3>2, RowMoved
  <2>3. timeArray' \in Seq([doc : Doc, reading : Content])
    <3>1. timeArray \in Seq([doc : Doc, reading : Content])
      BY DEF IInv, TypeOK
    <3>2. i \in 1 .. Len(timeArray) /\ j \in 1 .. Len(timeArray)
      BY <1>2, <3>1
    <3> QED BY <2>1, <3>1, <3>2, RowMoved
  <2>4. shown' \in Seq(Doc)
    <3>1. shown \in Seq(Doc)
      BY DEF IInv, TypeOK
    <3>2. i \in 1 .. Len(shown) /\ j \in 1 .. Len(shown)
      BY <3>1, LenProperties
    <3> QED BY <2>1, <3>1, <3>2, RowMoved
  <2>5. TypeOK'
    BY <1>1, <2>1, <2>2, <2>3, <2>4 DEF IInv, TypeOK
  <2>6. (ToSet(finalTableArray) \subseteq used \ partial)' /\ NoDuplicateRows'
    BY <1>1, <2>2 DEF IInv, NoDuplicateRows, ToSet, Distinct
  <2>7. (mainQueue \in Seq(KnownBlocks(used)))' /\ (fsQueue \in Seq(KnownCalls(used)))'
    BY <1>1 DEF IInv, KnownBlocks, KnownCalls, Block, Call, Content
  <2> QED BY <2>5, <2>6, <2>7 DEF IInv
<1>3. CASE ~({i, j} \subseteq DOMAIN finalTableArray \cap DOMAIN timeArray)
  <2>1. app' = "trapped" /\ UNCHANGED <<finalTableArray, timeArray, shown>>
    BY <1>3 DEF MoveItemAt
  <2> QED BY <1>1, <2>1, QueuesKept DEF IInv, TypeOK
<1> QED BY <1>2, <1>3

-----------------------------------------------------------------------------
(* Timers, the TfL service and the Firestore client. *)

LEMMA TimerFiresStep == ASSUME IInv, NEW d \in Doc, TimerFires(d) PROVE IInv'
<1>1. requests' \in [Doc -> Nat] /\ ticks' \in Nat
  BY DEF TimerFires, IInv, TypeOK
<1> QED BY <1>1, QueuesKept
        DEF IInv, TypeOK, TimerFires, stored, client, page

LEMMA AnswerStep == ASSUME IInv, NEW d \in Doc, Answer(d) PROVE IInv'
<1>1. requests' \in [Doc -> Nat]
  BY DEF Answer, IInv, TypeOK
<1>2. mainQueue' \in Seq(KnownBlocks(used))
  <2>1. CASE mainQueue' = mainQueue
    BY <2>1 DEF IInv
  <2>2. CASE \E t \in Trains : mainQueue' = Append(mainQueue, FetchedBlock(d, t))
    <3>1. PICK t \in Trains : mainQueue' = Append(mainQueue, FetchedBlock(d, t))
      BY <2>2
    <3>2. t \in Seq(Reading)
      <4>1. PICK n \in Nat : t \in [1 .. n -> Reading]
        BY BoundsAssumption DEF Trains, BoundedSeq, SeqOf
      <4> QED BY <4>1
    <3>3. FetchedBlock(d, t) \in KnownBlocks(used)
      BY <3>2, PostedBlocks DEF IInv, TypeOK
    <3> QED BY <3>1, <3>3, AppendProperties DEF IInv
  <2> QED BY <2>1, <2>2 DEF Answer
<1> QED BY <1>1, <1>2, QueuesKept
        DEF IInv, TypeOK, Answer, stored, client, counters

\* the head and the tail of the worker's queue while it serves a call
LEMMA ServedCall ==
    ASSUME IInv, NEW op, Serving(op)
    PROVE  /\ Head(fsQueue) \in KnownCalls(used)
           /\ Head(fsQueue).op = op
           /\ fsQueue' \in Seq(KnownCalls(used))
           /\ UNCHANGED <<used, partial, finalTableArray, timeArray, shown, timers, requests,
                          ticks, launches, app>>
BY HeadTailProperties DEF IInv, Serving, network, counters

\* the callbacks of a change of the collection
LEMMA ChangeDocsPosts ==
    ASSUME IInv, NEW U \in SUBSET Doc, used \subseteq U, NEW S \in SUBSET U, ChangeDocs(S)
    PROVE  /\ docs' = S /\ mainQueue' \in Seq(KnownBlocks(U))
           /\ stopsAwaiting' \in Nat
<1>1. mainQueue \in Seq(KnownBlocks(U))
  BY KnownMonotonic DEF IInv
<1>2. StopsBlock(S) \in KnownBlocks(U)
  BY PostedBlocks
<1>3. Copies(stopsListeners, StopsBlock(S)) \in Seq(KnownBlocks(U))
  BY <1>2, CopiesType DEF IInv, TypeOK
<1>4. stopsAwaiting' \in Nat
  BY DEF ChangeDocs, IInv, TypeOK
<1>5. mainQueue' \in Seq(KnownBlocks(U))
  <2>1. CASE S = docs
    BY <1>1, <2>1 DEF ChangeDocs
  <2>2. CASE S # docs
    BY <1>1, <1>3, <2>2, ConcatProperties DEF ChangeDocs
  <2> QED BY <2>1, <2>2
<1> QED BY <1>4, <1>5 DEF ChangeDocs

LEMMA WorkerStepInvariant == IInv /\ WorkerStep => IInv'
<1> SUFFICES ASSUME IInv, WorkerStep PROVE IInv'
  OBVIOUS
<1> DEFINE c == Head(fsQueue)
<1>a. used \in SUBSET Doc /\ docs \in SUBSET used
  BY DEF IInv, TypeOK
<1>1. CASE ServeListenStops
  <2>1. Serving("listenStops")
    BY <1>1 DEF ServeListenStops
  <2>2. StopsBlock(docs) \in KnownBlocks(used)
    BY <1>a, PostedBlocks
  <2>3. /\ mainQueue' \in Seq(KnownBlocks(used))
        /\ stopsListeners' \in Nat /\ stopsAwaiting' \in Nat
    <3>1. \/ mainQueue' = Append(mainQueue, StopsBlock(docs))
          \/ mainQueue' = mainQueue
      BY <1>1 DEF ServeListenStops
    <3>2. mainQueue' \in Seq(KnownBlocks(used))
      BY <2>2, <3>1, AppendProperties DEF IInv
    <3>3. \/ stopsAwaiting' = stopsAwaiting
          \/ stopsAwaiting' = stopsAwaiting + 1
      BY <1>1 DEF ServeListenStops
    <3>4. stopsListeners' \in Nat /\ stopsAwaiting' \in Nat
      BY <1>1, <3>3 DEF ServeListenStops, IInv, TypeOK
    <3> QED BY <3>2, <3>4
  <2>4. UNCHANGED <<docs, arrivals, timesListeners, timesAwaiting>>
    BY <1>1 DEF ServeListenStops
  <2> QED BY <2>1, <2>3, <2>4, ServedCall, QueuesKept DEF IInv, TypeOK
<1>2. CASE ServeListenTimes
  <2>1. Serving("listenTimes")
    BY <1>2 DEF ServeListenTimes
  <2>2. c \in KnownCalls(used) /\ c.op = "listenTimes"
    BY <2>1, ServedCall
  <2>3. c.doc \in Doc
    BY <2>2, CallFields
  <2>4. arrivals[c.doc] \in Content
    BY <2>3 DEF IInv, TypeOK
  <2>5. TimesBlock(c.doc, arrivals[c.doc]) \in KnownBlocks(used)
    BY <1>a, <2>3, <2>4, PostedBlocks
  <2>6. mainQueue' \in Seq(KnownBlocks(used))
    <3>1. \/ mainQueue' = Append(mainQueue, TimesBlock(c.doc, arrivals[c.doc]))
          \/ mainQueue' = mainQueue
      BY <1>2 DEF ServeListenTimes
    <3> QED BY <2>5, <3>1, AppendProperties DEF IInv
  <2>7. timesListeners' \in [Doc -> Nat] /\ timesAwaiting' \in [Doc -> Nat]
    <3> DEFINE d == c.doc
    <3>1. /\ timesListeners' = [timesListeners EXCEPT ![d] = @ + 1]
          /\ \/ timesAwaiting' = timesAwaiting
             \/ timesAwaiting' = [timesAwaiting EXCEPT ![d] = @ + 1]
      BY <1>2 DEF ServeListenTimes
    <3>2. /\ d \in Doc
          /\ timesListeners \in [Doc -> Nat] /\ timesAwaiting \in [Doc -> Nat]
      BY <2>3 DEF IInv, TypeOK
    <3> HIDE DEF d
    <3> QED BY <3>1, <3>2
  <2>8. UNCHANGED <<docs, arrivals, stopsListeners, stopsAwaiting>>
    BY <1>2 DEF ServeListenTimes
  <2> QED BY <2>1, <2>6, <2>7, <2>8, ServedCall, QueuesKept DEF IInv, TypeOK
<1>3. CASE ServeSetStop
  <2>1. Serving("setStop")
    BY <1>3 DEF ServeSetStop
  <2>2. c.doc \in used
    BY <2>1, ServedCall, CallFields
  <2>3. docs \cup {c.doc} \in SUBSET used
    BY <1>a, <2>2
  <2>4. docs' \subseteq used /\ mainQueue' \in Seq(KnownBlocks(used)) /\ stopsAwaiting' \in Nat
    BY <1>3, <1>a, <2>3, ChangeDocsPosts DEF ServeSetStop
  <2>5. UNCHANGED <<arrivals, stopsListeners, timesListeners, timesAwaiting>>
    BY <1>3 DEF ServeSetStop
  <2> QED BY <2>1, <2>4, <2>5, ServedCall, QueuesKept DEF IInv, TypeOK
<1>4. CASE ServeDeleteStop
  <2>1. Serving("deleteStop")
    BY <1>4 DEF ServeDeleteStop
  <2>2. docs \ {c.doc} \in SUBSET used
    BY <1>a
  <2>3. docs' \subseteq used /\ mainQueue' \in Seq(KnownBlocks(used)) /\ stopsAwaiting' \in Nat
    BY <1>4, <1>a, <2>2, ChangeDocsPosts DEF ServeDeleteStop
  <2>4. UNCHANGED <<arrivals, stopsListeners, timesListeners, timesAwaiting>>
    BY <1>4 DEF ServeDeleteStop
  <2> QED BY <2>1, <2>3, <2>4, ServedCall, QueuesKept DEF IInv, TypeOK
<1>5. CASE ServeWriteTimes
  <2> DEFINE b == TimesBlock(c.doc, c.reading)
  <2>1. Serving("writeTimes")
    BY <1>5 DEF ServeWriteTimes
  <2>2. c.doc \in Doc /\ c.reading \in Content
    BY <2>1, ServedCall, CallFields
  <2>3. arrivals' \in [Doc -> Content] /\ timesAwaiting' \in [Doc -> Nat]
    <3> DEFINE d == c.doc
               r == c.reading
    <3>1. /\ arrivals' = [arrivals EXCEPT ![d] = r]
          /\ \/ timesAwaiting' = timesAwaiting
             \/ timesAwaiting' = [timesAwaiting EXCEPT ![d] = 0]
      BY <1>5 DEF ServeWriteTimes
    <3>2. /\ d \in Doc /\ r \in Content
          /\ arrivals \in [Doc -> Content] /\ timesAwaiting \in [Doc -> Nat]
      BY <2>2 DEF IInv, TypeOK
    <3> HIDE DEF d, r
    <3> QED BY <3>1, <3>2
  <2>4. Copies(timesListeners[c.doc], b) \in Seq(KnownBlocks(used))
    <3>1. b \in KnownBlocks(used)
      BY <1>a, <2>2, PostedBlocks
    <3>2. timesListeners[c.doc] \in Nat
      BY <2>2 DEF IInv, TypeOK
    <3> QED BY <3>1, <3>2, CopiesType
  <2>5. mainQueue' \in Seq(KnownBlocks(used))
    <3>1. \/ mainQueue' = mainQueue
          \/ mainQueue' = mainQueue \o Copies(timesListeners[c.doc], b)
      BY <1>5 DEF ServeWriteTimes
    <3> QED BY <2>4, <3>1, ConcatProperties DEF IInv
  <2>6. UNCHANGED <<docs, stopsListeners, timesListeners, stopsAwaiting>>
    BY <1>5 DEF ServeWriteTimes
  <2> QED BY <2>1, <2>3, <2>5, <2>6, ServedCall, QueuesKept DEF IInv, TypeOK
<1> QED BY <1>1, <1>2, <1>3, <1>4, <1>5 DEF WorkerStep

LEMMA FirstStopsEventStep == IInv /\ FirstStopsEvent => IInv'
<1> SUFFICES ASSUME IInv, FirstStopsEvent PROVE IInv'
  OBVIOUS
<1>1. StopsBlock(docs) \in KnownBlocks(used)
  BY PostedBlocks DEF IInv, TypeOK
<1>2. Copies(stopsAwaiting, StopsBlock(docs)) \in Seq(KnownBlocks(used))
  BY <1>1, CopiesType DEF IInv, TypeOK
<1>3. mainQueue' \in Seq(KnownBlocks(used)) /\ stopsAwaiting' \in Nat
  BY <1>2, ConcatProperties DEF FirstStopsEvent, IInv
<1> QED BY <1>3, QueuesKept
        DEF IInv, TypeOK, FirstStopsEvent, Watch, network, counters

LEMMA FirstTimesEventStep == ASSUME IInv, NEW d \in Doc, FirstTimesEvent(d) PROVE IInv'
<1>1. arrivals[d] \in Content /\ timesAwaiting[d] \in Nat /\ used \in SUBSET Doc
  BY DEF IInv, TypeOK
<1>2. TimesBlock(d, arrivals[d]) \in KnownBlocks(used)
  BY <1>1, PostedBlocks
<1>3. Copies(timesAwaiting[d], TimesBlock(d, arrivals[d])) \in Seq(KnownBlocks(used))
  BY <1>1, <1>2, CopiesType
<1>4. mainQueue' \in Seq(KnownBlocks(used)) /\ timesAwaiting' \in [Doc -> Nat]
  BY <1>3, ConcatProperties DEF FirstTimesEvent, IInv, TypeOK
<1> QED BY <1>4, QueuesKept
        DEF IInv, TypeOK, FirstTimesEvent, stored, network, counters

LEMMA RemoteSaveStep == ASSUME IInv, NEW d \in Doc, RemoteSave(d) PROVE IInv'
<1>1. /\ used' = used \cup {d}
      /\ d \notin used
      /\ partial' \in {partial, partial \cup {d}}
      /\ ChangeDocs(docs \cup {d})
      /\ UNCHANGED <<arrivals, stopsListeners, timesListeners, timesAwaiting, fsQueue,
                     finalTableArray, timeArray, shown, timers, requests, ticks, launches,
                     app>>
  BY DEF RemoteSave, Watch, network, counters
<1>2. used' \in SUBSET Doc /\ used \subseteq used' /\ docs \cup {d} \in SUBSET used'
  BY <1>1 DEF IInv, TypeOK
<1>3. /\ docs' \subseteq used' /\ mainQueue' \in Seq(KnownBlocks(used'))
      /\ stopsAwaiting' \in Nat
  BY <1>1, <1>2, ChangeDocsPosts
<1>4. fsQueue' \in Seq(KnownCalls(used'))
  BY <1>1, <1>2, KnownMonotonic DEF IInv
<1>5. mainQueue' \in Seq(Block) /\ fsQueue' \in Seq(Call)
  BY <1>3, <1>4, KnownAreTyped
<1>6. TypeOK'
  BY <1>1, <1>2, <1>3, <1>5 DEF IInv, TypeOK
<1>7. (ToSet(finalTableArray) \subseteq used \ partial)' /\ NoDuplicateRows'
  <2>1. ToSet(finalTableArray)' = ToSet(finalTableArray)
    BY <1>1 DEF ToSet
  <2>2. ToSet(finalTableArray) \subseteq used' \ partial'
    BY <1>1 DEF IInv
  <2> QED BY <1>1, <2>1, <2>2 DEF IInv, NoDuplicateRows
<1>8. (mainQueue \in Seq(KnownBlocks(used)))' /\ (fsQueue \in Seq(KnownCalls(used)))'
  BY <1>3, <1>4 DEF KnownBlocks, KnownCalls, Block, Call, Content
<1> QED BY <1>6, <1>7, <1>8 DEF IInv

LEMMA RemoteDeleteStep == ASSUME IInv, NEW d \in Doc, RemoteDelete(d) PROVE IInv'
<1>1. used \in SUBSET Doc /\ docs \ {d} \in SUBSET used
  BY DEF IInv, TypeOK
<1>2. docs' \subseteq used /\ mainQueue' \in Seq(KnownBlocks(used)) /\ stopsAwaiting' \in Nat
  BY <1>1, ChangeDocsPosts DEF RemoteDelete
<1> QED BY <1>2, QueuesKept
        DEF IInv, TypeOK, RemoteDelete, Watch, network, counters

LEMMA WatchErrorStep == IInv /\ WatchError => IInv'
<1> SUFFICES ASSUME IInv, WatchError PROVE IInv'
  OBVIOUS
<1>1. ErrorBlock \in KnownBlocks(used)
  BY PostedBlocks DEF IInv, TypeOK
<1>2. Copies(stopsListeners, ErrorBlock) \in Seq(KnownBlocks(used))
  BY <1>1, CopiesType DEF IInv, TypeOK
<1>3. mainQueue' \in Seq(KnownBlocks(used))
  BY <1>2, ConcatProperties DEF WatchError, IInv
<1> QED BY <1>3, QueuesKept
        DEF IInv, TypeOK, WatchError, Watch, network, counters

LEMMA RelaunchStep == IInv /\ Relaunch => IInv'
<1> SUFFICES ASSUME IInv, Relaunch PROVE IInv'
  OBVIOUS
<1>1. UNCHANGED <<used, partial, docs, arrivals, ticks>>
  BY DEF Relaunch, stored
<1>2. ListenStops \in KnownCalls(used)
  BY QueuedCalls DEF IInv, TypeOK
<1>3. mainQueue' \in Seq(KnownBlocks(used)) /\ fsQueue' \in Seq(KnownCalls(used))
  BY <1>2 DEF Relaunch
<1>4. mainQueue' \in Seq(Block) /\ fsQueue' \in Seq(Call)
  BY <1>3, KnownAreTyped
<1>5. TypeOK'
  BY <1>1, <1>4 DEF Relaunch, IInv, TypeOK
<1>6. (ToSet(finalTableArray) \subseteq used \ partial)' /\ NoDuplicateRows'
  BY DEF Relaunch, ToSet, NoDuplicateRows
<1>7. (mainQueue \in Seq(KnownBlocks(used)))' /\ (fsQueue \in Seq(KnownCalls(used)))'
  BY <1>1, <1>3 DEF KnownBlocks, KnownCalls, Block, Call, Content
<1> QED BY <1>5, <1>6, <1>7 DEF IInv

-----------------------------------------------------------------------------
(* The theorems. *)

LEMMA StepInvariant == IInv /\ [Next]_vars => IInv'
<1> SUFFICES ASSUME IInv, [Next]_vars PROVE IInv'
  OBVIOUS
<1>1. CASE MainStep
  BY <1>1, SavedStopsSnapshotStep, SavedStopsErrorStep, TimesSnapshotStep, AppendTimesStep,
     ReloadDataStep, TrainTimesStep DEF MainStep
<1>2. CASE WorkerStep
  BY <1>2, WorkerStepInvariant
<1>3. CASE UserStep
  BY <1>3, AddStopStep, HiddenContainerViewTappedStep, MoveItemAtStep DEF UserStep
<1>4. CASE NetworkStep
  BY <1>4, TimerFiresStep, AnswerStep, RemoteSaveStep, RemoteDeleteStep, WatchErrorStep
     DEF NetworkStep
<1>5. CASE FirstEvent
  BY <1>5, FirstStopsEventStep, FirstTimesEventStep DEF FirstEvent
<1>6. CASE Relaunch
  BY <1>6, RelaunchStep
<1>7. CASE UNCHANGED vars
  BY <1>7, QueuesKept DEF IInv, TypeOK, vars, stored, client, page, network, counters
<1> QED BY <1>1, <1>2, <1>3, <1>4, <1>5, <1>6, <1>7 DEF Next

\* The invariant the theorems below rest on: blocks and calls name known stops,
\* rows stand for known, complete stops, each once.
THEOREM InductiveInvariant == Spec => []IInv
<1>1. Init => IInv
  BY InitInvariant
<1>2. IInv /\ [Next]_vars => IInv'
  BY StepInvariant
<1> QED BY <1>1, <1>2, PTL DEF Spec

\* The state of the home page, of the Firestore client and of the stored data
\* keeps its types; every saved stop is a document that was once created.
THEOREM TypeCorrect == Spec => []TypeOK
<1>1. IInv => TypeOK
  BY DEF IInv
<1> QED BY <1>1, InductiveInvariant, PTL

\* However often refreshData adds listeners, and however their callbacks fall
\* between drags and deletions, no saved stop ever has two rows.
THEOREM RowsDistinct == Spec => []NoDuplicateRows
<1>1. IInv => NoDuplicateRows
  BY DEF IInv
<1> QED BY <1>1, InductiveInvariant, PTL

\* No row ever stands for a document that lacks a field, whatever other devices
\* write: the force unwraps of cellForItemAt meet a value.
THEOREM RowsComplete == Spec => []RowsAreComplete
<1>1. IInv => RowsAreComplete
  BY DEF IInv, RowsAreComplete
<1> QED BY <1>1, InductiveInvariant, PTL

-----------------------------------------------------------------------------
(* A second invariant: what the queues promise about the page.             *)
(*                                                                         *)
(* The page is right once the queues are empty because, until then, they   *)
(* hold what will put it right: the last word about the collection         *)
(* (NewsInv), the deletions the rows are ahead of (RowsInv), a reload      *)
(* (ScreenInv), and the times that a row still lacks (TimesInv).  What the *)
(* queues do not hold the client owes: a first event it withholds, and     *)
(* only of a view that is empty (AwaitInv).                                *)

\* the blocks that call getSavedStops's listener
IsNews(b) == b.kind \in {"stops", "error"}
NoNews(q) == \A b \in ToSet(q) : ~IsNews(b)

\* if there are any in q, the last is b
LastNews(q, b) ==
    \A i \in DOMAIN q :
        IsNews(q[i]) /\ (\A j \in DOMAIN q : j > i => ~IsNews(q[j])) => q[i] = b

\* Some listener of the collection has had its first event.
Told == stopsListeners > stopsAwaiting

\* A first event is withheld from a listener there is, of a view that is empty.
AwaitInv ==
    /\ stopsAwaiting <= stopsListeners
    /\ stopsAwaiting > 0 => docs = {}
    /\ \A d \in Doc : /\ timesAwaiting[d] <= timesListeners[d]
                      /\ timesAwaiting[d] > 0 => arrivals[d] = NoTimes

\* The last of the callbacks still to run brings the collection as it is, or the
\* error that has ended its listeners.
Latest  == IF Told THEN StopsBlock(docs) ELSE ErrorBlock
NewsInv == LastNews(mainQueue, Latest)

\* stops whose deletion the worker has yet to run
Deleting == {d \in Doc : DeleteStop(d) \in ToSet(fsQueue)}

\* With no callback to come, the rows are among those the collection asks for, and
\* there are none while nothing has been told of it; with no new listener to come
\* either, they are all there, except that a deleted row is gone at once.
RowsInv ==
    NoNews(mainQueue) =>
        /\ ToSet(finalTableArray) \subseteq (IF Told THEN Rows(docs) ELSE {})
        /\ Told /\ ListenStops \notin ToSet(fsQueue) =>
              Rows(docs) \ Deleting \subseteq ToSet(finalTableArray)

\* ViewUpdated, which a trap does not end
ScreenInv == stopsListeners > 0 /\ ~ReloadPending => shown = finalTableArray

\* The latest times of a row's stop are there or under way, or the row has a
\* listener that is still to be told that there are none.
TimesServed(d, r) ==
    \/ [doc |-> d, reading |-> r] \in ToSet(timeArray)
    \/ TimesBlock(d, r) \in ToSet(mainQueue)
    \/ AppendBlock(d, r) \in ToSet(mainQueue)
TimesInv ==
    \A d \in ToSet(finalTableArray) :
        \/ ListenTimes(d) \in ToSet(fsQueue)
        \/ /\ timesListeners[d] > 0
           /\ timesAwaiting[d] > 0 \/ TimesServed(d, arrivals[d])

PageInv == AwaitInv /\ NewsInv /\ RowsInv /\ ScreenInv /\ TimesInv
-----------------------------------------------------------------------------
(* The last word about the collection. *)

LEMMA NoNewsElements ==
    ASSUME NEW T, NEW q \in Seq(T)
    PROVE  NoNews(q) <=> \A i \in 1 .. Len(q) : ~IsNews(q[i])
BY DEF NoNews, ToSet

LEMMA LastNewsOfTail ==
    ASSUME NEW T, NEW q \in Seq(T), q # <<>>, NEW b, LastNews(q, b)
    PROVE  /\ LastNews(Tail(q), b)
           /\ IsNews(Head(q)) /\ NoNews(Tail(q)) => Head(q) = b
<1> DEFINE t == Tail(q)
           n == Len(q)
<1>1. /\ n \in Nat \ {0} /\ Head(q) = q[1]
      /\ t \in Seq(T) /\ Len(t) = n - 1
      /\ \A i \in 1 .. n - 1 : t[i] = q[i + 1]
  BY EmptySeq, HeadTailProperties
<1>2. DOMAIN q = 1 .. n /\ DOMAIN t = 1 .. n - 1
  BY <1>1
<1>3. NoNews(t) <=> \A i \in 1 .. n - 1 : ~IsNews(t[i])
  BY <1>1, NoNewsElements
<1> HIDE DEF t, n
<1>4. LastNews(t, b)
  <2> SUFFICES ASSUME NEW i \in 1 .. n - 1, IsNews(t[i]),
                      \A j \in 1 .. n - 1 : j > i => ~IsNews(t[j])
               PROVE  t[i] = b
    BY <1>2 DEF LastNews
  <2>1. i + 1 \in 1 .. n /\ t[i] = q[i + 1]
    BY <1>1
  <2>2. ASSUME NEW j \in 1 .. n, j > i + 1
        PROVE  ~IsNews(q[j])
    <3>1. j - 1 \in 1 .. n - 1 /\ j - 1 > i /\ (j - 1) + 1 = j
      BY <1>1, <2>2
    <3>2. t[j - 1] = q[j]
      BY <1>1, <3>1
    <3> QED BY <3>1, <3>2
  <2>3. IsNews(q[i + 1])
    BY <2>1
  <2> QED BY <1>2, <2>1, <2>2, <2>3 DEF LastNews
<1>5. ASSUME IsNews(Head(q)), NoNews(t)
      PROVE  Head(q) = b
  <2>1. 1 \in 1 .. n
    BY <1>1
  <2>2. ASSUME NEW j \in 1 .. n, j > 1
        PROVE  ~IsNews(q[j])
    <3>1. j - 1 \in 1 .. n - 1 /\ (j - 1) + 1 = j
      BY <1>1, <2>2
    <3>2. t[j - 1] = q[j]
      BY <1>1, <3>1
    <3> QED BY <1>3, <1>5, <3>1, <3>2
  <2> QED BY <1>1, <1>2, <1>5, <2>1, <2>2 DEF LastNews
<1> QED BY <1>4, <1>5 DEF t

\* Blocks of other kinds leave the last word to those before them.
LEMMA LastNewsOfConcat ==
    ASSUME NEW T, NEW q \in Seq(T), NEW t \in Seq(T), NEW b, LastNews(q, b), NoNews(t)
    PROVE  LastNews(q \o t, b)
<1> DEFINE u == q \o t
           m == Len(q)
           n == Len(t)
<1>1. /\ m \in Nat /\ n \in Nat
      /\ u \in Seq(T) /\ Len(u) = m + n
      /\ \A i \in 1 .. m : u[i] = q[i]
      /\ \A i \in m + 1 .. m + n : u[i] = t[i - m]
  BY ConcatProperties
<1>2. DOMAIN q = 1 .. m /\ DOMAIN u = 1 .. m + n
  BY <1>1
<1>3. \A i \in 1 .. n : ~IsNews(t[i])
  BY NoNewsElements
<1> HIDE DEF u, m, n
<1>4. SUFFICES ASSUME NEW i \in 1 .. m + n, IsNews(u[i]),
                      \A j \in 1 .. m + n : j > i => ~IsNews(u[j])
               PROVE  u[i] = b
  BY <1>2 DEF LastNews, u
<1>5. CASE i <= m
  <2>1. i \in 1 .. m /\ u[i] = q[i]
    BY <1>1, <1>5
  <2>2. \A j \in 1 .. m : j > i => ~IsNews(q[j])
    BY <1>1, <1>4
  <2> QED BY <1>2, <1>4, <2>1, <2>2 DEF LastNews
<1>6. CASE i > m
  <2>1. i \in m + 1 .. m + n /\ i - m \in 1 .. n
    BY <1>1, <1>6
  <2> QED BY <1>1, <1>3, <1>4, <2>1
<1> QED BY <1>1, <1>5, <1>6

\* New callbacks, all alike, have the last word.
LEMMA LastNewsOfNew ==
    ASSUME NEW T, NEW q \in Seq(T), NEW t \in Seq(T), t # <<>>, NEW b, IsNews(b),
           \A i \in 1 .. Len(t) : t[i] = b
    PROVE  /\ LastNews(q \o t, b)
           /\ ~NoNews(q \o t)
<1> DEFINE u == q \o t
           m == Len(q)
           n == Len(t)
<1>1. /\ m \in Nat /\ n \in Nat \ {0}
      /\ u \in Seq(T) /\ Len(u) = m + n
      /\ \A i \in m + 1 .. m + n : u[i] = t[i - m]
  BY ConcatProperties, EmptySeq
<1>2. DOMAIN u = 1 .. m + n /\ \A i \in 1 .. n : t[i] = b
  BY <1>1
<1>a. NoNews(u) <=> \A i \in 1 .. m + n : ~IsNews(u[i])
  BY <1>1, NoNewsElements
<1> HIDE DEF u, m, n
<1>3. \A i \in m + 1 .. m + n : u[i] = b
  <2> SUFFICES ASSUME NEW i \in m + 1 .. m + n
               PROVE  u[i] = b
    OBVIOUS
  <2>1. i - m \in 1 .. n
    BY <1>1
  <2> QED BY <1>1, <1>2, <2>1
<1>4. m + n \in m + 1 .. m + n /\ m + n \in 1 .. m + n
  BY <1>1
<1>5. IsNews(u[m + n])
  BY <1>3, <1>4
<1>6. LastNews(u, b)
  <2> SUFFICES ASSUME NEW i \in 1 .. m + n, IsNews(u[i]),
                      \A j \in 1 .. m + n : j > i => ~IsNews(u[j])
               PROVE  u[i] = b
    BY <1>2 DEF LastNews
  <2>1. ~(m + n > i)
    BY <1>4, <1>5
  <2>2. i = m + n
    BY <1>1, <2>1
  <2> QED BY <1>3, <1>4, <2>2
<1> QED BY <1>4, <1>5, <1>6, <1>a DEF u

LEMMA NoNewsOfConcat ==
    ASSUME NEW T, NEW q \in Seq(T), NEW t \in Seq(T)
    PROVE  NoNews(q \o t) <=> NoNews(q) /\ NoNews(t)
<1>1. ToSet(q \o t) = ToSet(q) \cup ToSet(t)
  BY ElementsOfConcat
<1> QED BY <1>1 DEF NoNews

LEMMA NoNewsOfTail ==
    ASSUME NEW T, NEW q \in Seq(T), q # <<>>
    PROVE  NoNews(q) <=> NoNews(Tail(q)) /\ ~IsNews(Head(q))
<1>1. ToSet(q) = {Head(q)} \cup ToSet(Tail(q))
  BY ElementsOfTail
<1> QED BY <1>1 DEF NoNews

\* n copies of a block: none, or all alike
LEMMA CopiesElements ==
    ASSUME NEW T, NEW b \in T, NEW n \in Nat
    PROVE  /\ Copies(n, b) \in Seq(T)
           /\ n = 0 => Copies(n, b) = <<>>
           /\ n > 0 => Copies(n, b) # <<>> /\ ToSet(Copies(n, b)) = {b}
           /\ \A i \in 1 .. Len(Copies(n, b)) : Copies(n, b)[i] = b
<1> DEFINE t == Copies(n, b)
<1>1. t = [i \in 1 .. n |-> b]
  BY DEF Copies
<1> HIDE DEF t
<1>2. t \in Seq(T) /\ Len(t) = n /\ DOMAIN t = 1 .. n /\ \A i \in 1 .. n : t[i] = b
  BY <1>1
<1>3. n = 0 => t = <<>>
  BY <1>2, EmptySeq
<1>4. ASSUME n > 0
      PROVE  t # <<>> /\ ToSet(t) = {b}
  <2>1. 1 \in 1 .. n
    BY <1>4
  <2> QED BY <1>2, <2>1 DEF ToSet
<1> QED BY <1>2, <1>3, <1>4 DEF t

LEMMA TimesCallsElements ==
    ASSUME NEW s \in Seq(Doc)
    PROVE  /\ TimesCalls(s) \in Seq({ListenTimes(d) : d \in Doc})
           /\ ToSet(TimesCalls(s)) = {ListenTimes(d) : d \in ToSet(s)}
<1>1. \A i \in 1 .. Len(s) : s[i] \in Doc
  OBVIOUS
<1> DEFINE t == [i \in 1 .. Len(s) |-> ListenTimes(s[i])]
<1>2. t \in Seq({ListenTimes(d) : d \in Doc}) /\ DOMAIN t = 1 .. Len(s)
  BY <1>1
<1>3. ToSet(t) = {ListenTimes(s[i]) : i \in 1 .. Len(s)}
  BY <1>2 DEF ToSet
<1>4. TimesCalls(s) = t
  BY DEF TimesCalls
<1> QED BY <1>2, <1>3, <1>4 DEF ToSet

-----------------------------------------------------------------------------
(* What keeps each part of the invariant. *)

LEMMA Queues ==
    IInv => /\ mainQueue \in Seq(Block) /\ fsQueue \in Seq(Call)
            /\ finalTableArray \in Seq(Doc) /\ shown \in Seq(Doc)
            /\ timeArray \in Seq([doc : Doc, reading : Content])
            /\ stopsListeners \in Nat /\ timesListeners \in [Doc -> Nat]
            /\ stopsAwaiting \in Nat /\ timesAwaiting \in [Doc -> Nat]
            /\ docs \subseteq used /\ used \subseteq Doc
            /\ arrivals \in [Doc -> Content]
BY DEF IInv, TypeOK

\* A block is of one kind, a call of one operation.
LEMMA KindsOfBlocks ==
    /\ \A S : IsNews(StopsBlock(S)) /\ StopsBlock(S).kind # "fetched"
    /\ IsNews(ErrorBlock) /\ (\A S : ErrorBlock # StopsBlock(S))
    /\ ~IsNews(ReloadBlock) /\ ReloadBlock.kind # "fetched"
    /\ \A d, r : /\ ~IsNews(TimesBlock(d, r)) /\ ~IsNews(AppendBlock(d, r))
                 /\ TimesBlock(d, r).kind = "times" /\ AppendBlock(d, r).kind = "append"
    /\ \A d, t : ~IsNews(FetchedBlock(d, t)) /\ FetchedBlock(d, t).kind = "fetched"
<1>1. \A S : ErrorBlock # StopsBlock(S)
  <2> SUFFICES ASSUME NEW S PROVE ErrorBlock.kind # StopsBlock(S).kind
    OBVIOUS
  <2> QED BY DEF ErrorBlock, StopsBlock
<1> QED BY <1>1 DEF IsNews, StopsBlock, ErrorBlock, ReloadBlock, TimesBlock, AppendBlock,
                    FetchedBlock

LEMMA OpsOfCalls ==
    /\ ListenStops.op = "listenStops"
    /\ \A d : /\ ListenTimes(d).op = "listenTimes" /\ ListenTimes(d).doc = d
              /\ SetStop(d).op = "setStop" /\ SetStop(d).doc = d
              /\ DeleteStop(d).op = "deleteStop" /\ DeleteStop(d).doc = d
    /\ \A d, r : WriteTimes(d, r).op = "writeTimes"
BY DEF ListenStops, ListenTimes, SetStop, DeleteStop, WriteTimes

\* Who is told of the collection, and of what.
LEMMA ToldKept ==
    ASSUME UNCHANGED <<docs, stopsListeners, stopsAwaiting>>
    PROVE  Told' = Told /\ Latest' = Latest
BY DEF Told, Latest

LEMMA AwaitKept ==
    ASSUME AwaitInv, UNCHANGED <<docs, arrivals, listeners>>
    PROVE  AwaitInv'
BY DEF AwaitInv

LEMMA NewsKept ==
    ASSUME IInv, NewsInv, NEW t \in Seq(Block), NoNews(t),
           docs' = docs, stopsListeners' = stopsListeners, stopsAwaiting' = stopsAwaiting,
           \/ mainQueue' = mainQueue \o t
           \/ mainQueue # <<>> /\ mainQueue' = Tail(mainQueue) \o t
    PROVE  NewsInv'
<1> DEFINE b == Latest
<1>1. LastNews(mainQueue, b) /\ mainQueue \in Seq(Block)
  BY Queues DEF NewsInv
<1>2. Latest' = b
  BY ToldKept
<1> HIDE DEF b
<1>3. CASE mainQueue' = mainQueue \o t
  BY <1>1, <1>2, <1>3, LastNewsOfConcat DEF NewsInv
<1>4. CASE mainQueue # <<>> /\ mainQueue' = Tail(mainQueue) \o t
  <2>1. LastNews(Tail(mainQueue), b) /\ Tail(mainQueue) \in Seq(Block)
    BY <1>1, <1>4, LastNewsOfTail, ElementsOfTail
  <2> QED BY <1>2, <1>4, <2>1, LastNewsOfConcat DEF NewsInv
<1> QED BY <1>3, <1>4

LEMMA RowsKept ==
    ASSUME RowsInv,
           UNCHANGED <<docs, partial, stopsListeners, stopsAwaiting>>,
           ToSet(finalTableArray') = ToSet(finalTableArray),
           NoNews(mainQueue') => NoNews(mainQueue),
           \A c \in ToSet(fsQueue) :
              c.op \in {"listenStops", "deleteStop"} => c \in ToSet(fsQueue')
    PROVE  RowsInv'
<1>1. Rows(docs)' = Rows(docs)
  BY DEF Rows, Reached
<1>2. ListenStops \notin ToSet(fsQueue') => ListenStops \notin ToSet(fsQueue)
  BY OpsOfCalls
<1>3. Deleting \subseteq Deleting'
  BY OpsOfCalls DEF Deleting
<1>4. Told' = Told
  BY ToldKept
<1> QED BY <1>1, <1>2, <1>3, <1>4 DEF RowsInv

\* A reload that is under way stays so; one that is owed stays so or is posted.
LEMMA PendingKept ==
    ASSUME \A b \in ToSet(mainQueue) : b.kind # "fetched" => b \in ToSet(mainQueue'),
           \A c \in ToSet(fsQueue) :
              c.op \in {"listenStops", "listenTimes"} => c \in ToSet(fsQueue'),
           UNCHANGED <<stopsAwaiting, timesAwaiting>>
    PROVE  ReloadPending => ReloadPending'
<1>1. Owed => Owed'
  BY DEF Owed
<1> QED BY <1>1 DEF ReloadPending, ToSet

LEMMA ScreenKept ==
    ASSUME ScreenInv, UNCHANGED <<stopsListeners, stopsAwaiting, timesAwaiting>>,
           \A b \in ToSet(mainQueue) : b.kind # "fetched" => b \in ToSet(mainQueue'),
           \A c \in ToSet(fsQueue) :
              c.op \in {"listenStops", "listenTimes"} => c \in ToSet(fsQueue'),
           shown = finalTableArray => shown' = finalTableArray'
    PROVE  ScreenInv'
<1>1. ReloadPending => ReloadPending'
  BY PendingKept
<1> QED BY <1>1 DEF ScreenInv

LEMMA TimesKept ==
    ASSUME TimesInv, UNCHANGED <<timesListeners, timesAwaiting, arrivals>>,
           ToSet(finalTableArray') \subseteq ToSet(finalTableArray),
           ToSet(timeArray) \subseteq ToSet(timeArray'),
           \A b \in ToSet(mainQueue) :
              b.kind \in {"times", "append"} => b \in ToSet(mainQueue'),
           \A c \in ToSet(fsQueue) : c.op = "listenTimes" => c \in ToSet(fsQueue')
    PROVE  TimesInv'
<1> SUFFICES ASSUME NEW d \in ToSet(finalTableArray'), ListenTimes(d) \notin ToSet(fsQueue')
             PROVE  /\ timesListeners[d] > 0
                    /\ timesAwaiting[d] > 0 \/ TimesServed(d, arrivals[d])'
  BY DEF TimesInv
<1>1. ListenTimes(d) \notin ToSet(fsQueue)
  BY OpsOfCalls
<1>2. timesListeners[d] > 0 /\ (timesAwaiting[d] > 0 \/ TimesServed(d, arrivals[d]))
  BY <1>1 DEF TimesInv
<1>3. TimesServed(d, arrivals[d]) => TimesServed(d, arrivals[d])'
  BY KindsOfBlocks DEF TimesServed
<1> QED BY <1>2, <1>3

\* A reload is under way.
LEMMA PendingBlock ==
    ASSUME NEW T, NEW q \in Seq(T), NEW b \in ToSet(q), b.kind # "fetched"
    PROVE  \E i \in DOMAIN q : q[i].kind # "fetched"
BY DEF ToSet

LEMMA TimesPassedOn ==
    ASSUME TimesInv,
           UNCHANGED <<timesListeners, timesAwaiting, arrivals, finalTableArray, fsQueue>>,
           \A d, r : TimesServed(d, r) =>
              \/ [doc |-> d, reading |-> r] \in ToSet(timeArray')
              \/ TimesBlock(d, r) \in ToSet(mainQueue')
              \/ AppendBlock(d, r) \in ToSet(mainQueue')
    PROVE  TimesInv'
<1> SUFFICES ASSUME NEW d \in ToSet(finalTableArray), ListenTimes(d) \notin ToSet(fsQueue)
             PROVE  /\ timesListeners[d] > 0
                    /\ timesAwaiting[d] > 0 \/ TimesServed(d, arrivals[d])'
  BY DEF TimesInv
<1>1. timesListeners[d] > 0 /\ (timesAwaiting[d] > 0 \/ TimesServed(d, arrivals[d]))
  BY DEF TimesInv
<1>2. TimesServed(d, arrivals[d]) => TimesServed(d, arrivals[d])'
  BY DEF TimesServed
<1> QED BY <1>1, <1>2

-----------------------------------------------------------------------------
(* The main thread keeps it. *)

LEMMA BlockRuns ==
    ASSUME IInv, NEW kind, Running(kind)
    PROVE  /\ mainQueue # <<>> /\ Head(mainQueue) \in Block
           /\ Head(mainQueue).kind = kind
           /\ Tail(mainQueue) \in Seq(Block)
           /\ ToSet(mainQueue) = {Head(mainQueue)} \cup ToSet(Tail(mainQueue))
           /\ NoNews(mainQueue) <=> NoNews(Tail(mainQueue)) /\ ~IsNews(Head(mainQueue))
<1>1. mainQueue # <<>> /\ Head(mainQueue).kind = kind /\ mainQueue \in Seq(Block)
  BY Queues DEF Running
<1> QED BY <1>1, ElementsOfTail, NoNewsOfTail

\* An empty list adds nothing.
LEMMA NothingPosted ==
    ASSUME NEW T, NEW q \in Seq(T)
    PROVE  q \o <<>> = q /\ <<>> \in Seq(T) /\ NoNews(<<>>)
BY ConcatEmptySeq DEF NoNews, ToSet

\* An incomplete document that the loop meets is among those it reaches.
LEMMA LeastIsReached ==
    ASSUME NEW S \in SUBSET Doc, S \cap partial # {}
    PROVE  Reached(S) # {}
<1> DEFINE P == S \cap partial
           R == OpToRel(<, Nat)
<1>1. P \subseteq Nat /\ P # {}
  BY DocAssumption
<1>2. PICK m \in P : \A y \in P : ~(<<y, m>> \in R)
  <2> HIDE DEF P
  <2> QED BY <1>1, WFMin, NatLessThanWellFounded, Zenon
<1>3. \A y \in P : ~(y < m)
  BY <1>1, <1>2 DEF OpToRel
<1>4. m \in Reached(S)
  BY <1>3 DEF Reached
<1> QED BY <1>4

LEMMA SavedStopsSnapshotPage == IInv /\ PageInv /\ SavedStopsSnapshot => PageInv'
<1> SUFFICES ASSUME IInv, PageInv, SavedStopsSnapshot
             PROVE  PageInv'
  OBVIOUS
<1> DEFINE S == Head(mainQueue).docs
           h == Head(mainQueue)
           q == Tail(mainQueue)
           t == ReloadAfter(S)
<1>1. Running("stops")
  BY DEF SavedStopsSnapshot
<1>2. /\ mainQueue # <<>> /\ h \in Block /\ h.kind = "stops" /\ q \in Seq(Block)
      /\ IsNews(h) /\ mainQueue \in Seq(Block)
  BY <1>1, BlockRuns, Queues DEF IsNews
<1>3. S \in SUBSET Doc
  <2>1. h \in KnownBlocks(used)
    BY <1>1, RunningBlock
  <2> QED BY <1>2, <2>1, BlockFields
<1>4. /\ finalTableArray' \in Ascending(Rows(S))
      /\ mainQueue' = q \o t
      /\ UNCHANGED <<stopsListeners, timesListeners, stopsAwaiting, timesAwaiting>>
      /\ docs' = docs /\ partial' = partial /\ arrivals' = arrivals
  BY DEF SavedStopsSnapshot, Table, stored
<1>5. PICK reached \in Ascending(Reached(S)) : fsQueue' = fsQueue \o TimesCalls(reached)
  BY DEF SavedStopsSnapshot
<1> HIDE DEF S, h, q
<1>6. /\ t \in Seq(Block) /\ NoNews(t)
      /\ S \cap partial = {} => t = <<ReloadBlock>>
  <2>1. ReloadBlock \in Block /\ ~IsNews(ReloadBlock)
    BY KindsOfBlocks DEF Block, ReloadBlock
  <2>2. NoNews(<<ReloadBlock>>) /\ NoNews(<<>>)
    BY <2>1 DEF NoNews, ToSet
  <2> QED BY <2>1, <2>2 DEF ReloadAfter
<1> HIDE DEF t
<1>7. /\ Rows(S) \in SUBSET Doc /\ Reached(S) \in SUBSET Doc /\ Rows(S) \subseteq Reached(S)
  BY <1>3 DEF Rows, Reached
<1>8. ToSet(finalTableArray') = Rows(S)
  BY <1>4, <1>7, AscendingProperties
<1>9. ToSet(fsQueue') = ToSet(fsQueue) \cup {ListenTimes(d) : d \in Reached(S)}
  <2>1. reached \in Seq(Doc) /\ ToSet(reached) = Reached(S)
    BY <1>7, AscendingProperties
  <2>2. /\ TimesCalls(reached) \in Seq(Call)
        /\ ToSet(TimesCalls(reached)) = {ListenTimes(d) : d \in Reached(S)}
    <3>1. {ListenTimes(d) : d \in Doc} \subseteq Call
      BY DEF ListenTimes, Call
    <3> QED BY <2>1, <3>1, TimesCallsElements, SeqMonotonic
  <2>3. fsQueue \in Seq(Call)
    BY Queues
  <2> QED BY <1>5, <2>2, <2>3, ElementsOfConcat
<1>10. NewsInv'
  BY <1>2, <1>4, <1>6, NewsKept DEF PageInv, q
<1>11. RowsInv'
  <2> SUFFICES ASSUME NoNews(mainQueue')
               PROVE  Told' /\ ToSet(finalTableArray') = Rows(docs)'
    BY DEF RowsInv
  <2>1. NoNews(q)
    BY <1>2, <1>4, <1>6, NoNewsOfConcat
  <2>2. h = Latest
    BY <1>2, <2>1, LastNewsOfTail DEF PageInv, NewsInv, h, q
  <2>3. Told /\ h = StopsBlock(docs)
    <3>1. ErrorBlock.kind # "stops"
      BY DEF ErrorBlock
    <3> QED BY <1>2, <2>2, <3>1 DEF Latest
  <2>4. S = docs
    BY <2>3 DEF StopsBlock, S, h
  <2>5. Told' = Told /\ Rows(docs)' = Rows(docs)
    BY <1>4, ToldKept DEF Rows, Reached
  <2> QED BY <1>8, <2>3, <2>4, <2>5
<1>12. ReloadPending'
  <2>1. CASE S \cap partial = {}
    <3>1. ToSet(mainQueue') = ToSet(q) \cup ToSet(t) /\ mainQueue' \in Seq(Block)
      BY <1>2, <1>4, <1>6, ElementsOfConcat
    <3>2. ReloadBlock \in ToSet(mainQueue')
      BY <1>6, <2>1, <3>1 DEF ToSet
    <3> QED BY <3>1, <3>2, KindsOfBlocks, PendingBlock DEF ReloadPending
  <2>2. CASE S \cap partial # {}
    <3>1. PICK d \in Reached(S) : TRUE
      BY <1>3, <2>2, LeastIsReached
    <3>2. ListenTimes(d) \in ToSet(fsQueue')
      BY <1>9, <3>1
    <3>3. \E i \in DOMAIN fsQueue' : fsQueue'[i].op = "listenTimes"
      BY <3>2, OpsOfCalls DEF ToSet
    <3> QED BY <3>3 DEF ReloadPending
  <2> QED BY <2>1, <2>2
<1>13. ScreenInv'
  BY <1>12 DEF ScreenInv
<1>14. TimesInv'
  BY <1>7, <1>8, <1>9 DEF TimesInv
<1>15. AwaitInv'
  BY <1>4, AwaitKept DEF PageInv
<1> QED BY <1>10, <1>11, <1>13, <1>14, <1>15 DEF PageInv

LEMMA SavedStopsErrorPage == IInv /\ PageInv /\ SavedStopsError => PageInv'
<1> SUFFICES ASSUME IInv, PageInv, SavedStopsError
             PROVE  PageInv'
  OBVIOUS
<1> DEFINE h == Head(mainQueue)
           q == Tail(mainQueue)
<1>1. /\ Running("error")
      /\ finalTableArray' = <<>>
      /\ mainQueue' = q
      /\ UNCHANGED <<docs, partial, arrivals, listeners, fsQueue>>
  BY DEF SavedStopsError, stored, client
<1>2. /\ mainQueue # <<>> /\ h \in Block /\ h.kind = "error" /\ q \in Seq(Block)
      /\ IsNews(h) /\ mainQueue \in Seq(Block)
  BY <1>1, BlockRuns, Queues DEF IsNews
<1> HIDE DEF h, q
<1>3. NewsInv'
  <2>1. mainQueue' = q \o <<>> /\ <<>> \in Seq(Block) /\ NoNews(<<>>)
    BY <1>1, <1>2, NothingPosted
  <2> QED BY <1>1, <1>2, <2>1, NewsKept DEF PageInv, q
<1>4. ASSUME Told, NoNews(q)
      PROVE  FALSE
  <2>1. h = StopsBlock(docs)
    BY <1>2, <1>4, LastNewsOfTail DEF PageInv, NewsInv, Latest, h, q
  <2>2. h.kind = "stops"
    BY <2>1 DEF StopsBlock
  <2> QED BY <1>2, <2>2
<1>5. RowsInv'
  <2>1. Told' = Told
    BY <1>1, ToldKept
  <2>2. ToSet(finalTableArray') = {}
    BY <1>1, ElementsOfEmpty
  <2> QED BY <1>1, <1>4, <2>1, <2>2 DEF RowsInv
<1>6. ScreenInv'
  <2> SUFFICES ASSUME stopsListeners > 0
               PROVE  ReloadPending'
    BY <1>1 DEF ScreenInv
  <2>1. CASE stopsAwaiting > 0
    BY <1>1, <2>1 DEF ReloadPending, Owed
  <2>2. CASE ~(stopsAwaiting > 0)
    <3>1. Told
      BY <2>2, Queues DEF Told
    <3>2. PICK b \in ToSet(q) : IsNews(b)
      BY <1>4, <3>1 DEF NoNews
    <3>3. b.kind # "fetched"
      BY <3>2 DEF IsNews
    <3> QED BY <1>1, <1>2, <3>3, PendingBlock DEF ReloadPending
  <2> QED BY <2>1, <2>2
<1>7. TimesInv'
  BY <1>1, ElementsOfEmpty DEF TimesInv
<1>8. AwaitInv'
  BY <1>1, AwaitKept DEF PageInv
<1> QED BY <1>3, <1>5, <1>6, <1>7, <1>8 DEF PageInv

LEMMA TimesSnapshotPage == IInv /\ PageInv /\ TimesSnapshot => PageInv'
<1> SUFFICES ASSUME IInv, PageInv, TimesSnapshot
             PROVE  PageInv'
  OBVIOUS
<1> DEFINE h == Head(mainQueue)
           q == Tail(mainQueue)
           a == AppendBlock(h.doc, h.reading)
<1>1. /\ Running("times")
      /\ UNCHANGED <<docs, partial, arrivals, listeners, fsQueue,
                     finalTableArray, timeArray, shown>>
  BY DEF TimesSnapshot, stored, client
<1>2. /\ mainQueue # <<>> /\ h \in Block /\ h.kind = "times" /\ q \in Seq(Block)
      /\ ToSet(mainQueue) = {h} \cup ToSet(q)
      /\ NoNews(mainQueue) <=> NoNews(q) /\ ~IsNews(h)
  BY <1>1, BlockRuns
<1>3. h.doc \in Doc /\ h.reading \in Content
  BY <1>1, RunningBlock, BlockFields
<1>4. a \in Block /\ ~IsNews(a) /\ a.kind = "append"
  BY <1>3, KindsOfBlocks DEF AppendBlock, Block
<1>5. mainQueue' = q \o <<a>>
  BY DEF TimesSnapshot, TimesPosted
<1>6. h = TimesBlock(h.doc, h.reading)
  BY <1>2 DEF Block, TimesBlock
<1>7. \A d, r : h = TimesBlock(d, r) => a = AppendBlock(d, r)
  BY DEF TimesBlock
<1>8. \A d, r : h # AppendBlock(d, r)
  BY <1>2, KindsOfBlocks
<1> HIDE DEF h, q, a
<1>9. <<a>> \in Seq(Block) /\ NoNews(<<a>>) /\ ToSet(<<a>>) = {a}
  BY <1>4 DEF NoNews, ToSet
<1>10. /\ mainQueue' \in Seq(Block) /\ ToSet(mainQueue') = ToSet(q) \cup {a}
       /\ NoNews(mainQueue') => NoNews(q)
  <2> DEFINE t == <<a>>
  <2>1. t \in Seq(Block) /\ NoNews(t) /\ ToSet(t) = {a} /\ mainQueue' = q \o t
    BY <1>5, <1>9
  <2> HIDE DEF t
  <2> QED BY <1>2, <2>1, ElementsOfConcat, NoNewsOfConcat
<1>11. NewsInv'
  BY <1>1, <1>2, <1>5, <1>9, NewsKept DEF PageInv, q
<1>12. RowsInv'
  <2>1. ~IsNews(h)
    BY <1>2 DEF IsNews
  <2> QED BY <1>1, <1>2, <1>10, <2>1, RowsKept DEF PageInv
<1>13. ReloadPending'
  BY <1>4, <1>10, PendingBlock DEF ReloadPending
<1>14. ScreenInv'
  BY <1>13 DEF ScreenInv
<1>15. TimesInv'
  <2>1. ASSUME NEW d, NEW r, TimesServed(d, r)
        PROVE  \/ [doc |-> d, reading |-> r] \in ToSet(timeArray')
               \/ TimesBlock(d, r) \in ToSet(mainQueue')
               \/ AppendBlock(d, r) \in ToSet(mainQueue')
    <3>1. CASE [doc |-> d, reading |-> r] \in ToSet(timeArray)
      BY <1>1, <3>1
    <3>2. CASE TimesBlock(d, r) \in ToSet(mainQueue)
      BY <1>2, <1>7, <1>10, <3>2
    <3>3. CASE AppendBlock(d, r) \in ToSet(mainQueue)
      BY <1>2, <1>8, <1>10, <3>3
    <3> QED BY <2>1, <3>1, <3>2, <3>3 DEF TimesServed
  <2> QED BY <1>1, <2>1, TimesPassedOn DEF PageInv
<1>16. AwaitInv'
  BY <1>1, AwaitKept DEF PageInv
<1> QED BY <1>11, <1>12, <1>14, <1>15, <1>16 DEF PageInv

LEMMA AppendTimesPage == IInv /\ PageInv /\ AppendTimes => PageInv'
<1> SUFFICES ASSUME IInv, PageInv, AppendTimes
             PROVE  PageInv'
  OBVIOUS
<1> DEFINE h == Head(mainQueue)
           q == Tail(mainQueue)
           e == [doc |-> h.doc, reading |-> h.reading]
<1>1. /\ Running("append")
      /\ UNCHANGED <<docs, partial, arrivals, listeners, fsQueue,
                     finalTableArray>>
      /\ mainQueue' = q /\ shown' = finalTableArray
      /\ timeArray' = Append(timeArray, e)
  BY DEF AppendTimes, stored, client
<1>2. /\ mainQueue # <<>> /\ h \in Block /\ h.kind = "append" /\ q \in Seq(Block)
      /\ ToSet(mainQueue) = {h} \cup ToSet(q)
      /\ NoNews(mainQueue) <=> NoNews(q) /\ ~IsNews(h)
  BY <1>1, BlockRuns
<1>3. h.doc \in Doc /\ h.reading \in Content
  BY <1>1, RunningBlock, BlockFields
<1>4. \A d, r : h = AppendBlock(d, r) => e = [doc |-> d, reading |-> r]
  BY DEF AppendBlock
<1>5. \A d, r : h # TimesBlock(d, r)
  BY <1>2, KindsOfBlocks
<1>6. e \in [doc : Doc, reading : Content]
  BY <1>3
<1> HIDE DEF h, q, e
<1>7. ToSet(timeArray') = ToSet(timeArray) \cup {e}
  <2> DEFINE T == [doc : Doc, reading : Content]
  <2>1. timeArray \in Seq(T) /\ e \in T
    BY <1>6, Queues
  <2> HIDE DEF T
  <2> QED BY <1>1, <2>1, ElementsOfAppend
<1>8. NewsInv'
  <2>1. mainQueue' = q \o <<>> /\ <<>> \in Seq(Block) /\ NoNews(<<>>)
    BY <1>1, <1>2, NothingPosted
  <2> QED BY <1>1, <1>2, <2>1, NewsKept DEF PageInv, q
<1>9. RowsInv'
  <2>1. ~IsNews(h)
    BY <1>2 DEF IsNews
  <2> QED BY <1>1, <1>2, <2>1, RowsKept DEF PageInv
<1>10. ScreenInv'
  BY <1>1 DEF ScreenInv
<1>11. TimesInv'
  <2>1. ASSUME NEW d, NEW r, TimesServed(d, r)
        PROVE  \/ [doc |-> d, reading |-> r] \in ToSet(timeArray')
               \/ TimesBlock(d, r) \in ToSet(mainQueue')
               \/ AppendBlock(d, r) \in ToSet(mainQueue')
    <3>1. CASE [doc |-> d, reading |-> r] \in ToSet(timeArray)
      BY <1>7, <3>1
    <3>2. CASE TimesBlock(d, r) \in ToSet(mainQueue)
      BY <1>1, <1>2, <1>5, <3>2
    <3>3. CASE AppendBlock(d, r) \in ToSet(mainQueue)
      BY <1>1, <1>2, <1>4, <1>7, <3>3
    <3> QED BY <2>1, <3>1, <3>2, <3>3 DEF TimesServed
  <2> QED BY <1>1, <2>1, TimesPassedOn DEF PageInv
<1>12. AwaitInv'
  BY <1>1, AwaitKept DEF PageInv
<1> QED BY <1>8, <1>9, <1>10, <1>11, <1>12 DEF PageInv

LEMMA ReloadDataPage == IInv /\ PageInv /\ ReloadData => PageInv'
<1> SUFFICES ASSUME IInv, PageInv, ReloadData
             PROVE  PageInv'
  OBVIOUS
<1> DEFINE h == Head(mainQueue)
           q == Tail(mainQueue)
<1>1. /\ Running("reload")
      /\ UNCHANGED <<docs, partial, arrivals, listeners, fsQueue,
                     finalTableArray, timeArray>>
      /\ mainQueue' = q /\ shown' = finalTableArray
  BY DEF ReloadData, stored, client
<1>2. /\ mainQueue # <<>> /\ h \in Block /\ h.kind = "reload" /\ q \in Seq(Block)
      /\ ToSet(mainQueue) = {h} \cup ToSet(q)
      /\ NoNews(mainQueue) <=> NoNews(q) /\ ~IsNews(h)
  BY <1>1, BlockRuns
<1> HIDE DEF h, q
<1>3. NewsInv'
  <2>1. mainQueue' = q \o <<>> /\ <<>> \in Seq(Block) /\ NoNews(<<>>)
    BY <1>1, <1>2, NothingPosted
  <2> QED BY <1>1, <1>2, <2>1, NewsKept DEF PageInv, q
<1>4. RowsInv'
  <2>1. ~IsNews(h)
    BY <1>2 DEF IsNews
  <2> QED BY <1>1, <1>2, <2>1, RowsKept DEF PageInv
<1>5. ScreenInv'
  BY <1>1 DEF ScreenInv
<1>6. TimesInv'
  BY <1>1, <1>2, TimesKept DEF PageInv
<1>7. AwaitInv'
  BY <1>1, AwaitKept DEF PageInv
<1> QED BY <1>3, <1>4, <1>5, <1>6, <1>7 DEF PageInv

LEMMA TrainTimesPage == IInv /\ PageInv /\ TrainTimes => PageInv'
<1> SUFFICES ASSUME IInv, PageInv, TrainTimes
             PROVE  PageInv'
  OBVIOUS
<1> DEFINE h == Head(mainQueue)
           q == Tail(mainQueue)
           w == [i \in DOMAIN h.trains |-> WriteTimes(h.doc, h.trains[i])]
<1>1. /\ Running("fetched")
      /\ UNCHANGED <<docs, partial, arrivals, listeners,
                     finalTableArray, timeArray, shown>>
      /\ mainQueue' = q /\ fsQueue' = fsQueue \o w
  BY DEF TrainTimes, stored
<1>2. /\ mainQueue # <<>> /\ h \in Block /\ h.kind = "fetched" /\ q \in Seq(Block)
      /\ ToSet(mainQueue) = {h} \cup ToSet(q)
      /\ NoNews(mainQueue) <=> NoNews(q) /\ ~IsNews(h)
  BY <1>1, BlockRuns
<1>3. w \in Seq(Call)
  <2>1. h.doc \in Doc /\ h.trains \in Seq(Reading)
    BY <1>1, RunningBlock, BlockFields
  <2>2. \A i \in DOMAIN h.trains : WriteTimes(h.doc, h.trains[i]) \in Call
    BY <2>1 DEF WriteTimes, Call, Content
  <2> QED BY <2>1, <2>2
<1> HIDE DEF h, q, w
<1>4. ToSet(fsQueue') = ToSet(fsQueue) \cup ToSet(w)
  BY <1>1, <1>3, Queues, ElementsOfConcat
<1>5. NewsInv'
  <2>1. mainQueue' = q \o <<>> /\ <<>> \in Seq(Block) /\ NoNews(<<>>)
    BY <1>1, <1>2, NothingPosted
  <2> QED BY <1>1, <1>2, <2>1, NewsKept DEF PageInv, q
<1>6. RowsInv'
  <2>1. ~IsNews(h)
    BY <1>2 DEF IsNews
  <2> QED BY <1>1, <1>2, <1>4, <2>1, RowsKept DEF PageInv
<1>7. ScreenInv'
  BY <1>1, <1>2, <1>4, ScreenKept DEF PageInv
<1>8. TimesInv'
  BY <1>1, <1>2, <1>4, TimesKept DEF PageInv
<1>9. AwaitInv'
  BY <1>1, AwaitKept DEF PageInv
<1> QED BY <1>5, <1>6, <1>7, <1>8, <1>9 DEF PageInv

-----------------------------------------------------------------------------
(* So do the user, the timers and the answers of TfL. *)

LEMMA StoppedPage ==
    ASSUME IInv, PageInv,
           UNCHANGED <<docs, partial, arrivals, listeners, fsQueue,
                       mainQueue, finalTableArray, timeArray, shown>>
    PROVE  PageInv'
<1>1. NewsInv'
  <2>1. mainQueue' = mainQueue \o <<>> /\ <<>> \in Seq(Block) /\ NoNews(<<>>)
    BY Queues, NothingPosted
  <2> QED BY <2>1, NewsKept DEF PageInv
<1>2. RowsInv'
  BY RowsKept DEF PageInv
<1>3. ScreenInv'
  BY ScreenKept DEF PageInv
<1>4. TimesInv'
  BY TimesKept DEF PageInv
<1>5. AwaitInv'
  BY AwaitKept DEF PageInv
<1> QED BY <1>1, <1>2, <1>3, <1>4, <1>5 DEF PageInv

LEMMA AddStopPage == ASSUME IInv, PageInv, NEW d \in Doc, AddStop(d) PROVE PageInv'
<1> DEFINE t == <<SetStop(d), ListenStops>>
<1>1. /\ UNCHANGED <<docs, arrivals, listeners, mainQueue, shown>>
      /\ finalTableArray' = <<>> /\ fsQueue' = fsQueue \o t
  BY DEF AddStop
<1>2. t \in Seq(Call) /\ ListenStops \in ToSet(t)
  <2>1. SetStop(d) \in Call /\ ListenStops \in Call
    BY DEF SetStop, ListenStops, Call
  <2>2. t[2] = ListenStops /\ 2 \in DOMAIN t
    OBVIOUS
  <2> QED BY <2>1, <2>2 DEF ToSet
<1> HIDE DEF t
<1>3. ListenStops \in ToSet(fsQueue')
  BY <1>1, <1>2, Queues, ElementsOfConcat
<1>4. NewsInv'
  <2>1. mainQueue' = mainQueue \o <<>> /\ <<>> \in Seq(Block) /\ NoNews(<<>>)
    BY <1>1, Queues, NothingPosted
  <2> QED BY <1>1, <2>1, NewsKept DEF PageInv
<1>5. RowsInv'
  <2>1. ToSet(finalTableArray') = {}
    BY <1>1, ElementsOfEmpty
  <2> QED BY <1>3, <2>1 DEF RowsInv
<1>6. ReloadPending'
  <2>1. \E i \in DOMAIN fsQueue' : fsQueue'[i].op = "listenStops"
    BY <1>3, OpsOfCalls DEF ToSet
  <2> QED BY <2>1 DEF ReloadPending
<1>7. ScreenInv'
  BY <1>6 DEF ScreenInv
<1>8. TimesInv'
  BY <1>1, ElementsOfEmpty DEF TimesInv
<1>9. AwaitInv'
  BY <1>1, AwaitKept DEF PageInv
<1> QED BY <1>4, <1>5, <1>7, <1>8, <1>9 DEF PageInv

LEMMA HiddenContainerViewTappedPage ==
    ASSUME IInv, PageInv, NEW i \in DOMAIN shown, HiddenContainerViewTapped(i)
    PROVE  PageInv'
<1>0. UNCHANGED <<docs, partial, arrivals, listeners>>
  BY DEF HiddenContainerViewTapped, stored
<1>1. CASE i \notin DOMAIN finalTableArray
  <2>1. UNCHANGED <<fsQueue, mainQueue, finalTableArray, timeArray, shown>>
    BY <1>1 DEF HiddenContainerViewTapped, page
  <2> QED BY <1>0, <2>1, StoppedPage
<1>2. CASE i \in DOMAIN finalTableArray
  <2> DEFINE d == finalTableArray[i]
             t == DeleteCalls(DocAt(i))
  <2>1. /\ finalTableArray' = RemoveAt(finalTableArray, i)
        /\ fsQueue' = fsQueue \o t
        /\ \/ /\ Len(finalTableArray) = Len(shown)
              /\ mainQueue' = Append(mainQueue, ReloadBlock)
           \/ /\ Len(finalTableArray) # Len(shown)
              /\ UNCHANGED <<shown, mainQueue>>
        /\ timeArray' = timeArray
    BY <1>2 DEF HiddenContainerViewTapped
  <2>2. finalTableArray \in Seq(Doc) /\ i \in 1 .. Len(finalTableArray) /\ d \in Doc
    <3>1. finalTableArray \in Seq(Doc)
      BY Queues
    <3> QED BY <1>2, <3>1
  <2>3. ToSet(finalTableArray') = ToSet(finalTableArray) \ {d}
    <3>1. Distinct(finalTableArray)
      BY DEF IInv, NoDuplicateRows, Distinct
    <3> QED BY <2>1, <2>2, <3>1, RemoveKeepsRows
  <2>4. t \in Seq(Call) /\ ToSet(t) = {DeleteStop(d), WriteTimes(d, NoTimes)}
    <3>1. t = <<DeleteStop(d), WriteTimes(d, NoTimes)>>
      BY DEF DeleteCalls, DocAt
    <3>2. DeleteStop(d) \in Call /\ WriteTimes(d, NoTimes) \in Call
      BY <2>2 DEF DeleteStop, WriteTimes, Call, Content
    <3>3. t[1] = DeleteStop(d) /\ t[2] = WriteTimes(d, NoTimes) /\ DOMAIN t = 1 .. 2
      BY <3>1
    <3>4. ToSet(t) = {t[1], t[2]}
      <4> HIDE DEF t
      <4> QED BY <3>3 DEF ToSet
    <3> QED BY <3>1, <3>2, <3>3, <3>4
  <2> HIDE DEF d, t
  <2>5. ToSet(fsQueue') = ToSet(fsQueue) \cup {DeleteStop(d), WriteTimes(d, NoTimes)}
    <3>1. fsQueue \in Seq(Call) /\ fsQueue' = fsQueue \o t
      BY <2>1, Queues
    <3>2. ToSet(fsQueue \o t) = ToSet(fsQueue) \cup ToSet(t)
      BY <2>4, <3>1, ElementsOfConcat
    <3> QED BY <2>4, <3>1, <3>2
  <2>6. PICK u \in Seq(Block) : /\ mainQueue' = mainQueue \o u /\ NoNews(u)
                                /\ u = <<ReloadBlock>> \/ Len(finalTableArray) # Len(shown)
    <3>1. ReloadBlock \in Block /\ ~IsNews(ReloadBlock)
      BY KindsOfBlocks DEF Block, ReloadBlock
    <3>2. <<ReloadBlock>> \in Seq(Block) /\ NoNews(<<ReloadBlock>>)
      BY <3>1 DEF NoNews, ToSet
    <3>3. /\ Append(mainQueue, ReloadBlock) = mainQueue \o <<ReloadBlock>>
          /\ mainQueue \o <<>> = mainQueue /\ <<>> \in Seq(Block) /\ NoNews(<<>>)
      BY <3>1, Queues, AppendIsConcat, NothingPosted
    <3> QED BY <2>1, <3>2, <3>3
  <2>7. ToSet(mainQueue') = ToSet(mainQueue) \cup ToSet(u) /\ mainQueue' \in Seq(Block)
    BY <2>6, Queues, ElementsOfConcat
  <2>8. NewsInv'
    BY <1>0, <2>6, NewsKept DEF PageInv
  <2>9. RowsInv'
    <3>1. Rows(docs)' = Rows(docs) /\ Told' = Told
      BY <1>0, ToldKept DEF Rows, Reached
    <3>2. /\ NoNews(mainQueue') => NoNews(mainQueue)
          /\ ListenStops \notin ToSet(fsQueue') => ListenStops \notin ToSet(fsQueue)
      BY <2>5, <2>7 DEF NoNews
    <3>3. Deleting \cup {d} \subseteq Deleting'
      BY <2>2, <2>5 DEF Deleting
    <3> QED BY <2>3, <3>1, <3>2, <3>3 DEF PageInv, RowsInv
  <2>10. ScreenInv'
    <3>1. CASE u = <<ReloadBlock>>
      <4>1. ReloadBlock \in ToSet(mainQueue')
        <5>1. u[1] = ReloadBlock /\ 1 \in DOMAIN u
          BY <3>1
        <5>2. ReloadBlock \in ToSet(u)
          BY <5>1 DEF ToSet
        <5> QED BY <2>7, <5>2
      <4>2. ReloadPending'
        BY <2>7, <4>1, KindsOfBlocks, PendingBlock DEF ReloadPending
      <4> QED BY <4>2 DEF ScreenInv
    <3>2. CASE Len(finalTableArray) # Len(shown)
      <4>1. shown # finalTableArray
        BY <3>2
      <4>2. \/ Len(finalTableArray) = Len(shown)
            \/ shown' = shown /\ mainQueue' = mainQueue
        BY <2>1
      <4>3. stopsListeners > 0 => ReloadPending
        BY <4>1 DEF PageInv, ScreenInv
      <4>4. ReloadPending => ReloadPending'
        <5>1. /\ \A b \in ToSet(mainQueue) : b \in ToSet(mainQueue')
              /\ \A c \in ToSet(fsQueue) : c \in ToSet(fsQueue')
          BY <2>5, <2>7
        <5> QED BY <1>0, <5>1, PendingKept
      <4> QED BY <1>0, <4>3, <4>4 DEF ScreenInv
    <3> QED BY <2>6, <3>1, <3>2
  <2>11. TimesInv'
    BY <1>0, <2>1, <2>3, <2>5, <2>7, TimesKept DEF PageInv
  <2>12. AwaitInv'
    BY <1>0, AwaitKept DEF PageInv
  <2> QED BY <2>8, <2>9, <2>10, <2>11, <2>12 DEF PageInv
<1> QED BY <1>1, <1>2

LEMMA MoveItemAtPage ==
    ASSUME IInv, PageInv, NEW i \in DOMAIN shown, NEW j \in DOMAIN shown, MoveItemAt(i, j)
    PROVE  PageInv'
<1>0. UNCHANGED <<docs, partial, arrivals, listeners, fsQueue, mainQueue>>
  BY DEF MoveItemAt, stored, client
<1>1. CASE {i, j} \subseteq DOMAIN finalTableArray \cap DOMAIN timeArray
  <2>1. /\ finalTableArray' = Moved(finalTableArray, i, j)
        /\ timeArray' = Moved(timeArray, i, j)
        /\ shown' = Moved(shown, i, j)
    BY <1>1 DEF MoveItemAt
  <2>2. ToSet(finalTableArray') = ToSet(finalTableArray)
    <3>1. finalTableArray \in Seq(Doc)
      BY Queues
    <3>2. i \in 1 .. Len(finalTableArray) /\ j \in 1 .. Len(finalTableArray)
      BY <1>1, <3>1
    <3> QED BY <2>1, <3>1, <3>2, RowMoved
  <2>3. ToSet(timeArray') = ToSet(timeArray)
    <3> DEFINE T == [doc : Doc, reading : Content]
    <3>1. timeArray \in Seq(T)
      BY Queues
    <3> HIDE DEF T
    <3>2. i \in 1 .. Len(timeArray) /\ j \in 1 .. Len(timeArray)
      BY <1>1, <3>1
    <3> QED BY <2>1, <3>1, <3>2, RowMoved
  <2>4. NewsInv'
    <3>1. mainQueue' = mainQueue \o <<>> /\ <<>> \in Seq(Block) /\ NoNews(<<>>)
      BY <1>0, Queues, NothingPosted
    <3> QED BY <1>0, <3>1, NewsKept DEF PageInv
  <2>5. RowsInv'
    BY <1>0, <2>2, RowsKept DEF PageInv
  <2>6. ScreenInv'
    <3>1. shown = finalTableArray => shown' = finalTableArray'
      BY <2>1
    <3> QED BY <1>0, <3>1, ScreenKept DEF PageInv
  <2>7. TimesInv'
    BY <1>0, <2>2, <2>3, TimesKept DEF PageInv
  <2>8. AwaitInv'
    BY <1>0, AwaitKept DEF PageInv
  <2> QED BY <2>4, <2>5, <2>6, <2>7, <2>8 DEF PageInv
<1>2. CASE ~({i, j} \subseteq DOMAIN finalTableArray \cap DOMAIN timeArray)
  <2>1. UNCHANGED <<finalTableArray, timeArray, shown>>
    BY <1>2 DEF MoveItemAt
  <2> QED BY <1>0, <2>1, StoppedPage
<1> QED BY <1>1, <1>2

LEMMA TimerFiresPage == ASSUME IInv, PageInv, NEW d \in Doc, TimerFires(d) PROVE PageInv'
BY StoppedPage DEF TimerFires, stored, client, page

\* A block of trains is no news, and no reload.
LEMMA AnswerPage == ASSUME IInv, PageInv, NEW d \in Doc, Answer(d) PROVE PageInv'
<1>1. UNCHANGED <<docs, partial, arrivals, listeners, fsQueue,
                  finalTableArray, timeArray, shown>>
  BY DEF Answer, stored, client
<1>2. CASE mainQueue' = mainQueue
  BY <1>1, <1>2, StoppedPage
<1>3. CASE \E t \in Trains : mainQueue' = Append(mainQueue, FetchedBlock(d, t))
  <2>1. PICK t \in Trains : mainQueue' = Append(mainQueue, FetchedBlock(d, t))
    BY <1>3
  <2> DEFINE b == FetchedBlock(d, t)
             u == <<b>>
  <2>2. t \in Seq(Reading)
    <3>1. PICK n \in Nat : t \in [1 .. n -> Reading]
      BY BoundsAssumption DEF Trains, BoundedSeq, SeqOf
    <3> QED BY <3>1
  <2>3. b \in Block /\ ~IsNews(b)
    BY <2>2, KindsOfBlocks DEF Block, FetchedBlock
  <2>4. u \in Seq(Block) /\ NoNews(u) /\ mainQueue' = mainQueue \o u
    <3> HIDE DEF b
    <3>1. NoNews(<<b>>)
      BY <2>3 DEF NoNews, ToSet
    <3>2. Append(mainQueue, b) = mainQueue \o <<b>>
      BY <2>3, Queues, AppendIsConcat
    <3> QED BY <2>1, <2>3, <3>1, <3>2 DEF b
  <2> HIDE DEF b, u
  <2>5. ToSet(mainQueue') = ToSet(mainQueue) \cup ToSet(u)
    BY <2>4, Queues, ElementsOfConcat
  <2>6. NoNews(mainQueue') => NoNews(mainQueue)
    BY <2>5 DEF NoNews
  <2>7. NewsInv'
    BY <1>1, <2>4, NewsKept DEF PageInv
  <2>8. RowsInv'
    BY <1>1, <2>6, RowsKept DEF PageInv
  <2>9. ScreenInv'
    BY <1>1, <2>5, ScreenKept DEF PageInv
  <2>10. TimesInv'
    BY <1>1, <2>5, TimesKept DEF PageInv
  <2>11. AwaitInv'
    BY <1>1, AwaitKept DEF PageInv
  <2> QED BY <2>7, <2>8, <2>9, <2>10, <2>11 DEF PageInv
<1> QED BY <1>2, <1>3 DEF Answer

-----------------------------------------------------------------------------
(* So do the worker and the other devices. *)

\* A change of the collection calls every listener, and they have the last word.
LEMMA ChangeDocsPage ==
    ASSUME IInv, PageInv, NEW S \in SUBSET Doc, ChangeDocs(S),
           S = docs => partial' = partial,
           UNCHANGED <<arrivals, stopsListeners, timesListeners, timesAwaiting,
                       finalTableArray, timeArray, shown>>,
           \A c \in ToSet(fsQueue) :
              c.op \in {"listenStops", "listenTimes"} => c \in ToSet(fsQueue'),
           \A d \in S : DeleteStop(d) \in ToSet(fsQueue) => DeleteStop(d) \in ToSet(fsQueue')
    PROVE  PageInv'
<1>1. /\ docs' = S /\ mainQueue \in Seq(Block)
      /\ stopsListeners \in Nat /\ stopsAwaiting \in Nat
  BY Queues DEF ChangeDocs
<1>2. CASE S = docs
  <2>1. /\ mainQueue' = mainQueue /\ mainQueue \o <<>> = mainQueue
        /\ <<>> \in Seq(Block) /\ NoNews(<<>>)
        /\ stopsAwaiting' = stopsAwaiting /\ docs' = docs
    BY <1>1, <1>2, NothingPosted DEF ChangeDocs
  <2>2. NewsInv'
    <3>1. mainQueue' = mainQueue \o <<>>
      BY <2>1
    <3> QED BY <2>1, <3>1, NewsKept DEF PageInv
  <2>3. RowsInv'
    <3>1. Rows(docs)' = Rows(docs) /\ Told' = Told
      BY <1>2, <2>1, ToldKept DEF Rows, Reached
    <3>2. ListenStops \notin ToSet(fsQueue') => ListenStops \notin ToSet(fsQueue)
      BY OpsOfCalls
    <3>3. \A d \in Rows(docs) : d \in Deleting => d \in Deleting'
      BY <1>2 DEF Deleting, Rows, Reached
    <3> QED BY <2>1, <3>1, <3>2, <3>3 DEF PageInv, RowsInv
  <2>4. ScreenInv'
    BY <2>1, ScreenKept DEF PageInv
  <2>5. TimesInv'
    BY <2>1, TimesKept DEF PageInv
  <2>6. AwaitInv'
    BY <2>1, AwaitKept DEF PageInv
  <2> QED BY <2>2, <2>3, <2>4, <2>5, <2>6 DEF PageInv
<1>3. CASE S # docs
  <2> DEFINE b == StopsBlock(S)
             t == Copies(stopsListeners, b)
  <2>1. b \in Block /\ IsNews(b) /\ b.kind # "fetched" /\ b = StopsBlock(S)
    BY KindsOfBlocks DEF Block, StopsBlock
  <2>2. mainQueue' = mainQueue \o t /\ stopsAwaiting' = 0
    BY <1>3 DEF ChangeDocs
  <2> HIDE DEF b
  <2>3. /\ t \in Seq(Block)
        /\ stopsListeners > 0 => t # <<>> /\ ToSet(t) = {b}
        /\ stopsListeners = 0 => t = <<>>
        /\ \A i \in 1 .. Len(t) : t[i] = b
    BY <1>1, <2>1, CopiesElements
  <2> HIDE DEF t
  <2>4. ToSet(mainQueue') = ToSet(mainQueue) \cup ToSet(t) /\ mainQueue' \in Seq(Block)
    BY <1>1, <2>2, <2>3, ElementsOfConcat
  <2>5. ASSUME stopsListeners > 0
        PROVE  NewsInv' /\ RowsInv' /\ ScreenInv'
    <3>1. LastNews(mainQueue', b) /\ ~NoNews(mainQueue')
      BY <1>1, <2>1, <2>2, <2>3, <2>5, LastNewsOfNew
    <3>2. Latest' = b
      BY <1>1, <2>1, <2>2, <2>5 DEF Latest, Told
    <3>3. b \in ToSet(mainQueue')
      BY <2>3, <2>4, <2>5
    <3>4. \E i \in DOMAIN mainQueue' : mainQueue'[i].kind # "fetched"
      BY <2>1, <2>4, <3>3, PendingBlock
    <3>5. ReloadPending'
      BY <3>4 DEF ReloadPending
    <3> QED BY <3>1, <3>2, <3>5 DEF NewsInv, RowsInv, ScreenInv
  <2>6. ASSUME ~(stopsListeners > 0)
        PROVE  NewsInv' /\ RowsInv' /\ ScreenInv'
    <3>1. stopsListeners = 0 /\ ~Told /\ ~Told'
      BY <1>1, <2>2, <2>6 DEF Told
    <3>2. mainQueue' = mainQueue
      BY <1>1, <2>2, <2>3, <3>1, NothingPosted
    <3>3. Latest' = Latest
      BY <3>1 DEF Latest
    <3>4. NewsInv'
      BY <3>2, <3>3 DEF PageInv, NewsInv
    <3>5. RowsInv'
      BY <3>1, <3>2 DEF PageInv, RowsInv
    <3> QED BY <2>6, <3>4, <3>5 DEF ScreenInv
  <2>7. TimesInv'
    BY <2>4, TimesKept DEF PageInv
  <2>8. AwaitInv'
    BY <1>1, <2>2 DEF PageInv, AwaitInv
  <2> QED BY <2>5, <2>6, <2>7, <2>8 DEF PageInv
<1> QED BY <1>2, <1>3

LEMMA CallServed ==
    ASSUME IInv, NEW op, Serving(op)
    PROVE  /\ fsQueue # <<>> /\ Head(fsQueue) \in Call /\ Head(fsQueue).op = op
           /\ fsQueue' \in Seq(Call)
           /\ ToSet(fsQueue) = {Head(fsQueue)} \cup ToSet(fsQueue')
           /\ UNCHANGED <<partial, finalTableArray, timeArray, shown>>
<1>1. fsQueue # <<>> /\ fsQueue' = Tail(fsQueue) /\ Head(fsQueue).op = op
  BY DEF Serving
<1>2. fsQueue \in Seq(Call)
  BY Queues
<1>3. /\ ToSet(fsQueue) = {Head(fsQueue)} \cup ToSet(Tail(fsQueue))
      /\ Tail(fsQueue) \in Seq(Call) /\ Head(fsQueue) \in Call
  BY <1>1, <1>2, ElementsOfTail
<1> QED BY <1>1, <1>3 DEF Serving

\* The collection's callbacks, to new listeners or to those that have awaited them:
\* they have the last word.
LEMMA StopsPosted ==
    ASSUME IInv, PageInv, NEW t \in Seq(Block), t # <<>>,
           \A i \in 1 .. Len(t) : t[i] = StopsBlock(docs),
           mainQueue' = mainQueue \o t, docs' = docs, Told'
    PROVE  /\ NewsInv' /\ RowsInv' /\ ScreenInv'
           /\ ToSet(mainQueue) \subseteq ToSet(mainQueue')
<1> DEFINE b == StopsBlock(docs)
<1>1. IsNews(b) /\ b.kind # "fetched" /\ Latest' = b
  BY KindsOfBlocks DEF Latest
<1> HIDE DEF b
<1>2. mainQueue \in Seq(Block) /\ \A i \in 1 .. Len(t) : t[i] = b
  BY Queues DEF b
<1>3. LastNews(mainQueue', b) /\ ~NoNews(mainQueue')
  BY <1>1, <1>2, LastNewsOfNew
<1>4. ToSet(mainQueue') = ToSet(mainQueue) \cup ToSet(t) /\ mainQueue' \in Seq(Block)
  BY <1>2, ElementsOfConcat
<1>5. ReloadPending'
  <2>1. PICK c \in ToSet(mainQueue') : IsNews(c)
    BY <1>3 DEF NoNews
  <2>2. c.kind # "fetched"
    BY <2>1 DEF IsNews
  <2> QED BY <1>4, <2>2, PendingBlock DEF ReloadPending
<1> QED BY <1>1, <1>3, <1>4, <1>5 DEF NewsInv, RowsInv, ScreenInv

LEMMA ServeListenStopsPage == IInv /\ PageInv /\ ServeListenStops => PageInv'
<1> SUFFICES ASSUME IInv, PageInv, ServeListenStops
             PROVE  PageInv'
  OBVIOUS
<1> DEFINE b == StopsBlock(docs)
<1>1. /\ Serving("listenStops")
      /\ UNCHANGED <<docs, arrivals, timesListeners, timesAwaiting>>
      /\ stopsListeners' = stopsListeners + 1
  BY DEF ServeListenStops
<1>2. /\ ToSet(fsQueue) = {Head(fsQueue)} \cup ToSet(fsQueue')
      /\ Head(fsQueue).op = "listenStops"
      /\ UNCHANGED <<partial, finalTableArray, timeArray, shown>>
  BY <1>1, CallServed
<1>3. /\ mainQueue \in Seq(Block) /\ b \in Block
      /\ stopsListeners \in Nat /\ stopsAwaiting \in Nat
      /\ stopsAwaiting <= stopsListeners
  BY Queues DEF Block, StopsBlock, PageInv, AwaitInv
<1>4. CASE /\ stopsAwaiting = 0
           /\ mainQueue' = Append(mainQueue, b)
           /\ UNCHANGED stopsAwaiting
  <2> DEFINE t == <<b>>
  <2>1. t \in Seq(Block) /\ t # <<>> /\ \A i \in 1 .. Len(t) : t[i] = StopsBlock(docs)
    BY <1>3
  <2>2. mainQueue' = mainQueue \o t
    BY <1>3, <1>4, AppendIsConcat
  <2>3. Told'
    BY <1>1, <1>3, <1>4 DEF Told
  <2> HIDE DEF b, t
  <2>4. /\ NewsInv' /\ RowsInv' /\ ScreenInv'
        /\ ToSet(mainQueue) \subseteq ToSet(mainQueue')
    BY <1>1, <2>1, <2>2, <2>3, StopsPosted
  <2>5. TimesInv'
    BY <1>1, <1>2, <2>4, TimesKept DEF PageInv
  <2>6. AwaitInv'
    BY <1>1, <1>3, <1>4 DEF PageInv, AwaitInv
  <2> QED BY <2>4, <2>5, <2>6 DEF PageInv
<1>5. CASE /\ docs = {}
           /\ stopsAwaiting' = stopsAwaiting + 1
           /\ UNCHANGED mainQueue
  <2>1. Told' = Told /\ Latest' = Latest
    BY <1>1, <1>3, <1>5 DEF Told, Latest
  <2>2. NewsInv'
    BY <1>5, <2>1 DEF PageInv, NewsInv
  <2>3. Rows(docs)' = {} /\ Rows(docs) = {}
    BY <1>1, <1>5 DEF Rows, Reached
  <2>4. RowsInv'
    BY <1>2, <1>5, <2>1, <2>3 DEF PageInv, RowsInv
  <2>5. ReloadPending'
    BY <1>3, <1>5 DEF ReloadPending, Owed
  <2>6. ScreenInv'
    BY <2>5 DEF ScreenInv
  <2>7. TimesInv'
    BY <1>1, <1>2, <1>5, TimesKept DEF PageInv
  <2>8. AwaitInv'
    BY <1>1, <1>3, <1>5 DEF PageInv, AwaitInv
  <2> QED BY <2>2, <2>4, <2>6, <2>7, <2>8 DEF PageInv
<1> QED BY <1>4, <1>5 DEF ServeListenStops

\* A withheld first event of the collection is raised.
LEMMA FirstStopsEventPage == IInv /\ PageInv /\ FirstStopsEvent => PageInv'
<1> SUFFICES ASSUME IInv, PageInv, FirstStopsEvent
             PROVE  PageInv'
  OBVIOUS
<1> DEFINE b == StopsBlock(docs)
           t == Copies(stopsAwaiting, b)
<1>1. /\ stopsAwaiting > 0 /\ stopsAwaiting' = 0
      /\ mainQueue' = mainQueue \o t
      /\ UNCHANGED <<partial, docs, arrivals, stopsListeners, timesListeners, timesAwaiting,
                     fsQueue, finalTableArray, timeArray>>
  BY DEF FirstStopsEvent, Watch
<1>2. /\ b \in Block /\ stopsListeners \in Nat /\ stopsAwaiting \in Nat
      /\ stopsAwaiting <= stopsListeners
  BY Queues DEF Block, StopsBlock, PageInv, AwaitInv
<1>3. Told'
  BY <1>1, <1>2 DEF Told
<1>4. b = StopsBlock(docs)
  OBVIOUS
<1> HIDE DEF b
<1>5. t \in Seq(Block) /\ t # <<>> /\ \A i \in 1 .. Len(t) : t[i] = b
  BY <1>1, <1>2, CopiesElements
<1> HIDE DEF t
<1>6. /\ NewsInv' /\ RowsInv' /\ ScreenInv'
      /\ ToSet(mainQueue) \subseteq ToSet(mainQueue')
  BY <1>1, <1>3, <1>4, <1>5, StopsPosted
<1>7. TimesInv'
  BY <1>1, <1>6, TimesKept DEF PageInv
<1>8. AwaitInv'
  BY <1>1, <1>2 DEF PageInv, AwaitInv
<1> QED BY <1>6, <1>7, <1>8 DEF PageInv

\* Blocks that are no news leave the last word and the rows alone.
LEMMA OtherPosted ==
    ASSUME IInv, PageInv, NEW t \in Seq(Block), NoNews(t),
           mainQueue' = mainQueue \o t,
           UNCHANGED <<docs, partial, stopsListeners, stopsAwaiting, finalTableArray>>,
           \A c \in ToSet(fsQueue) :
              c.op \in {"listenStops", "deleteStop"} => c \in ToSet(fsQueue')
    PROVE  /\ NewsInv' /\ RowsInv'
           /\ ToSet(mainQueue') = ToSet(mainQueue) \cup ToSet(t) /\ mainQueue' \in Seq(Block)
<1>1. ToSet(mainQueue') = ToSet(mainQueue) \cup ToSet(t) /\ mainQueue' \in Seq(Block)
  BY Queues, ElementsOfConcat
<1>2. NewsInv'
  BY NewsKept DEF PageInv
<1>3. NoNews(mainQueue') => NoNews(mainQueue)
  BY <1>1 DEF NoNews
<1> QED BY <1>1, <1>2, <1>3, RowsKept DEF PageInv

\* the callbacks of an arrival-times document
LEMMA TimesBlocks ==
    ASSUME IInv, NEW d \in Doc, NEW r \in Content, NEW n \in Nat
    PROVE  /\ Copies(n, TimesBlock(d, r)) \in Seq(Block)
           /\ NoNews(Copies(n, TimesBlock(d, r)))
           /\ n > 0 => ToSet(Copies(n, TimesBlock(d, r))) = {TimesBlock(d, r)}
<1> DEFINE b == TimesBlock(d, r)
           t == Copies(n, b)
<1>1. b \in Block /\ ~IsNews(b)
  BY KindsOfBlocks DEF Block, TimesBlock
<1> HIDE DEF b
<1>2. /\ t \in Seq(Block)
      /\ n > 0 => ToSet(t) = {b}
      /\ \A i \in 1 .. Len(t) : t[i] = b
  BY <1>1, CopiesElements
<1> HIDE DEF t
<1>3. NoNews(t)
  BY <1>1, <1>2, NoNewsElements
<1> QED BY <1>2, <1>3 DEF b, t

LEMMA ServeListenTimesPage == IInv /\ PageInv /\ ServeListenTimes => PageInv'
<1> SUFFICES ASSUME IInv, PageInv, ServeListenTimes
             PROVE  PageInv'
  OBVIOUS
<1> DEFINE h == Head(fsQueue)
           e == h.doc
           b == TimesBlock(e, arrivals[e])
<1>1. /\ Serving("listenTimes")
      /\ UNCHANGED <<docs, arrivals, stopsListeners, stopsAwaiting>>
      /\ timesListeners' = [timesListeners EXCEPT ![e] = @ + 1]
      /\ \/ /\ mainQueue' = Append(mainQueue, b)
            /\ timesAwaiting' = timesAwaiting
         \/ /\ arrivals[e] = NoTimes
            /\ timesAwaiting' = [timesAwaiting EXCEPT ![e] = @ + 1]
            /\ mainQueue' = mainQueue
  BY DEF ServeListenTimes
<1>2. /\ ToSet(fsQueue) = {h} \cup ToSet(fsQueue')
      /\ h \in Call /\ h.op = "listenTimes"
      /\ UNCHANGED <<partial, finalTableArray, timeArray, shown>>
  BY <1>1, CallServed
<1>3. e \in Doc /\ h = ListenTimes(e)
  BY <1>2 DEF Call, ListenTimes
<1>4. /\ mainQueue \in Seq(Block) /\ b \in Block /\ ~IsNews(b) /\ b.kind # "fetched"
      /\ b = TimesBlock(e, arrivals[e])
      /\ timesListeners \in [Doc -> Nat] /\ timesAwaiting \in [Doc -> Nat]
  BY <1>3, Queues, KindsOfBlocks DEF Block, TimesBlock
<1>5. \A d : h = ListenTimes(d) => d = e
  BY DEF ListenTimes
<1> HIDE DEF b, h, e
<1>6. PICK t \in Seq(Block) : /\ mainQueue' = mainQueue \o t /\ NoNews(t)
                              /\ b \in ToSet(t) \/ timesAwaiting'[e] > 0
  <2>1. /\ Append(mainQueue, b) = mainQueue \o <<b>>
        /\ mainQueue \o <<>> = mainQueue /\ <<>> \in Seq(Block) /\ NoNews(<<>>)
    BY <1>4, AppendIsConcat, NothingPosted
  <2>2. <<b>> \in Seq(Block) /\ NoNews(<<b>>) /\ b \in ToSet(<<b>>)
    BY <1>4 DEF NoNews, ToSet
  <2>3. CASE mainQueue' = Append(mainQueue, b)
    BY <2>1, <2>2, <2>3
  <2>4. CASE /\ timesAwaiting' = [timesAwaiting EXCEPT ![e] = @ + 1]
             /\ mainQueue' = mainQueue
    <3>1. timesAwaiting'[e] > 0
      BY <1>3, <1>4, <2>4
    <3> QED BY <2>1, <2>4, <3>1
  <2> QED BY <1>1, <2>3, <2>4
<1>7. /\ NewsInv' /\ RowsInv'
      /\ ToSet(mainQueue') = ToSet(mainQueue) \cup ToSet(t) /\ mainQueue' \in Seq(Block)
  BY <1>1, <1>2, <1>6, OtherPosted
<1>8. ReloadPending'
  <2>1. CASE b \in ToSet(t)
    BY <1>4, <1>7, <2>1, PendingBlock DEF ReloadPending
  <2>2. CASE timesAwaiting'[e] > 0
    BY <1>3, <2>2 DEF ReloadPending, Owed
  <2> QED BY <1>6, <2>1, <2>2
<1>9. ScreenInv'
  BY <1>8 DEF ScreenInv
<1>10. \A d \in Doc : /\ d # e => /\ timesListeners'[d] = timesListeners[d]
                                  /\ timesAwaiting'[d] = timesAwaiting[d]
                      /\ timesListeners'[e] = timesListeners[e] + 1
                      /\ \/ timesAwaiting'[e] = timesAwaiting[e]
                         \/ /\ arrivals[e] = NoTimes
                            /\ timesAwaiting'[e] = timesAwaiting[e] + 1
  BY <1>1, <1>3, <1>4
<1>11. AwaitInv'
  <2>1. \A d \in Doc : timesListeners[d] \in Nat /\ timesAwaiting[d] \in Nat
    BY <1>4
  <2>2. \A d \in Doc : /\ timesAwaiting[d] <= timesListeners[d]
                       /\ timesAwaiting[d] > 0 => arrivals[d] = NoTimes
    BY DEF PageInv, AwaitInv
  <2>3. ASSUME NEW d \in Doc
        PROVE  /\ timesAwaiting'[d] <= timesListeners'[d]
               /\ timesAwaiting'[d] > 0 => arrivals[d] = NoTimes
    <3>1. CASE d = e
      BY <1>3, <1>10, <2>1, <2>2, <3>1
    <3>2. CASE d # e
      BY <1>10, <2>2, <3>2
    <3> QED BY <3>1, <3>2
  <2> QED BY <1>1, <2>3 DEF PageInv, AwaitInv
<1>12. TimesInv'
  <2> SUFFICES ASSUME NEW d \in ToSet(finalTableArray), ListenTimes(d) \notin ToSet(fsQueue')
               PROVE  /\ timesListeners'[d] > 0
                      /\ timesAwaiting'[d] > 0 \/ TimesServed(d, arrivals[d])'
    BY <1>1, <1>2 DEF TimesInv
  <2>1. d \in Doc
    BY Queues DEF ToSet
  <2>2. CASE d = e
    <3>1. timesListeners'[d] > 0
      BY <1>4, <1>10, <2>1, <2>2
    <3>2. CASE b \in ToSet(t)
      <4>1. TimesBlock(d, arrivals[d]) \in ToSet(mainQueue')
        BY <1>4, <1>7, <2>2, <3>2
      <4> QED BY <1>1, <3>1, <4>1 DEF TimesServed
    <3> QED BY <1>6, <2>2, <3>1, <3>2
  <2>3. CASE d # e
    <3>1. ListenTimes(d) \notin ToSet(fsQueue)
      BY <1>2, <1>5, <2>3
    <3>2. timesListeners[d] > 0 /\ (timesAwaiting[d] > 0 \/ TimesServed(d, arrivals[d]))
      BY <3>1 DEF PageInv, TimesInv
    <3>3. timesListeners'[d] = timesListeners[d] /\ timesAwaiting'[d] = timesAwaiting[d]
      BY <1>10, <2>1, <2>3
    <3>4. TimesServed(d, arrivals[d]) => TimesServed(d, arrivals[d])'
      BY <1>1, <1>2, <1>7 DEF TimesServed
    <3> QED BY <3>2, <3>3, <3>4
  <2> QED BY <2>2, <2>3
<1> QED BY <1>7, <1>9, <1>11, <1>12 DEF PageInv

\* A withheld first event of a stop's times is raised.
LEMMA FirstTimesEventPage ==
    ASSUME IInv, PageInv, NEW e \in Doc, FirstTimesEvent(e)
    PROVE  PageInv'
<1> DEFINE b == TimesBlock(e, arrivals[e])
           t == Copies(timesAwaiting[e], b)
<1>1. /\ timesAwaiting[e] > 0 /\ timesAwaiting' = [timesAwaiting EXCEPT ![e] = 0]
      /\ mainQueue' = mainQueue \o t
      /\ UNCHANGED <<docs, partial, arrivals, stopsListeners, timesListeners, stopsAwaiting,
                     fsQueue, finalTableArray, timeArray>>
  BY DEF FirstTimesEvent, stored
<1>2. /\ arrivals[e] \in Content
      /\ timesListeners \in [Doc -> Nat] /\ timesAwaiting \in [Doc -> Nat]
  BY Queues
<1>3. t \in Seq(Block) /\ NoNews(t) /\ ToSet(t) = {b}
  BY <1>1, <1>2, TimesBlocks
<1>4. b.kind # "fetched" /\ b = TimesBlock(e, arrivals[e])
  BY KindsOfBlocks
<1> HIDE DEF b, t
<1>5. /\ NewsInv' /\ RowsInv'
      /\ ToSet(mainQueue') = ToSet(mainQueue) \cup {b} /\ mainQueue' \in Seq(Block)
  BY <1>1, <1>3, OtherPosted
<1>6. ReloadPending'
  BY <1>4, <1>5, PendingBlock DEF ReloadPending
<1>7. ScreenInv'
  BY <1>6 DEF ScreenInv
<1>8. \A d \in Doc : timesAwaiting'[d] = IF d = e THEN 0 ELSE timesAwaiting[d]
  BY <1>1, <1>2
<1>9. AwaitInv'
  <2>1. \A d \in Doc : timesListeners[d] \in Nat
    BY <1>2
  <2> QED BY <1>1, <1>8, <2>1 DEF PageInv, AwaitInv
<1>10. TimesInv'
  <2> SUFFICES ASSUME NEW d \in ToSet(finalTableArray), ListenTimes(d) \notin ToSet(fsQueue)
               PROVE  /\ timesListeners[d] > 0
                      /\ timesAwaiting'[d] > 0 \/ TimesServed(d, arrivals[d])'
    BY <1>1 DEF TimesInv
  <2>1. d \in Doc
    BY Queues DEF ToSet
  <2>2. timesListeners[d] > 0 /\ (timesAwaiting[d] > 0 \/ TimesServed(d, arrivals[d]))
    BY DEF PageInv, TimesInv
  <2>3. CASE d = e
    <3>1. TimesBlock(d, arrivals[d]) \in ToSet(mainQueue')
      BY <1>4, <1>5, <2>3
    <3> QED BY <1>1, <2>2, <3>1 DEF TimesServed
  <2>4. CASE d # e
    <3>1. timesAwaiting'[d] = timesAwaiting[d]
      BY <1>8, <2>1, <2>4
    <3>2. TimesServed(d, arrivals[d]) => TimesServed(d, arrivals[d])'
      BY <1>1, <1>5 DEF TimesServed
    <3> QED BY <2>2, <3>1, <3>2
  <2> QED BY <2>3, <2>4
<1> QED BY <1>5, <1>7, <1>9, <1>10 DEF PageInv

LEMMA ServeSetStopPage == IInv /\ PageInv /\ ServeSetStop => PageInv'
<1> SUFFICES ASSUME IInv, PageInv, ServeSetStop
             PROVE  PageInv'
  OBVIOUS
<1> DEFINE h == Head(fsQueue)
           S == docs \cup {h.doc}
<1>1. /\ Serving("setStop")
      /\ ChangeDocs(S)
      /\ UNCHANGED <<arrivals, stopsListeners, timesListeners, timesAwaiting>>
  BY DEF ServeSetStop
<1>2. /\ ToSet(fsQueue) = {h} \cup ToSet(fsQueue')
      /\ h.op = "setStop"
      /\ UNCHANGED <<partial, finalTableArray, timeArray, shown>>
  BY <1>1, CallServed
<1>3. S \in SUBSET Doc
  <2>1. h.doc \in Doc
    BY <1>1, ServedCall, CallFields
  <2> QED BY <2>1, Queues
<1> HIDE DEF h, S
<1>4. \A d : DeleteStop(d) # h
  BY <1>2, OpsOfCalls
<1> QED BY <1>1, <1>2, <1>3, <1>4, ChangeDocsPage

LEMMA ServeDeleteStopPage == IInv /\ PageInv /\ ServeDeleteStop => PageInv'
<1> SUFFICES ASSUME IInv, PageInv, ServeDeleteStop
             PROVE  PageInv'
  OBVIOUS
<1> DEFINE h == Head(fsQueue)
           S == docs \ {h.doc}
<1>1. /\ Serving("deleteStop")
      /\ ChangeDocs(S)
      /\ UNCHANGED <<arrivals, stopsListeners, timesListeners, timesAwaiting>>
  BY DEF ServeDeleteStop
<1>2. /\ ToSet(fsQueue) = {h} \cup ToSet(fsQueue')
      /\ h.op = "deleteStop"
      /\ UNCHANGED <<partial, finalTableArray, timeArray, shown>>
  BY <1>1, CallServed
<1>3. S \in SUBSET Doc
  BY Queues
<1>4. \A d \in S : DeleteStop(d) # h
  BY OpsOfCalls
<1> HIDE DEF h, S
<1> QED BY <1>1, <1>2, <1>3, <1>4, ChangeDocsPage

LEMMA ServeWriteTimesPage == IInv /\ PageInv /\ ServeWriteTimes => PageInv'
<1> SUFFICES ASSUME IInv, PageInv, ServeWriteTimes
             PROVE  PageInv'
  OBVIOUS
<1> DEFINE h == Head(fsQueue)
           d == h.doc
           r == h.reading
           b == TimesBlock(d, r)
           t == Copies(timesListeners[d], b)
<1>1. /\ Serving("writeTimes")
      /\ UNCHANGED <<docs, stopsListeners, timesListeners, stopsAwaiting>>
      /\ arrivals' = [arrivals EXCEPT ![d] = r]
      /\ IF r = arrivals[d]
         THEN mainQueue' = mainQueue /\ timesAwaiting' = timesAwaiting
         ELSE /\ mainQueue' = mainQueue \o t
              /\ timesAwaiting' = [timesAwaiting EXCEPT ![d] = 0]
  BY DEF ServeWriteTimes
<1>2. /\ ToSet(fsQueue) = {h} \cup ToSet(fsQueue')
      /\ h \in Call /\ h.op = "writeTimes"
      /\ UNCHANGED <<partial, finalTableArray, timeArray, shown>>
  BY <1>1, CallServed
<1>3. d \in Doc /\ r \in Content
  BY <1>1, ServedCall, CallFields
<1>4. /\ timesListeners \in [Doc -> Nat] /\ timesAwaiting \in [Doc -> Nat]
      /\ timesListeners[d] \in Nat
      /\ arrivals \in [Doc -> Content] /\ mainQueue \in Seq(Block)
  BY <1>3, Queues
<1>5. /\ t \in Seq(Block) /\ NoNews(t)
      /\ timesListeners[d] > 0 => ToSet(t) = {b}
  BY <1>3, <1>4, TimesBlocks
<1>6. b.kind # "fetched" /\ b = TimesBlock(d, r)
  BY KindsOfBlocks
<1> HIDE DEF h, d, r, b, t
<1>7. \A c \in ToSet(fsQueue) :
         c.op \in {"listenStops", "listenTimes", "deleteStop"} => c \in ToSet(fsQueue')
  BY <1>2
<1>8. CASE r = arrivals[d]
  <2>1. mainQueue' = mainQueue /\ timesAwaiting' = timesAwaiting /\ arrivals' = arrivals
    BY <1>1, <1>3, <1>4, <1>8
  <2>2. NewsInv' /\ RowsInv'
    <3>1. mainQueue' = mainQueue \o <<>> /\ <<>> \in Seq(Block) /\ NoNews(<<>>)
      BY <1>4, <2>1, NothingPosted
    <3> QED BY <1>1, <1>2, <1>7, <3>1, OtherPosted
  <2>3. ScreenInv'
    BY <1>1, <1>2, <1>7, <2>1, ScreenKept DEF PageInv
  <2>4. TimesInv'
    BY <1>1, <1>2, <1>7, <2>1, TimesKept DEF PageInv
  <2>5. AwaitInv'
    BY <1>1, <2>1, AwaitKept DEF PageInv
  <2> QED BY <2>2, <2>3, <2>4, <2>5 DEF PageInv
<1>9. CASE r # arrivals[d]
  <2>1. /\ mainQueue' = mainQueue \o t
        /\ timesAwaiting' = [timesAwaiting EXCEPT ![d] = 0]
    BY <1>1, <1>9
  <2>2. /\ NewsInv' /\ RowsInv'
        /\ ToSet(mainQueue') = ToSet(mainQueue) \cup ToSet(t) /\ mainQueue' \in Seq(Block)
    BY <1>1, <1>2, <1>5, <1>7, <2>1, OtherPosted
  <2>3. \A e \in Doc : /\ timesAwaiting'[e] = IF e = d THEN 0 ELSE timesAwaiting[e]
                       /\ arrivals'[e] = IF e = d THEN r ELSE arrivals[e]
    BY <1>1, <1>4, <2>1
  <2>4. \A e \in Doc : /\ timesAwaiting[e] <= timesListeners[e]
                       /\ timesAwaiting[e] > 0 => arrivals[e] = NoTimes
    BY DEF PageInv, AwaitInv
  <2>5. ScreenInv'
    <3>1. CASE timesListeners[d] > 0
      <4>1. ReloadPending'
        BY <1>5, <1>6, <2>2, <3>1, PendingBlock DEF ReloadPending
      <4> QED BY <4>1 DEF ScreenInv
    <3>2. CASE ~(timesListeners[d] > 0)
      <4>1. timesAwaiting[d] = 0
        <5>1. timesAwaiting[d] \in Nat /\ timesAwaiting[d] <= timesListeners[d]
          BY <1>3, <1>4, <2>4
        <5> QED BY <1>4, <3>2, <5>1
      <4>2. timesAwaiting' = timesAwaiting
        BY <1>4, <2>1, <4>1
      <4> QED BY <1>1, <1>2, <1>7, <2>2, <4>2, ScreenKept DEF PageInv
    <3> QED BY <3>1, <3>2
  <2>6. AwaitInv'
    <3>1. \A e \in Doc : timesListeners[e] \in Nat
      BY <1>4
    <3>2. ASSUME NEW e \in Doc
          PROVE  /\ timesAwaiting'[e] <= timesListeners[e]
                 /\ timesAwaiting'[e] > 0 => arrivals'[e] = NoTimes
      <4>1. CASE e = d
        BY <2>3, <3>1, <4>1
      <4>2. CASE e # d
        BY <2>3, <2>4, <4>2
      <4> QED BY <4>1, <4>2
    <3> QED BY <1>1, <3>2 DEF PageInv, AwaitInv
  <2>7. TimesInv'
    <3> SUFFICES ASSUME NEW e \in ToSet(finalTableArray), ListenTimes(e) \notin ToSet(fsQueue')
                 PROVE  /\ timesListeners[e] > 0
                        /\ timesAwaiting'[e] > 0 \/ TimesServed(e, arrivals[e])'
      BY <1>1, <1>2 DEF TimesInv
    <3>1. e \in Doc
      BY Queues DEF ToSet
    <3>2. ListenTimes(e) \notin ToSet(fsQueue)
      BY <1>2, OpsOfCalls
    <3>3. timesListeners[e] > 0 /\ (timesAwaiting[e] > 0 \/ TimesServed(e, arrivals[e]))
      BY <3>2 DEF PageInv, TimesInv
    <3>4. CASE e = d
      <4>1. b \in ToSet(mainQueue') /\ arrivals'[e] = r
        BY <1>5, <2>2, <2>3, <3>1, <3>3, <3>4
      <4>2. TimesBlock(e, arrivals'[e]) \in ToSet(mainQueue')
        BY <1>6, <3>4, <4>1
      <4> QED BY <3>3, <4>2 DEF TimesServed
    <3>5. CASE e # d
      <4>1. arrivals'[e] = arrivals[e] /\ timesAwaiting'[e] = timesAwaiting[e]
        BY <2>3, <3>1, <3>5
      <4>2. TimesServed(e, arrivals[e]) => TimesServed(e, arrivals[e])'
        BY <1>2, <2>2, <4>1 DEF TimesServed
      <4> QED BY <3>3, <4>1, <4>2
    <3> QED BY <3>4, <3>5
  <2> QED BY <2>2, <2>5, <2>6, <2>7 DEF PageInv
<1> QED BY <1>8, <1>9

LEMMA RemoteSavePage == ASSUME IInv, PageInv, NEW d \in Doc, RemoteSave(d) PROVE PageInv'
<1> DEFINE S == docs \cup {d}
<1>1. /\ ChangeDocs(S) /\ d \notin used
      /\ UNCHANGED <<arrivals, stopsListeners, timesListeners, timesAwaiting, fsQueue,
                     finalTableArray, timeArray, shown>>
  BY DEF RemoteSave, Watch
<1>2. S \in SUBSET Doc /\ S # docs
  BY <1>1, Queues
<1> HIDE DEF S
<1> QED BY <1>1, <1>2, ChangeDocsPage

LEMMA RemoteDeletePage == ASSUME IInv, PageInv, NEW d \in Doc, RemoteDelete(d) PROVE PageInv'
<1> DEFINE S == docs \ {d}
<1>1. /\ ChangeDocs(S)
      /\ UNCHANGED <<partial, arrivals, stopsListeners, timesListeners, timesAwaiting,
                     fsQueue, finalTableArray, timeArray, shown>>
  BY DEF RemoteDelete, Watch
<1>2. S \in SUBSET Doc
  BY Queues
<1> HIDE DEF S
<1> QED BY <1>1, <1>2, ChangeDocsPage

\* An error ends the listeners and has the last word: the rows will go, and nothing
\* is promised of the screen until the next refresh.
LEMMA WatchErrorPage == IInv /\ PageInv /\ WatchError => PageInv'
<1> SUFFICES ASSUME IInv, PageInv, WatchError
             PROVE  PageInv'
  OBVIOUS
<1> DEFINE b == ErrorBlock
           t == Copies(stopsListeners, b)
<1>1. /\ stopsListeners > 0 /\ stopsListeners' = 0 /\ stopsAwaiting' = 0
      /\ mainQueue' = mainQueue \o t
      /\ UNCHANGED <<docs, arrivals, timesListeners, timesAwaiting, fsQueue,
                     finalTableArray, timeArray>>
  BY DEF WatchError, Watch
<1>2. b \in Block /\ IsNews(b) /\ b = ErrorBlock
  BY KindsOfBlocks DEF ErrorBlock, Block
<1>3. mainQueue \in Seq(Block) /\ stopsListeners \in Nat
  BY Queues
<1> HIDE DEF b
<1>4. t \in Seq(Block) /\ t # <<>> /\ \A i \in 1 .. Len(t) : t[i] = b
  BY <1>1, <1>2, <1>3, CopiesElements
<1> HIDE DEF t
<1>5. ToSet(mainQueue') = ToSet(mainQueue) \cup ToSet(t)
  BY <1>1, <1>3, <1>4, ElementsOfConcat
<1>6. LastNews(mainQueue', b) /\ ~NoNews(mainQueue')
  BY <1>1, <1>2, <1>3, <1>4, LastNewsOfNew
<1>7. Latest' = b
  BY <1>1, <1>2 DEF Latest, Told
<1>8. NewsInv' /\ RowsInv' /\ ScreenInv'
  BY <1>1, <1>6, <1>7 DEF NewsInv, RowsInv, ScreenInv
<1>9. TimesInv'
  BY <1>1, <1>5, TimesKept DEF PageInv
<1>10. AwaitInv'
  BY <1>1 DEF PageInv, AwaitInv
<1> QED BY <1>8, <1>9, <1>10 DEF PageInv

\* A new process starts without listeners and without rows.
LEMMA FreshPage ==
    /\ Init => PageInv
    /\ Relaunch => PageInv'
<1>1. ToSet(<<>>) = {} /\ DOMAIN <<>> = {}
  BY ElementsOfEmpty
<1>2. ASSUME Init
      PROVE  PageInv
  <2>1. NewsInv
    BY <1>1, <1>2 DEF Init, NewsInv, LastNews
  <2>2. RowsInv /\ ScreenInv /\ TimesInv
    BY <1>1, <1>2 DEF Init, RowsInv, ScreenInv, TimesInv, Told
  <2>3. AwaitInv
    BY <1>2 DEF Init, AwaitInv
  <2> QED BY <2>1, <2>2, <2>3 DEF PageInv
<1>3. ASSUME Relaunch
      PROVE  PageInv'
  <2>1. /\ stopsListeners' = 0 /\ stopsAwaiting' = 0
        /\ timesListeners' = [d \in Doc |-> 0] /\ timesAwaiting' = [d \in Doc |-> 0]
        /\ finalTableArray' = <<>> /\ mainQueue' = <<>>
    BY <1>3 DEF Relaunch
  <2>2. NewsInv'
    BY <1>1, <2>1 DEF NewsInv, LastNews
  <2>3. RowsInv' /\ ScreenInv' /\ TimesInv'
    BY <1>1, <2>1 DEF RowsInv, ScreenInv, TimesInv, Told
  <2>4. AwaitInv'
    BY <2>1 DEF AwaitInv
  <2> QED BY <2>2, <2>3, <2>4 DEF PageInv
<1> QED BY <1>2, <1>3

LEMMA StepPage == IInv /\ PageInv /\ [Next]_vars => PageInv'
<1> SUFFICES ASSUME IInv, PageInv, [Next]_vars
             PROVE  PageInv'
  OBVIOUS
<1>1. CASE MainStep
  BY <1>1, SavedStopsSnapshotPage, SavedStopsErrorPage, TimesSnapshotPage, AppendTimesPage,
     ReloadDataPage, TrainTimesPage DEF MainStep
<1>2. CASE WorkerStep
  BY <1>2, ServeListenStopsPage, ServeListenTimesPage, ServeSetStopPage, ServeDeleteStopPage,
     ServeWriteTimesPage DEF WorkerStep
<1>3. CASE UserStep
  BY <1>3, AddStopPage, HiddenContainerViewTappedPage, MoveItemAtPage DEF UserStep
<1>4. CASE NetworkStep
  BY <1>4, TimerFiresPage, AnswerPage, RemoteSavePage, RemoteDeletePage, WatchErrorPage
     DEF NetworkStep
<1>5. CASE FirstEvent
  BY <1>5, FirstStopsEventPage, FirstTimesEventPage DEF FirstEvent
<1>6. CASE Relaunch
  BY <1>6, FreshPage
<1>7. CASE UNCHANGED vars
  BY <1>7, StoppedPage DEF vars, stored, client, page
<1> QED BY <1>1, <1>2, <1>3, <1>4, <1>5, <1>6, <1>7 DEF Next

\* The page and what the queues hold for it, in every state.
THEOREM PageInvariant == Spec => [](IInv /\ PageInv)
<1>1. Init => IInv /\ PageInv
  BY InitInvariant, FreshPage
<1>2. (IInv /\ PageInv) /\ [Next]_vars => (IInv /\ PageInv)'
  BY StepInvariant, StepPage
<1> QED BY <1>1, <1>2, PTL DEF Spec

-----------------------------------------------------------------------------
(* What the invariant says of the page. *)

LEMMA PageSettles == IInv /\ PageInv => SettledRows
<1> SUFFICES ASSUME IInv, PageInv, stopsListeners > 0, ~SnapshotPending
             PROVE  ToSet(finalTableArray) =
                        {d \in docs : \A e \in docs \cap partial : d < e}
  BY DEF SettledRows
<1>1. NoNews(mainQueue)
  BY DEF SnapshotPending, NoNews, IsNews, ToSet
<1>2. \A c \in ToSet(fsQueue) : c.op \notin {"listenStops", "setStop", "deleteStop"}
  BY DEF SnapshotPending, ToSet
<1>3. ListenStops \notin ToSet(fsQueue) /\ Deleting = {}
  BY <1>2, OpsOfCalls DEF Deleting
<1>4. ToSet(finalTableArray) = Rows(docs)
  <2>1. CASE Told
    BY <1>1, <1>3, <2>1 DEF PageInv, RowsInv
  <2>2. CASE ~Told
    <3>1. stopsAwaiting > 0
      BY <2>2, Queues DEF Told
    <3>2. docs = {}
      BY <3>1 DEF PageInv, AwaitInv
    <3>3. Rows(docs) = {}
      BY <3>2 DEF Rows, Reached
    <3> QED BY <1>1, <2>2, <3>3 DEF PageInv, RowsInv
  <2> QED BY <2>1, <2>2
<1>5. docs \subseteq Nat
  BY Queues, DocAssumption
<1>6. Rows(docs) = {d \in docs : \A e \in docs \cap partial : d < e}
  <2>1. ASSUME NEW d \in docs
        PROVE  d \in Rows(docs) <=> \A e \in docs \cap partial : d < e
    <3>1. ASSUME d \in Rows(docs), NEW e \in docs \cap partial
          PROVE  d < e
      <4>1. ~(e < d) /\ e # d
        BY <3>1 DEF Rows, Reached
      <4>2. d \in Nat /\ e \in Nat
        BY <1>5
      <4> QED BY <4>1, <4>2
    <3>2. ASSUME \A e \in docs \cap partial : d < e
          PROVE  d \in Rows(docs)
      <4>1. d \notin partial
        <5>1. ~(d < d)
          BY <1>5
        <5> QED BY <3>2, <5>1
      <4>2. ASSUME NEW e \in docs, e < d
            PROVE  e \notin partial
        <5>1. ~(d < e)
          BY <1>5, <4>2
        <5> QED BY <3>2, <5>1
      <4> QED BY <4>1, <4>2 DEF Rows, Reached
    <3> QED BY <3>1, <3>2
  <2>2. Rows(docs) \subseteq docs
    BY DEF Rows, Reached
  <2> QED BY <2>1, <2>2
<1> QED BY <1>4, <1>6

\* With times for every row, there are no fewer times than rows.
LEMMA TimesCoverRows ==
    ASSUME IInv, \A d \in ToSet(finalTableArray) :
                    \E r : [doc |-> d, reading |-> r] \in ToSet(timeArray)
    PROVE  Len(timeArray) >= Len(finalTableArray)
<1> DEFINE m == Len(finalTableArray)
           n == Len(timeArray)
           At(i, j) == timeArray[j].doc = finalTableArray[i]
           f == [i \in 1 .. m |-> CHOOSE j \in 1 .. n : At(i, j)]
<1>1. /\ m \in Nat /\ n \in Nat
      /\ DOMAIN finalTableArray = 1 .. m /\ DOMAIN timeArray = 1 .. n
  BY Queues
<1>2. ASSUME NEW i \in 1 .. m
      PROVE  \E j \in 1 .. n : At(i, j)
  <2>1. finalTableArray[i] \in ToSet(finalTableArray)
    BY <1>1 DEF ToSet
  <2>2. PICK r : [doc |-> finalTableArray[i], reading |-> r] \in ToSet(timeArray)
    BY <2>1
  <2>3. PICK j \in 1 .. n : timeArray[j] = [doc |-> finalTableArray[i], reading |-> r]
    BY <1>1, <2>2 DEF ToSet
  <2> QED BY <2>3
<1>3. \A i, k \in 1 .. m : finalTableArray[i] = finalTableArray[k] => i = k
  BY <1>1 DEF IInv, NoDuplicateRows
<1> HIDE DEF m, n
<1>4. \A i \in 1 .. m : f[i] \in 1 .. n /\ At(i, f[i])
  <2> HIDE DEF At
  <2> QED BY <1>2
<1>5. f \in [1 .. m -> 1 .. n] /\ (\A i, k \in 1 .. m : f[i] = f[k] => i = k)
  <2>1. f \in [1 .. m -> 1 .. n]
    <3>1. DOMAIN f = 1 .. m /\ f = [i \in 1 .. m |-> f[i]]
      OBVIOUS
    <3> HIDE DEF f
    <3> QED BY <1>4, <3>1
  <2>2. ASSUME NEW i \in 1 .. m, NEW k \in 1 .. m, f[i] = f[k]
        PROVE  i = k
    <3>1. At(i, f[i]) /\ At(k, f[i])
      BY <1>4, <2>2
    <3> HIDE DEF f
    <3> QED BY <1>3, <3>1
  <2> QED BY <2>1, <2>2
<1> HIDE DEF f
<1>6. /\ IsFiniteSet(1 .. m) /\ IsFiniteSet(1 .. n)
      /\ Cardinality(1 .. m) = m /\ Cardinality(1 .. n) = n
  BY <1>1, FS_Interval
<1>7. ~(n < m)
  <2> DEFINE S == 1 .. m
             T == 1 .. n
  <2>1. /\ IsFiniteSet(S) /\ IsFiniteSet(T) /\ f \in [S -> T]
        /\ n < m => Cardinality(T) < Cardinality(S)
        /\ \A i, k \in S : f[i] = f[k] => i = k
    BY <1>5, <1>6
  <2> HIDE DEF S, T
  <2> QED BY <2>1, FS_PigeonHole
<1> QED BY <1>1, <1>7 DEF m, n

LEMMA QuietPage ==
    ASSUME IInv, PageInv, mainQueue = <<>>, fsQueue = <<>>
    PROVE  /\ EveryRowHasTimes
           /\ ~Owed => Len(timeArray) >= Len(finalTableArray)
           /\ ~Owed /\ stopsListeners > 0 => shown = finalTableArray
<1> DEFINE owed == {d \in ToSet(finalTableArray) : timesAwaiting[d] > 0}
<1>1. ToSet(mainQueue) = {} /\ ToSet(fsQueue) = {} /\ ToSet(finalTableArray) \subseteq Doc
  BY ElementsOfEmpty, Queues DEF ToSet
<1>2. \A d \in ToSet(finalTableArray) \ owed :
         [doc |-> d, reading |-> arrivals[d]] \in ToSet(timeArray)
  BY <1>1 DEF PageInv, TimesInv, TimesServed
<1>3. \A d \in owed : arrivals[d] = NoTimes
  BY <1>1 DEF PageInv, AwaitInv
<1>4. owed = {} => Len(timeArray) >= Len(finalTableArray)
  BY <1>2, TimesCoverRows
<1>5. ~Owed => owed = {} /\ ~ReloadPending
  BY <1>1 DEF ReloadPending, Owed
<1> QED BY <1>2, <1>3, <1>4, <1>5 DEF PageInv, ScreenInv, EveryRowHasTimes

\* Only a touch ends the process.
LEMMA OnlyTouchesTrap ==
    ASSUME [Next]_vars, app = "running", app' = "trapped"
    PROVE  \/ \E i \in DOMAIN shown : HiddenContainerViewTapped(i)
           \/ \E i, j \in DOMAIN shown : MoveItemAt(i, j)
<1>1. app' # app /\ app' # "running"
  OBVIOUS
<1>2. ~MainStep
  BY <1>1 DEF MainStep, SavedStopsSnapshot, SavedStopsError, TimesSnapshot, AppendTimes,
              ReloadData, TrainTimes
<1>3. ~WorkerStep
  BY <1>1 DEF WorkerStep, ServeListenStops, ServeListenTimes, ServeSetStop, ServeDeleteStop,
              ServeWriteTimes, Serving
<1>4. ~NetworkStep /\ ~FirstEvent
  BY <1>1 DEF NetworkStep, TimerFires, Answer, RemoteSave, RemoteDelete, WatchError, Watch,
              FirstEvent, FirstStopsEvent, FirstTimesEvent
<1>5. ~Relaunch /\ ~UNCHANGED vars /\ \A d \in Doc : ~AddStop(d)
  BY <1>1 DEF Relaunch, vars, AddStop
<1> QED BY <1>2, <1>3, <1>4, <1>5 DEF Next, UserStep

LEMMA TrapStep ==
    ASSUME IInv, PageInv, [Next]_vars, app = "running", app' = "trapped"
    PROVE  ~Quiet \/ Owed \/ stopsListeners = 0
<1> SUFFICES ASSUME Quiet, ~Owed, stopsListeners > 0
             PROVE  FALSE
  BY Queues
<1>1. shown = finalTableArray /\ Len(timeArray) >= Len(finalTableArray)
  BY QuietPage DEF Quiet
<1>2. CASE \E i \in DOMAIN shown : HiddenContainerViewTapped(i)
  BY <1>1, <1>2 DEF HiddenContainerViewTapped
<1>3. CASE \E i, j \in DOMAIN shown : MoveItemAt(i, j)
  <2>1. PICK i \in DOMAIN shown, j \in DOMAIN shown : MoveItemAt(i, j)
    BY <1>3
  <2>2. DOMAIN shown \subseteq DOMAIN finalTableArray \cap DOMAIN timeArray
    <3> DEFINE m == Len(finalTableArray)
               n == Len(timeArray)
    <3>1. /\ m \in Nat /\ n \in Nat /\ m <= n
          /\ DOMAIN finalTableArray = 1 .. m /\ DOMAIN timeArray = 1 .. n
      <4>1. finalTableArray \in Seq(Doc)
            /\ timeArray \in Seq([doc : Doc, reading : Content])
        BY Queues
      <4>2. m \in Nat /\ DOMAIN finalTableArray = 1 .. m
        BY <4>1, LenProperties
      <4>3. n \in Nat /\ DOMAIN timeArray = 1 .. n
        BY <4>1, LenProperties
      <4> QED BY <1>1, <4>2, <4>3
    <3> HIDE DEF m, n
    <3> QED BY <1>1, <3>1
  <2>3. {i, j} \subseteq DOMAIN finalTableArray \cap DOMAIN timeArray
    BY <2>2
  <2> QED BY <2>1, <2>3 DEF MoveItemAt
<1> QED BY <1>2, <1>3, OnlyTouchesTrap

\* The only step that has the worker delete a stop next is a tap.
LEMMA OnlyTapsDelete ==
    ASSUME IInv, PageInv, [Next]_vars, ~ReloadPending, NEW d \in Doc,
           Len(fsQueue') > Len(fsQueue), fsQueue'[Len(fsQueue) + 1] = DeleteStop(d)
    PROVE  \E i \in DOMAIN shown : HiddenContainerViewTapped(i)
<1>1. Len(fsQueue) \in Nat /\ fsQueue \in Seq(Call)
  BY Queues
<1>2. fsQueue' # fsQueue
  BY <1>1
<1>3. ~SavedStopsSnapshot
  <2> SUFFICES ASSUME Running("stops") PROVE FALSE
    BY DEF SavedStopsSnapshot
  <2>1. Head(mainQueue) \in ToSet(mainQueue) /\ Head(mainQueue).kind = "stops"
    BY BlockRuns
  <2>2. mainQueue \in Seq(Block)
    BY Queues
  <2> QED BY <2>1, <2>2, PendingBlock DEF ReloadPending
<1>4. ~TrainTimes
  <2> SUFFICES ASSUME TrainTimes PROVE FALSE
    OBVIOUS
  <2> DEFINE h == Head(mainQueue)
             w == [i \in DOMAIN h.trains |-> WriteTimes(h.doc, h.trains[i])]
  <2>1. fsQueue' = fsQueue \o w /\ Running("fetched")
    BY DEF TrainTimes
  <2>2. h.doc \in Doc /\ h.trains \in Seq(Reading)
    BY <2>1, RunningBlock, BlockFields
  <2>3. /\ w \in Seq(Call) /\ Len(w) = Len(h.trains)
        /\ \A i \in 1 .. Len(w) : w[i].op = "writeTimes"
    <3>1. \A i \in DOMAIN h.trains : WriteTimes(h.doc, h.trains[i]) \in Call
      BY <2>2 DEF WriteTimes, Call, Content
    <3> QED BY <2>2, <3>1, OpsOfCalls
  <2> HIDE DEF h, w
  <2>4. /\ Len(fsQueue') = Len(fsQueue) + Len(w)
        /\ \A i \in Len(fsQueue) + 1 .. Len(fsQueue) + Len(w) :
              fsQueue'[i] = w[i - Len(fsQueue)]
    <3>1. fsQueue \in Seq(Call) /\ w \in Seq(Call) /\ fsQueue' = fsQueue \o w
      BY <1>1, <2>1, <2>3
    <3>2. /\ Len(fsQueue \o w) = Len(fsQueue) + Len(w)
          /\ \A i \in Len(fsQueue) + 1 .. Len(fsQueue) + Len(w) :
                (fsQueue \o w)[i] = w[i - Len(fsQueue)]
      BY <3>1, ConcatProperties
    <3> QED BY <3>1, <3>2
  <2>5. 1 \in 1 .. Len(w) /\ fsQueue'[Len(fsQueue) + 1] = w[1]
    <3> DEFINE n == Len(fsQueue)
               m == Len(w)
    <3>1. n \in Nat /\ m \in Nat /\ n + m > n
      BY <1>1, <2>3, <2>4
    <3>2. n + 1 \in n + 1 .. n + m /\ (n + 1) - n = 1 /\ 1 \in 1 .. m
      <4> HIDE DEF n, m
      <4> QED BY <3>1
    <3> QED BY <2>4, <3>2
  <2>6. DeleteStop(d).op = "writeTimes"
    BY <2>3, <2>5
  <2> QED BY <2>6, OpsOfCalls
<1>5. ~SavedStopsError /\ ~TimesSnapshot /\ ~AppendTimes /\ ~ReloadData
  BY <1>2 DEF SavedStopsError, TimesSnapshot, AppendTimes, ReloadData, client
<1>6. ~WorkerStep
  <2> SUFFICES ASSUME NEW op, Serving(op) PROVE FALSE
    BY DEF WorkerStep, ServeListenStops, ServeListenTimes, ServeSetStop, ServeDeleteStop,
           ServeWriteTimes
  <2>1. fsQueue # <<>> /\ fsQueue' = Tail(fsQueue)
    BY DEF Serving
  <2>2. Len(Tail(fsQueue)) = Len(fsQueue) - 1
    BY <1>1, <2>1, HeadTailProperties
  <2> QED BY <1>1, <2>1, <2>2
<1>7. ~NetworkStep /\ ~FirstEvent
  BY <1>2 DEF NetworkStep, TimerFires, Answer, RemoteSave, RemoteDelete, WatchError, Watch,
              FirstEvent, FirstStopsEvent, FirstTimesEvent, client
<1>8. \A e \in Doc : ~AddStop(e)
  <2> SUFFICES ASSUME NEW e \in Doc, AddStop(e) PROVE FALSE
    OBVIOUS
  <2> DEFINE t == <<SetStop(e), ListenStops>>
  <2>1. fsQueue' = fsQueue \o t
    BY DEF AddStop
  <2>2. t \in Seq(Call) /\ Len(t) = 2 /\ t[1] = SetStop(e)
    <3>1. SetStop(e) \in Call /\ ListenStops \in Call
      BY DEF SetStop, ListenStops, Call
    <3> QED BY <3>1
  <2> HIDE DEF t
  <2>3. \A i \in Len(fsQueue) + 1 .. Len(fsQueue) + Len(t) :
           fsQueue'[i] = t[i - Len(fsQueue)]
    BY <1>1, <2>1, <2>2, ConcatProperties
  <2>4. fsQueue'[Len(fsQueue) + 1] = SetStop(e)
    <3> DEFINE n == Len(fsQueue)
    <3>1. n + 1 \in n + 1 .. n + 2 /\ (n + 1) - n = 1
      BY <1>1
    <3> QED BY <2>2, <2>3, <3>1
  <2> QED BY <2>4, OpsOfCalls
<1>9. ~Relaunch
  <2> SUFFICES ASSUME Relaunch PROVE FALSE
    OBVIOUS
  <2>1. fsQueue' = <<ListenStops>>
    BY DEF Relaunch
  <2>2. Len(fsQueue) = 0
    BY <1>1, <2>1
  <2> QED BY <2>1, <2>2, OpsOfCalls
<1>10. \A i, j \in DOMAIN shown : ~MoveItemAt(i, j)
  BY <1>2 DEF MoveItemAt, client
<1>11. ~UNCHANGED vars
  BY <1>2 DEF vars, client
<1> QED BY <1>3, <1>4, <1>5, <1>6, <1>7, <1>8, <1>9, <1>10, <1>11
        DEF Next, MainStep, UserStep

LEMMA DeleteStep ==
    ASSUME IInv, PageInv, [Next]_vars, stopsListeners > 0, ~ReloadPending, NEW d \in Doc,
           Len(fsQueue') > Len(fsQueue), fsQueue'[Len(fsQueue) + 1] = DeleteStop(d)
    PROVE  d \in ToSet(shown) \ ToSet(shown')
<1>1. PICK i \in DOMAIN shown : HiddenContainerViewTapped(i)
  BY OnlyTapsDelete
<1>2. shown = finalTableArray /\ shown \in Seq(Doc) /\ fsQueue \in Seq(Call)
  BY Queues DEF PageInv, ScreenInv
<1>3. i \in 1 .. Len(shown) /\ shown[i] \in Doc
  <2>1. DOMAIN shown = 1 .. Len(shown)
    BY <1>2, LenProperties
  <2>2. i \in 1 .. Len(shown)
    BY <2>1
  <2> QED BY <1>2, <2>2, ElementOfSeq
<1> DEFINE e == shown[i]
           t == DeleteCalls(DocAt(i))
<1>4. fsQueue' = fsQueue \o t /\ shown' = RemoveAt(shown, i)
  BY <1>1, <1>2 DEF HiddenContainerViewTapped
<1>5. t \in Seq(Call) /\ Len(t) = 2 /\ t[1] = DeleteStop(e)
  <2>1. t = <<DeleteStop(e), WriteTimes(e, NoTimes)>>
    BY <1>2 DEF DeleteCalls, DocAt
  <2>2. DeleteStop(e) \in Call /\ WriteTimes(e, NoTimes) \in Call
    BY <1>3 DEF DeleteStop, WriteTimes, Call, Content
  <2> QED BY <2>1, <2>2
<1> HIDE DEF t
<1>6. \A k \in Len(fsQueue) + 1 .. Len(fsQueue) + Len(t) :
         fsQueue'[k] = t[k - Len(fsQueue)]
  <2>1. fsQueue \in Seq(Call) /\ t \in Seq(Call)
    BY <1>2, <1>5
  <2>2. \A k \in Len(fsQueue) + 1 .. Len(fsQueue) + Len(t) :
           (fsQueue \o t)[k] = t[k - Len(fsQueue)]
    BY <2>1, ConcatProperties
  <2> QED BY <1>4, <2>2
<1>7. fsQueue'[Len(fsQueue) + 1] = DeleteStop(e)
  <2> DEFINE n == Len(fsQueue)
  <2>1. n + 1 \in n + 1 .. n + 2 /\ (n + 1) - n = 1
    BY <1>2
  <2> QED BY <1>5, <1>6, <2>1
<1>8. d = e
  <2>1. DeleteStop(d) = DeleteStop(e)
    BY <1>7
  <2> QED BY <2>1 DEF DeleteStop
<1>9. e \in ToSet(shown)
  BY <1>2 DEF ToSet
<1>10. ToSet(shown') = ToSet(shown) \ {e}
  <2>1. Distinct(shown)
    BY <1>2 DEF IInv, NoDuplicateRows, Distinct
  <2> QED BY <1>2, <1>3, <1>4, <2>1, RemoveKeepsRows
<1> QED BY <1>8, <1>9, <1>10

\* However refreshes, deletions, drags and changes from elsewhere interleave, the
\* rows are the saved stops once no callback that rebuilds them is to come.
THEOREM RowsSettle == Spec => []SettledRows
<1>1. IInv /\ PageInv => SettledRows
  BY PageSettles
<1> QED BY <1>1, PageInvariant, PTL

\* The screen shows the data source unless a reload, or a callback that leads to
\* one, is under way or owed by the client: also where the loop over a snapshot is
\* cut short.
THEOREM ScreenFollows == Spec => []ViewUpdated
<1>1. IInv /\ PageInv => ViewUpdated
  BY DEF PageInv, ScreenInv, ViewUpdated
<1> QED BY <1>1, PageInvariant, PTL

\* When nothing is under way every row has its stop's latest times, but for the
\* stops whose first event is withheld; where none is, a drag finds both arrays
\* long enough.
THEOREM TimesArrive == Spec => []EveryRowHasTimes
<1>1. IInv /\ PageInv => EveryRowHasTimes
  BY QuietPage DEF EveryRowHasTimes, Quiet
<1> QED BY <1>1, PageInvariant, PTL

\* A touch traps only while some callback is under way or owed, or after an error.
THEOREM NoIdleTrap == Spec => TrapsOnlyInFlight
<1>1. IInv /\ PageInv /\ [Next]_vars
        => [app = "running" /\ app' = "trapped" => ~Quiet \/ Owed \/ stopsListeners = 0]_vars
  BY TrapStep
<1> QED BY <1>1, PageInvariant, PTL DEF Spec, TrapsOnlyInFlight

\* Unless a reload is under way or owed, the stop that a tap deletes from the account is
\* the one whose row leaves the screen.
THEOREM TappedIsDeleted == Spec => DeletedStopIsTapped
<1>1. IInv /\ PageInv /\ [Next]_vars =>
         [\A d \in Doc :
             /\ stopsListeners > 0 /\ ~ReloadPending
             /\ Len(fsQueue') > Len(fsQueue) /\ fsQueue'[Len(fsQueue) + 1] = DeleteStop(d)
             => d \in ToSet(shown) \ ToSet(shown')]_vars
  BY DeleteStep
<1> QED BY <1>1, PageInvariant, PTL DEF Spec, DeletedStopIsTapped

=============================================================================

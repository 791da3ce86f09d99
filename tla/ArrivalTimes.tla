---------------------------- MODULE ArrivalTimes ----------------------------
(***************************************************************************)
(* The arrival-times document of one saved stop, slot by slot              *)
(* (HomePage.swift: updateTubeTimes, getTrainTimes, getTimes).             *)
(*                                                                         *)
(* Every snapshot of the list asks TfL for the stop's trains and starts    *)
(* one more timer that asks again.  Answers come in any order.  An answer  *)
(* is sorted, the trains of the saved direction are numbered from 0, and   *)
(* each is merged into the document by a call of its own, as the fields    *)
(* "<n>" and "<n> destination"; fields that no call names stay.            *)
(*                                                                         *)
(* A destination is abstracted to the answer it is in.  The row's other    *)
(* fields, and what reads the document, are in SavedStops.                 *)
(***************************************************************************)
EXTENDS Integers, Sequences, FiniteSets, FiniteSetsExt

CONSTANTS
    MaxTime,        \* bound: times are 1 .. MaxTime
    MaxTrains,      \* bound: trains in an answer
    MaxRequests,    \* bound: requests made
    MaxSnapshots,   \* bound: snapshots of the list
    MaxResets       \* bound: deletions and new processes

ASSUME ArrivalBounds ==
    /\ MaxTime \in Nat /\ MaxTrains \in Nat /\ MaxRequests \in Nat
    /\ MaxSnapshots \in Nat /\ MaxResets \in Nat

VARIABLES
    timers,     \* repeating timers that run, one for each snapshot
    requests,   \* data tasks under way
    mainQueue,  \* blocks of answers
    worker,     \* calls Firestore has not yet run
    doc,        \* the document: slot n holds fields "n" and "n destination"
    trapped,    \* the process has ended at a forced unwrap
    asked, snapshots, resets,
    \* history, to state what the slots are
    base,       \* the slots before the answers below
    done        \* the trains of each answer handled since, with its number

counters == <<asked, snapshots, resets>>
history  == <<base, done>>
vars     == <<timers, requests, mainQueue, worker, doc, trapped, counters, history>>

Slot == 0 .. MaxTrains - 1
Empty == [n \in {} |-> 0]

\* timeToStation is null; in the document, the string "error", which is no time
NoTime == 0
Time == {NoTime} \cup 1 .. MaxTime

\* here: platformName is the saved direction
Train == [time : Time, here : BOOLEAN]
Answer == UNION {[1 .. n -> Train] : n \in 0 .. MaxTrains}

\* first: the request of updateTubeTimes itself, not of its timer
Request == [id : 1 .. MaxRequests, first : BOOLEAN]

Field == [time : Time, destination : 1 .. MaxRequests]

Call == [op : {"merge"}, slot : Slot, field : Field] \cup [op : {"delete"}]

Document == UNION {[slots -> Field] : slots \in SUBSET Slot}

Init ==
    /\ timers = 0 /\ requests = {} /\ mainQueue = <<>> /\ worker = <<>>
    /\ doc = Empty
    /\ trapped = FALSE
    /\ asked = 0 /\ snapshots = 0 /\ resets = 0
    /\ base = Empty /\ done = <<>>

-----------------------------------------------------------------------------

Ask(first) ==
    /\ asked < MaxRequests
    /\ asked' = asked + 1
    /\ requests' = requests \cup {[id |-> asked', first |-> first]}

\* updateTubeTimes, for one more snapshot of the list
UpdateTubeTimes ==
    /\ snapshots < MaxSnapshots
    /\ snapshots' = snapshots + 1
    /\ Ask(TRUE)
    /\ timers' = timers + 1
    /\ UNCHANGED <<mainQueue, worker, doc, trapped, resets, history>>

TimerFires ==
    /\ timers > 0
    /\ Ask(FALSE)
    /\ UNCHANGED <<timers, mainQueue, worker, doc, trapped, snapshots, resets, history>>

\* getTrainTimes: an answer that cannot be decoded has no trains; one without
\* data has no completion, as if it never came
Answered ==
    \E r \in requests : \E a \in Answer :
        /\ requests' = requests \ {r}
        /\ mainQueue' = Append(mainQueue, [request |-> r, trains |-> a])
        /\ UNCHANGED <<timers, worker, doc, trapped, counters, history>>

\* the sort compares every train with another, if there is one, and the first
\* request's completion prints each matching time: both unwrap it
Traps(a, first) ==
    \E i \in DOMAIN a : a[i].time = NoTime /\ (Len(a) > 1 \/ (first /\ a[i].here))

\* The sort and the test of the direction: the matching trains, as places in
\* the answer, in ascending order of time.  Equal times come in any order:
\* Array.sort promises none.
Matching(a) == {i \in DOMAIN a : a[i].here}

Listings(a) ==
    {list \in [1 .. Cardinality(Matching(a)) -> Matching(a)] :
        \A i, j \in DOMAIN list : i < j =>
            list[i] # list[j] /\ a[list[i]].time <= a[list[j]].time}

\* count: of the matching trains, from 0
Count_Bug(list, i) == list[i] - 1
Count_One(list, i) == i
Count(list, i)     == i - 1

Merge(slot, time, id) ==
    [op |-> "merge", slot |-> slot, field |-> [time |-> time, destination |-> id]]
Delete == [op |-> "delete"]

\* the setData calls of a completion
Merges(b, list) ==
    [i \in DOMAIN list |-> Merge(Count(list, i), b.trains[list[i]].time, b.request.id)]

TrainTimes ==
    /\ mainQueue # <<>>
    /\ mainQueue' = Tail(mainQueue)
    /\ LET b == Head(mainQueue) IN
       IF Traps(b.trains, b.request.first)
       THEN trapped' = TRUE /\ UNCHANGED <<worker, done>>
       ELSE /\ \E list \in Listings(b.trains) : worker' = worker \o Merges(b, list)
            /\ done' = Append(done, b)
            /\ UNCHANGED trapped
    /\ UNCHANGED <<timers, requests, doc, counters, base>>

\* the other fields of the document stay (merge: true)
Merged_Bug(d, c) == [n \in {c.slot} |-> c.field]
Merged(d, c) ==
    [n \in DOMAIN d \cup {c.slot} |-> IF n = c.slot THEN c.field ELSE d[n]]

Serve ==
    /\ worker # <<>>
    /\ worker' = Tail(worker)
    /\ doc' = IF Head(worker) = Delete THEN Empty ELSE Merged(doc, Head(worker))
    /\ UNCHANGED <<timers, requests, mainQueue, trapped, counters, history>>

Resetting == resets < MaxResets /\ resets' = resets + 1

\* hiddenContainerViewTapped deletes the document; the timers run on
DeleteTimes ==
    /\ Resetting
    /\ worker' = Append(worker, Delete)
    /\ base' = Empty /\ done' = <<>>
    /\ UNCHANGED <<timers, requests, mainQueue, doc, trapped, asked, snapshots>>

\* the process ends, at a trap or anywhere, and another starts: the calls that
\* were not yet run are lost
Relaunch ==
    /\ Resetting
    /\ timers' = 0 /\ requests' = {} /\ mainQueue' = <<>> /\ worker' = <<>>
    /\ trapped' = FALSE
    /\ base' = doc /\ done' = <<>>
    /\ UNCHANGED <<doc, asked, snapshots>>

Running == UpdateTubeTimes \/ TimerFires \/ Answered \/ TrainTimes \/ Serve \/ DeleteTimes

Next == (~trapped /\ Running) \/ Relaunch

Spec == Init /\ [][Next]_vars

-----------------------------------------------------------------------------

\* Type invariant: requests, calls and the document's slots keep their types.
TypeOK ==
    /\ timers \in 0 .. MaxSnapshots
    /\ requests \subseteq Request
    /\ mainQueue \in Seq([request : Request, trains : Answer])
    /\ worker \in Seq(Call)
    /\ doc \in Document
    /\ trapped \in BOOLEAN
    /\ asked \in 0 .. MaxRequests /\ snapshots \in 0 .. MaxSnapshots
    /\ resets \in 0 .. MaxResets
    /\ base \in Document
    /\ done \in Seq([request : Request, trains : Answer])

\* The row shows the first three slots: no slot is filled before the ones
\* under it, whichever calls a crash has lost or a deletion has overtaken.
SlotsWithoutGap ==
    \A n \in DOMAIN doc : n > 0 => n - 1 \in DOMAIN doc

\* What a train's slot is, counted without sorting: the times under its own
\* among the matching trains of its answer are as many as slots below it.
Rank(b, n) ==
    LET here == Matching(b.trains)
    IN  {i \in here :
            /\ Cardinality({j \in here : b.trains[j].time < b.trains[i].time}) <= n
            /\ n < Cardinality({j \in here : b.trains[j].time <= b.trains[i].time})}

\* Once all calls have run, slot n is train n, in ascending order of time, of
\* the answer handled last among those that had so many trains: an answer with
\* fewer leaves the others' trains where they were, and one that was overtaken
\* counts by when it came.  A slot is never made of two answers.
SlotsOfLastAnswers ==
    worker = <<>> =>
        \A n \in Slot :
            LET long == {k \in DOMAIN done : Cardinality(Matching(done[k].trains)) > n}
            IN  IF long = {}
                THEN /\ n \in DOMAIN doc <=> n \in DOMAIN base
                     /\ n \in DOMAIN doc => doc[n] = base[n]
                ELSE LET b == done[Max(long)]
                     IN  /\ n \in DOMAIN doc
                         /\ doc[n].destination = b.request.id
                         /\ \E i \in Rank(b, n) : doc[n].time = b.trains[i].time

=============================================================================

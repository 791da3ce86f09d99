---------------------------- MODULE SavedStops ----------------------------
(***************************************************************************)
(* The home page's list of saved stops (HomePage.swift).                   *)
(*                                                                         *)
(* Four parties act on it:                                                 *)
(*   - the main thread, which runs the blocks of the main dispatch queue   *)
(*     one at a time, and between two blocks serves the user's touches     *)
(*     and the timers of its run loop;                                     *)
(*   - the Firestore client's worker, a serial queue that runs the calls   *)
(*     of the app in order and posts every listener callback on the main   *)
(*     queue (vendored code, external);                                    *)
(*   - the TfL web service, which answers a request late or never;         *)
(*   - other devices signed in to the same account.                        *)
(* The signed-in user does not change: signing in is a component of its    *)
(* own.  A stop is the ID of its document; a document ID says nothing of   *)
(* the time it was created, and Firestore lists a collection in ID order.  *)
(***************************************************************************)
EXTENDS Integers, Sequences, FiniteSets, SequencesExt

CONSTANTS
    Doc,            \* IDs of saved-stop documents
    Reading,        \* contents an arrival-times document can have
    NoTimes,        \* the content of an arrival-times document that is absent
    MaxTrains,      \* bound: trains of one answer that match the direction
    MaxRequests,    \* bound: requests for one stop that may still be answered
    MaxTicks,       \* bound: firings of the 30 second timers
    MaxLaunches,    \* bound: processes started after the first
    MaxBacklog      \* bound: blocks and calls that wait when a touch, a change
                    \* from elsewhere, an answer, a timer or a first event comes
                    \* in between

ASSUME DocAssumption     == Doc \subseteq Nat /\ IsFiniteSet(Doc)
ASSUME ReadingAssumption == NoTimes \notin Reading
ASSUME BoundsAssumption  == /\ MaxTrains \in Nat
                            /\ MaxRequests \in Nat
                            /\ MaxTicks \in Nat
                            /\ MaxLaunches \in Nat
                            /\ MaxBacklog \in Nat

VARIABLES
    \* the user's data, as the Firestore client's local view has it
    used,             \* document IDs ever given to a stop
    partial,          \* those written without a line, a station or a naptanID
    docs,             \* the saved-stops collection
    arrivals,         \* the arrival-times document below each stop
    \* the Firestore client
    stopsListeners,   \* snapshot listeners on the collection
    timesListeners,   \* snapshot listeners on each arrival-times document
    stopsAwaiting,    \* those of stopsListeners whose first event is withheld
    timesAwaiting,    \* those of timesListeners whose first event is withheld
    fsQueue,          \* calls the worker has yet to run
    \* the main thread
    mainQueue,        \* blocks the main queue has yet to run
    finalTableArray,  \* the rows of the data source
    timeArray,        \* the times of the data source
    shown,            \* the rows the collection view has on the screen
    \* the run loop, the network and the process
    timers,           \* stops some repeating timer fetches for
    requests,         \* requests in flight for each stop
    ticks, launches,  \* counters that only serve the bounds
    app               \* "running", or "trapped" by the Swift runtime or UIKit

stored   == <<used, partial, docs, arrivals>>
listeners == <<stopsListeners, timesListeners, stopsAwaiting, timesAwaiting>>
client   == <<listeners, fsQueue>>
page     == <<mainQueue, finalTableArray, timeArray, shown>>
network  == <<timers, requests>>
counters == <<ticks, launches>>
vars     == <<stored, client, page, network, counters, app>>

-----------------------------------------------------------------------------
(* Blocks of the main queue and calls queued for the Firestore worker.     *)

StopsBlock(S)     == [kind |-> "stops", docs |-> S]
ErrorBlock        == [kind |-> "error"]
TimesBlock(d, r)  == [kind |-> "times", doc |-> d, reading |-> r]
AppendBlock(d, r) == [kind |-> "append", doc |-> d, reading |-> r]
FetchedBlock(d, t) == [kind |-> "fetched", doc |-> d, trains |-> t]
ReloadBlock       == [kind |-> "reload"]

ListenStops      == [op |-> "listenStops"]
ListenTimes(d)   == [op |-> "listenTimes", doc |-> d]
SetStop(d)       == [op |-> "setStop", doc |-> d]
DeleteStop(d)    == [op |-> "deleteStop", doc |-> d]
WriteTimes(d, r) == [op |-> "writeTimes", doc |-> d, reading |-> r]

Content == Reading \cup {NoTimes}
Trains  == BoundedSeq(Reading, MaxTrains)

Block ==
    [kind : {"stops"}, docs : SUBSET Doc]
    \cup [kind : {"error", "reload"}]
    \cup [kind : {"times", "append"}, doc : Doc, reading : Content]
    \cup [kind : {"fetched"}, doc : Doc, trains : Seq(Reading)]

Call ==
    [op : {"listenStops"}]
    \cup [op : {"listenTimes", "setStop", "deleteStop"}, doc : Doc]
    \cup [op : {"writeTimes"}, doc : Doc, reading : Content]

\* n copies of a block, one for each of n listeners
Copies(n, b) == [i \in 1 .. n |-> b]

\* the documents of a snapshot, in the order it lists them
Ascending(S) ==
    {s \in [1 .. Cardinality(S) -> S] :
        /\ \A i, j \in DOMAIN s : i < j => s[i] < s[j]
        /\ \A d \in S : \E i \in DOMAIN s : s[i] = d}

-----------------------------------------------------------------------------
(* One run of the snapshot callback, and one tap on a delete button.  A    *)
(* definition named _Bug or _Blank is a mistake that the properties     *)
(* below must notice in the definition that follows it.                    *)

\* A document without its fields ends the callback's loop: the documents the
\* loop reaches, and those of them that become rows.
Reached_Bug(S) == {d \in S : \A e \in S : e <= d => e \notin partial}
Reached(S)     == {d \in S : \A e \in S : e < d => e \notin partial}
Rows_Bug(S)    == Reached(S)
Rows(S)        == Reached(S) \ partial

\* what it makes of the emptied data source
Table_Bug(S) == {finalTableArray \o s : s \in Ascending(Rows(S))}
Table(S)     == Ascending(Rows(S))

\* the listeners it adds through getTimes, for each document it reached
TimesCalls_Bug(s) == SelectSeq([i \in DOMAIN s |-> ListenTimes(s[i])],
                               LAMBDA c : timesListeners[c.doc] = 0)
TimesCalls(s)     == [i \in DOMAIN s |-> ListenTimes(s[i])]

\* the reload it posts, unless its loop was cut short
ReloadAfter_Bug(S) == <<>>
ReloadAfter(S)     == IF S \cap partial = {} THEN <<ReloadBlock>> ELSE <<>>

\* the block that the listener of getTimes posts, whether or not the document exists
TimesPosted_Bug(d, r) == IF r = NoTimes THEN <<>> ELSE <<AppendBlock(d, r)>>
TimesPosted(d, r)     == <<AppendBlock(d, r)>>

\* the document that a tap on row i deletes, and the calls that delete it
DocAt_Bug(i)         == finalTableArray[Len(finalTableArray)]
DocAt(i)             == finalTableArray[i]
DeleteCalls_Bug(d)   == <<WriteTimes(d, NoTimes)>>
DeleteCalls_Blank(d) == <<DeleteStop(d), WriteTimes(d, 0)>>
DeleteCalls(d)       == <<DeleteStop(d), WriteTimes(d, NoTimes)>>

-----------------------------------------------------------------------------
Init ==
    /\ docs \in SUBSET Doc
    /\ used = docs
    /\ partial \in SUBSET docs
    /\ arrivals \in {a \in [Doc -> Content] : \A d \in Doc \ docs : a[d] = NoTimes}
    /\ stopsListeners = 0
    /\ timesListeners = [d \in Doc |-> 0]
    /\ stopsAwaiting = 0
    /\ timesAwaiting = [d \in Doc |-> 0]
    /\ fsQueue = <<ListenStops>>       \* viewDidLoad has called getSavedStops
    /\ mainQueue = <<>>
    /\ finalTableArray = <<>>
    /\ timeArray = <<>>
    /\ shown = <<>>
    /\ timers = {}
    /\ requests = [d \in Doc |-> 0]
    /\ ticks = 0
    /\ launches = 0
    /\ app = "running"

-----------------------------------------------------------------------------
(* The main thread: one action for each kind of block.                     *)

Running(kind) ==
    /\ app = "running"
    /\ mainQueue # <<>>
    /\ Head(mainQueue).kind = kind

\* updateTubeTimes starts a request at once and a timer that repeats it
UpdateTubeTimes(S) ==
    /\ timers' = timers \cup S
    /\ requests' = [d \in Doc |-> IF d \in S /\ requests[d] < MaxRequests
                                  THEN requests[d] + 1 ELSE requests[d]]

\* the listener of getSavedStops, called with a snapshot
SavedStopsSnapshot ==
    /\ Running("stops")
    /\ LET S == Head(mainQueue).docs IN
       /\ finalTableArray' \in Table(S)
       /\ timeArray' = <<>>
       /\ \E reached \in Ascending(Reached(S)) : fsQueue' = fsQueue \o TimesCalls(reached)
       /\ UpdateTubeTimes(Rows(S))
       /\ mainQueue' = Tail(mainQueue) \o ReloadAfter(S)
    /\ UNCHANGED <<stored, listeners, shown, counters, app>>

\* the listener of getSavedStops, called with an error: no reload follows
SavedStopsError ==
    /\ Running("error")
    /\ finalTableArray' = <<>>
    /\ timeArray' = <<>>
    /\ mainQueue' = Tail(mainQueue)
    /\ UNCHANGED <<stored, client, shown, network, counters, app>>

\* the listener of getTimes posts a second block
TimesSnapshot ==
    /\ Running("times")
    /\ LET b == Head(mainQueue) IN
          mainQueue' = Tail(mainQueue) \o TimesPosted(b.doc, b.reading)
    /\ UNCHANGED <<stored, client, finalTableArray, timeArray, shown, network,
                   counters, app>>

\* the block of getTimes: append the times, reload
AppendTimes ==
    /\ Running("append")
    /\ LET b == Head(mainQueue) IN
          timeArray' = Append(timeArray, [doc |-> b.doc, reading |-> b.reading])
    /\ shown' = finalTableArray
    /\ mainQueue' = Tail(mainQueue)
    /\ UNCHANGED <<stored, client, finalTableArray, network, counters, app>>

ReloadData ==
    /\ Running("reload")
    /\ shown' = finalTableArray
    /\ mainQueue' = Tail(mainQueue)
    /\ UNCHANGED <<stored, client, finalTableArray, timeArray, network, counters, app>>

\* the completion of getTrainTimes writes one train after the other
TrainTimes ==
    /\ Running("fetched")
    /\ LET b == Head(mainQueue) IN
          fsQueue' = fsQueue \o [i \in DOMAIN b.trains |-> WriteTimes(b.doc, b.trains[i])]
    /\ mainQueue' = Tail(mainQueue)
    /\ UNCHANGED <<stored, listeners, finalTableArray, timeArray,
                   shown, network, counters, app>>

MainStep ==
    \/ SavedStopsSnapshot \/ SavedStopsError
    \/ TimesSnapshot \/ AppendTimes \/ ReloadData \/ TrainTimes

-----------------------------------------------------------------------------
(* The main thread between two blocks: touches, timers, the add-line page. *)

\* addStop has its answer from TfL: it writes the stop, with null fields when
\* the answer held no train, and has the home page refresh.
AddStop(d) ==
    /\ app = "running"
    /\ d \notin used
    /\ used' = used \cup {d}
    /\ partial' \in {partial, partial \cup {d}}
    /\ finalTableArray' = <<>>
    /\ timeArray' = <<>>
    /\ fsQueue' = fsQueue \o <<SetStop(d), ListenStops>>
    /\ UNCHANGED <<docs, arrivals, listeners, mainQueue, shown,
                   network, counters, app>>

\* The delete button of the row at i.  The data source may have changed since
\* the row was drawn: the subscript traps past its end, and the collection view
\* raises an exception unless exactly one item is gone since it last counted.
HiddenContainerViewTapped(i) ==
    /\ app = "running"
    /\ i \in DOMAIN shown
    /\ IF i \notin DOMAIN finalTableArray
       THEN /\ app' = "trapped"
            /\ UNCHANGED <<fsQueue, page>>
       ELSE /\ finalTableArray' = RemoveAt(finalTableArray, i)
            /\ fsQueue' = fsQueue \o DeleteCalls(DocAt(i))
            /\ IF Len(finalTableArray) = Len(shown)
               THEN /\ shown' = RemoveAt(shown, i)
                    /\ mainQueue' = Append(mainQueue, ReloadBlock)
                    /\ app' = app
               ELSE /\ app' = "trapped"
                    /\ UNCHANGED <<shown, mainQueue>>
            /\ UNCHANGED timeArray
    /\ UNCHANGED <<stored, listeners, network, counters>>

Moved(s, i, j) == InsertAt(RemoveAt(s, i), j, s[i])

\* A long press drags the row at i to j: remove(at:) and insert(_:at:) trap
\* past the end of either array.
MoveItemAt(i, j) ==
    /\ app = "running"
    /\ i # j
    /\ i \in DOMAIN shown /\ j \in DOMAIN shown
    /\ IF {i, j} \subseteq DOMAIN finalTableArray \cap DOMAIN timeArray
       THEN /\ finalTableArray' = Moved(finalTableArray, i, j)
            /\ timeArray' = Moved(timeArray, i, j)
            /\ shown' = Moved(shown, i, j)
            /\ app' = app
       ELSE /\ app' = "trapped"
            /\ UNCHANGED <<finalTableArray, timeArray, shown>>
    /\ UNCHANGED <<stored, client, mainQueue, network, counters>>

\* a 30 second timer; none is ever invalidated
TimerFires(d) ==
    /\ app = "running"
    /\ d \in timers
    /\ ticks < MaxTicks
    /\ ticks' = ticks + 1
    /\ requests' = [requests EXCEPT ![d] = IF @ < MaxRequests THEN @ + 1 ELSE @]
    /\ UNCHANGED <<stored, client, page, timers, launches, app>>

-----------------------------------------------------------------------------
(* The TfL service: an answer with data is decoded and posted on the main  *)
(* queue; without data the completion never runs.                          *)

Answer(d) ==
    /\ app = "running"
    /\ requests[d] > 0
    /\ requests' = [requests EXCEPT ![d] = @ - 1]
    /\ \/ \E t \in Trains : mainQueue' = Append(mainQueue, FetchedBlock(d, t))
       \/ mainQueue' = mainQueue
    /\ UNCHANGED <<stored, client, finalTableArray, timeArray, shown, timers,
                   counters, app>>

-----------------------------------------------------------------------------
(* The Firestore worker.  A change of a view calls each of its listeners.  *)

Serving(op) ==
    /\ app = "running"
    /\ fsQueue # <<>>
    /\ Head(fsQueue).op = op
    /\ fsQueue' = Tail(fsQueue)
    /\ UNCHANGED <<used, partial, finalTableArray, timeArray, shown, network, counters,
                   app>>

\* The collection becomes S.  Every listener hears of a change: one that still
\* awaits its first event awaits it because the collection was empty.
ChangeDocs(S) ==
    /\ docs' = S
    /\ IF S = docs
       THEN UNCHANGED <<mainQueue, stopsAwaiting>>
       ELSE /\ mainQueue' = mainQueue \o Copies(stopsListeners, StopsBlock(S))
            /\ stopsAwaiting' = 0

\* addSnapshotListener calls back with what the view holds.  The first event of
\* an empty view is withheld until the backend has confirmed it or the client
\* takes itself to be offline; listeners of one view are held up together.
ServeListenStops ==
    /\ Serving("listenStops")
    /\ stopsListeners' = stopsListeners + 1
    /\ \/ /\ stopsAwaiting = 0
          /\ mainQueue' = Append(mainQueue, StopsBlock(docs))
          /\ UNCHANGED stopsAwaiting
       \/ /\ docs = {}
          /\ stopsAwaiting' = stopsAwaiting + 1
          /\ UNCHANGED mainQueue
    /\ UNCHANGED <<docs, arrivals, timesListeners, timesAwaiting>>

ServeListenTimes ==
    /\ Serving("listenTimes")
    /\ LET d == Head(fsQueue).doc IN
       /\ timesListeners' = [timesListeners EXCEPT ![d] = @ + 1]
       /\ \/ /\ timesAwaiting[d] = 0
             /\ mainQueue' = Append(mainQueue, TimesBlock(d, arrivals[d]))
             /\ UNCHANGED timesAwaiting
          \/ /\ arrivals[d] = NoTimes
             /\ timesAwaiting' = [timesAwaiting EXCEPT ![d] = @ + 1]
             /\ UNCHANGED mainQueue
    /\ UNCHANGED <<docs, arrivals, stopsListeners, stopsAwaiting>>

ServeSetStop ==
    /\ Serving("setStop")
    /\ ChangeDocs(docs \cup {Head(fsQueue).doc})
    /\ UNCHANGED <<arrivals, stopsListeners, timesListeners, timesAwaiting>>

ServeDeleteStop ==
    /\ Serving("deleteStop")
    /\ ChangeDocs(docs \ {Head(fsQueue).doc})
    /\ UNCHANGED <<arrivals, stopsListeners, timesListeners, timesAwaiting>>

\* setData with merge, or delete, of an arrival-times document
ServeWriteTimes ==
    /\ Serving("writeTimes")
    /\ LET d == Head(fsQueue).doc
           r == Head(fsQueue).reading IN
       /\ arrivals' = [arrivals EXCEPT ![d] = r]
       /\ IF r = arrivals[d]
          THEN UNCHANGED <<mainQueue, timesAwaiting>>
          ELSE /\ mainQueue' = mainQueue \o Copies(timesListeners[d], TimesBlock(d, r))
               /\ timesAwaiting' = [timesAwaiting EXCEPT ![d] = 0]
    /\ UNCHANGED <<docs, stopsListeners, timesListeners, stopsAwaiting>>

WorkerStep ==
    \/ ServeListenStops \/ ServeListenTimes
    \/ ServeSetStop \/ ServeDeleteStop \/ ServeWriteTimes

Watch ==
    /\ app = "running"
    /\ UNCHANGED <<arrivals, timesListeners, timesAwaiting, fsQueue, finalTableArray,
                   timeArray, shown, network, counters, app>>

\* The backend has confirmed an empty view, or ten seconds without it have made
\* the client offline: the first events are raised after all.
FirstStopsEvent ==
    /\ Watch
    /\ stopsAwaiting > 0
    /\ stopsAwaiting' = 0
    /\ mainQueue' = mainQueue \o Copies(stopsAwaiting, StopsBlock(docs))
    /\ UNCHANGED <<used, partial, docs, stopsListeners>>

FirstTimesEvent(d) ==
    /\ app = "running"
    /\ timesAwaiting[d] > 0
    /\ timesAwaiting' = [timesAwaiting EXCEPT ![d] = 0]
    /\ mainQueue' = mainQueue \o Copies(timesAwaiting[d], TimesBlock(d, arrivals[d]))
    /\ UNCHANGED <<stored, stopsListeners, timesListeners, stopsAwaiting, fsQueue,
                   finalTableArray, timeArray, shown, network, counters, app>>

\* another device adds or deletes a stop, which only a listener is told
RemoteSave(d) ==
    /\ Watch
    /\ stopsListeners > 0
    /\ d \notin used
    /\ used' = used \cup {d}
    /\ partial' \in {partial, partial \cup {d}}
    /\ ChangeDocs(docs \cup {d})
    /\ UNCHANGED stopsListeners

RemoteDelete(d) ==
    /\ Watch
    /\ stopsListeners > 0
    /\ d \in docs
    /\ ChangeDocs(docs \ {d})
    /\ UNCHANGED <<used, partial, stopsListeners>>

\* the backend refuses the query: its listeners are called once more and dropped
WatchError ==
    /\ Watch
    /\ stopsListeners > 0
    /\ stopsListeners' = 0
    /\ stopsAwaiting' = 0
    /\ mainQueue' = mainQueue \o Copies(stopsListeners, ErrorBlock)
    /\ UNCHANGED <<used, partial, docs>>

-----------------------------------------------------------------------------
\* The process ends, trapped or killed, and the user opens the app again: what
\* was stored is there, calls the worker had not run are lost.
Relaunch ==
    /\ launches < MaxLaunches
    /\ launches' = launches + 1
    /\ app' = "running"
    /\ fsQueue' = <<ListenStops>>
    /\ stopsListeners' = 0
    /\ timesListeners' = [d \in Doc |-> 0]
    /\ stopsAwaiting' = 0
    /\ timesAwaiting' = [d \in Doc |-> 0]
    /\ mainQueue' = <<>>
    /\ finalTableArray' = <<>>
    /\ timeArray' = <<>>
    /\ shown' = <<>>
    /\ timers' = {}
    /\ requests' = [d \in Doc |-> 0]
    /\ UNCHANGED <<stored, ticks>>

Backlog == Len(mainQueue) + Len(fsQueue)

UserStep ==
    /\ Backlog <= MaxBacklog
    /\ \/ \E d \in Doc : AddStop(d)
       \/ \E i \in DOMAIN shown : HiddenContainerViewTapped(i)
       \/ \E i, j \in DOMAIN shown : MoveItemAt(i, j)

FirstEvent ==
    /\ Backlog <= MaxBacklog
    /\ FirstStopsEvent \/ \E d \in Doc : FirstTimesEvent(d)

NetworkStep ==
    /\ Backlog <= MaxBacklog
    /\ \/ \E d \in Doc : TimerFires(d) \/ Answer(d)
       \/ \E d \in Doc : RemoteSave(d) \/ RemoteDelete(d)
       \/ WatchError

Next == MainStep \/ WorkerStep \/ FirstEvent \/ UserStep \/ NetworkStep \/ Relaunch

Spec == Init /\ [][Next]_vars

\* The run loop drains the main queue, the worker drains its own, and a first
\* event is withheld for ten seconds at most; nothing else need happen.
FairSpec == Spec /\ WF_vars(MainStep) /\ WF_vars(WorkerStep) /\ WF_vars(FirstEvent)

-----------------------------------------------------------------------------
(* Properties.                                                             *)

\* Type invariant: rows, listeners, blocks and calls keep their types.
TypeOK ==
    /\ used \subseteq Doc
    /\ partial \subseteq used
    /\ docs \subseteq used
    /\ arrivals \in [Doc -> Content]
    /\ stopsListeners \in Nat
    /\ timesListeners \in [Doc -> Nat]
    /\ stopsAwaiting \in Nat
    /\ timesAwaiting \in [Doc -> Nat]
    /\ fsQueue \in Seq(Call)
    /\ mainQueue \in Seq(Block)
    /\ finalTableArray \in Seq(Doc)
    /\ timeArray \in Seq([doc : Doc, reading : Content])
    /\ shown \in Seq(Doc)
    /\ timers \subseteq Doc
    /\ requests \in [Doc -> Nat]
    /\ ticks \in Nat
    /\ launches \in Nat
    /\ app \in {"running", "trapped"}

\* Every refresh adds a listener and none is ever removed, so one change calls
\* back several times; and rows are dragged and deleted in between.  Still no
\* stop has two rows (getSavedStops empties the array first).
NoDuplicateRows ==
    \A i, j \in DOMAIN finalTableArray : finalTableArray[i] = finalTableArray[j] => i = j

\* No row stands for a stop that was saved without its fields, so neither do
\* the taps, timers and requests that start from a row.
RowsAreComplete == ToSet(finalTableArray) \cap partial = {}

SnapshotPending ==
    \/ \E i \in DOMAIN mainQueue : mainQueue[i].kind \in {"stops", "error"}
    \/ \E i \in DOMAIN fsQueue : fsQueue[i].op \in {"listenStops", "setStop", "deleteStop"}

\* However refreshes, deletions, drags and changes from elsewhere interleave:
\* once no snapshot and no call that causes one is under way, the rows are the
\* saved stops that no incomplete document precedes, neither more nor fewer.
SettledRows ==
    app = "running" /\ stopsListeners > 0 /\ ~SnapshotPending
        => ToSet(finalTableArray) =
               {d \in docs : \A e \in docs \cap partial : d < e}

\* The client owes a first event, of the collection or of a stop's times.
Owed == stopsAwaiting > 0 \/ \E d \in Doc : timesAwaiting[d] > 0

ReloadPending ==
    \/ \E i \in DOMAIN mainQueue : mainQueue[i].kind # "fetched"
    \/ \E i \in DOMAIN fsQueue : fsQueue[i].op \in {"listenStops", "listenTimes"}
    \/ Owed

\* The screen may lag behind the data source, but never without a reload, or a
\* callback that leads to one, under way or owed.  Where a snapshot's loop is cut
\* short no reload is posted: it is the one of getTimes that saves the screen,
\* though perhaps only when the client raises the first event it has withheld.
\* An error (which drops the listeners) empties the rows and reloads nothing.
ViewUpdated ==
    app = "running" /\ stopsListeners > 0 /\ ~ReloadPending => shown = finalTableArray

Quiet == app = "running" /\ mainQueue = <<>> /\ fsQueue = <<>>

\* The two arrays are filled by different callbacks and emptied by several.
\* When no block and no call is under way, timeArray holds the latest times of
\* each row's stop (though not at the row's index), but for a stop without times
\* whose listener the client has yet to call; where there is no such row,
\* timeArray is at least as long as the rows.
EveryRowHasTimes ==
    LET owed == {d \in ToSet(finalTableArray) : timesAwaiting[d] > 0} IN
    Quiet => /\ \A d \in ToSet(finalTableArray) \ owed :
                   [doc |-> d, reading |-> arrivals[d]] \in ToSet(timeArray)
             /\ \A d \in owed : arrivals[d] = NoTimes
             /\ owed = {} => Len(timeArray) >= Len(finalTableArray)

\* A touch can trap (a subscript past the end, an inconsistent batch update)
\* only while some callback is under way or owed, or after an error.
TrapsOnlyInFlight ==
    [][app = "running" /\ app' = "trapped" => ~Quiet \/ Owed \/ stopsListeners = 0]_vars

\* While no reload is under way or owed, the stop deleted from the account is the
\* one whose row leaves the screen.
DeletedStopIsTapped ==
    [][\A d \in Doc :
          /\ stopsListeners > 0 /\ ~ReloadPending
          /\ Len(fsQueue') > Len(fsQueue) /\ fsQueue'[Len(fsQueue) + 1] = DeleteStop(d)
          => d \in ToSet(shown) \ ToSet(shown')]_vars

\* Whatever the user, other devices and TfL do, once they leave the list alone
\* the screen comes to show what is saved, and stays so.
ViewConverges ==
    <>[](app = "running" /\ stopsListeners > 0
            => ToSet(shown) = {d \in docs : \A e \in docs \cap partial : d < e})

=============================================================================

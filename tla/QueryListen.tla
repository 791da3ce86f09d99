---------------------------- MODULE QueryListen ----------------------------
(***************************************************************************)
(* How the Firestore client shows a collection to the listeners of an app  *)
(* (view.cc, query_listener.cc, event_manager.cc, sync_engine.cc,          *)
(* local_store.cc, remote_event.cc, remote_store.cc,                       *)
(* online_state_tracker.cc).                                               *)
(*                                                                         *)
(* What is shown is the cache of the backend's documents with the app's    *)
(* own pending writes over it.  News come from two sides that know nothing *)
(* of each other: acknowledgements of writes, and snapshots of the watch   *)
(* stream, each of which may be older or newer than the other.  A view is  *)
(* not computed again but changed by every piece of news.                  *)
(*                                                                         *)
(* All of it runs on the worker queue, one operation at a time.  The       *)
(* messages of the watch stream that make up one snapshot are taken        *)
(* together, since the client acts on the last of them.                    *)
(*                                                                         *)
(* Left out: how writes are sent (WritePipeline) and who makes them        *)
(* (Session); existence filters; queries with filters, limits or for one   *)
(* document; transforms; the removal of listeners, which this app never    *)
(* asks for; garbage collection of the cache; a refusal of a limbo target. *)
(***************************************************************************)
EXTENDS Naturals, Sequences, FiniteSets, FiniteSetsExt

CONSTANTS
    Doc,            \* documents of the collection
    Value, Absent,  \* what a document says, or that there is none
    MaxWrites,      \* bound: writes, of this client and of others
    MaxFaults       \* bound: broken streams, refusals, resets and further processes

ASSUME ListenAssumption == Absent \notin Value
ASSUME ListenBounds ==
    MaxWrites \in Nat /\ MaxFaults \in Nat

VARIABLES
    \* the backend: its writes, of which the index is the version
    log,
    \* on disk
    queue,          \* the mutation queue
    cache,          \* the remote document cache
    remoteKeys,     \* the target's matching keys, synced_documents_ of its view
    snapshot,       \* GetLastRemoteSnapshotVersion, that of the resume token
    \* in the process
    listening,      \* the query has a view and a target
    view,           \* the rest of the view
    waiting,        \* there are listeners without their first event
    online,         \* OnlineState
    timer,          \* online_state_timer_ is set
    failed,         \* watch_stream_failures_ is not 0
    assertFailed,   \* a HARD_ASSERT has failed
    \* the streams
    acks,           \* versions of writes that were committed, not yet read
    stream,         \* the watch stream
    target,         \* what the backend knows of the target on this stream
    sent,           \* version up to which the backend has sent the target
    asked,          \* documents whose limbo target waits for its answer
    toClient,       \* messages not yet read
    writes, faults

disk     == <<queue, cache, remoteKeys, snapshot>>
shown    == <<listening, view, waiting>>
tracker  == <<online, timer, failed>>
watch    == <<stream, target, sent, asked, toClient>>
counters == <<writes, faults>>
vars     == <<log, disk, shown, tracker, assertFailed, acks, watch, counters>>

Content == Value \cup {Absent}

Batch == [doc : Doc, value : Content]

\* committed: has_committed_mutations, known from an acknowledgement alone
Entry == [version : 0 .. Len(log), value : Content, committed : BOOLEAN]

\* mutated: documents shown with local mutations; current: current_; synced:
\* sync_state_, the negation of fromCache; limbo: limbo_documents_
View == [docs : [Doc -> Content], mutated : SUBSET Doc, current : BOOLEAN,
         synced : BOOLEAN, limbo : SUBSET Doc]

Nothing == [d \in Doc |-> Absent]

NewView ==
    [docs |-> Nothing, mutated |-> {}, current |-> FALSE, synced |-> FALSE, limbo |-> {}]

Message ==
    [type : {"added", "refused"}]
    \cup [type : {"snapshot"}, version : Nat, reset : BOOLEAN, docs : SUBSET Doc,
          limbo : SUBSET Doc]

HardAssert(holds) == assertFailed' = (assertFailed \/ ~holds)

Init ==
    /\ log = <<>>
    /\ queue = <<>>
    /\ cache = [d \in Doc |-> [version |-> 0, value |-> Absent, committed |-> FALSE]]
    /\ remoteKeys = {} /\ snapshot = 0
    /\ listening = FALSE /\ view = NewView /\ waiting = FALSE
    /\ online = "Unknown" /\ timer = FALSE /\ failed = FALSE
    /\ assertFailed = FALSE
    /\ acks = <<>>
    /\ stream = "stopped" /\ target = "none" /\ sent = 0 /\ asked = {} /\ toClient = <<>>
    /\ writes = 0 /\ faults = 0

-----------------------------------------------------------------------------
(* The backend's documents as of a version.                                *)

VersionOf(v, d) == Max({0} \cup {i \in 1 .. v : log[i].doc = d})

At(v, d) == IF VersionOf(v, d) = 0 THEN Absent ELSE log[VersionOf(v, d)].value

-----------------------------------------------------------------------------
(* The local view and the query's view.  A definition named _Bug is a      *)
(* mistake that the properties below must notice in the next definition.   *)

Pending(q, d) == {i \in DOMAIN q : q[i].doc = d}

\* LocalDocumentsView: the last pending write of a document, or the cache
Overlay_Bug(q, d) == q[Min(Pending(q, d))].value
Overlay(q, d)     == q[Max(Pending(q, d))].value

Local(c, q, d) == IF Pending(q, d) = {} THEN c[d].value ELSE Overlay(q, d)

HasLocalMutations(q, d) == Pending(q, d) # {}

\* ShouldWaitForSyncedDocument: watch will send the document again
ShouldWaitForSyncedDocument(c, q, d) ==
    d \in view.mutated /\ c[d].committed /\ ~HasLocalMutations(q, d)

\* ComputeDocumentChanges applies a change of the documents, or of whether the
\* one shown has mutations that the backend has not confirmed by a snapshot
Applies(c, q, d) ==
    LET old == view.docs[d]
        new == Local(c, q, d)
        stillMutated == HasLocalMutations(q, d) \/ (d \in view.mutated /\ c[d].committed)
    IN  IF old # Absent /\ new # Absent
        THEN IF old = new THEN (d \in view.mutated) # stillMutated
             ELSE ~ShouldWaitForSyncedDocument(c, q, d)
        ELSE old # new

\* ShouldBeInLimbo, for documents ds of which m have local mutations
Limbo_Bug(ds, m, keys) == {}
Limbo(ds, m, keys)     == {d \in Doc : ds[d] # Absent /\ d \notin keys /\ d \notin m}

\* ApplyChanges: the view after the documents of changes may have changed
ApplyChanges(changes, c, q, keys, current) ==
    LET applied == {d \in changes : Applies(c, q, d)}
        docs == [d \in Doc |-> IF d \in applied THEN Local(c, q, d) ELSE view.docs[d]]
        mutated == (view.mutated \ applied)
                    \cup {d \in applied : docs[d] # Absent /\ HasLocalMutations(q, d)}
        limbo == IF current THEN Limbo(docs, mutated, keys) ELSE view.limbo
    IN  [docs |-> docs, mutated |-> mutated, current |-> current,
         synced |-> current /\ limbo = {}, limbo |-> limbo]

\* QueryListener::ShouldRaiseInitialEvent
ShouldRaiseInitialEvent_Bug(v, o) == v.synced \/ v.docs # Nothing
ShouldRaiseInitialEvent(v, o)     == v.synced \/ v.docs # Nothing \/ o = "Offline"

\* OnViewSnapshots and OnOnlineStateChanged, for listeners that wait
RaiseEvents(v, o, waits) == waiting' = (waits /\ ~ShouldRaiseInitialEvent(v, o))

\* limbo targets are listened to, or stopped: their answers count no more
Forgotten(messages, docs) ==
    [i \in DOMAIN messages |->
        IF messages[i].type = "snapshot"
        THEN [messages[i] EXCEPT !.limbo = @ \ docs] ELSE messages[i]]

TrackLimbo(v, messages) ==
    LET gone == view.limbo \ v.limbo
    IN  /\ asked' = IF stream = "open" THEN (asked \ gone) \cup (v.limbo \ view.limbo)
                    ELSE asked
        /\ toClient' = Forgotten(messages, gone)

\* EmitNewSnapshotsAndNotifyLocalStore, with the caches as they are now
EmitNewSnapshots(changes, c, q, keys, current, messages) ==
    IF listening
    THEN LET v == ApplyChanges(changes, c, q, keys, current)
         IN  /\ view' = v
             /\ RaiseEvents(v, online', waiting)
             /\ TrackLimbo(v, messages)
             /\ UNCHANGED listening
    ELSE /\ toClient' = messages
         /\ UNCHANGED <<shown, asked>>

-----------------------------------------------------------------------------
(* Writes.                                                                 *)

Writing == writes < MaxWrites /\ writes' = writes + 1

\* SyncEngine::WriteMutations
WriteMutations ==
    /\ Writing
    /\ \E b \in Batch :
        /\ queue' = Append(queue, b)
        /\ UNCHANGED tracker
        /\ EmitNewSnapshots({b.doc}, cache, queue', remoteKeys, view.current, toClient)
    /\ UNCHANGED <<log, cache, remoteKeys, snapshot, assertFailed, acks, stream, target,
                   sent, faults>>

\* ApplyBatchResult: the cache takes the write if it is newer
IsNewer_Bug(e, v) == TRUE
IsNewer(e, v)     == e.version < v

\* HandleSuccessfulWrite and LocalStore::AcknowledgeBatch
WriteAcknowledged ==
    /\ acks # <<>>
    /\ acks' = Tail(acks)
    /\ queue' = Tail(queue)
    /\ LET b == Head(queue)
           v == Head(acks)
       IN  /\ cache' = IF IsNewer(cache[b.doc], v)
                       THEN [cache EXCEPT ![b.doc] =
                               [version |-> v, value |-> b.value, committed |-> TRUE]]
                       ELSE cache
           /\ UNCHANGED tracker
           /\ EmitNewSnapshots({b.doc}, cache', queue', remoteKeys, view.current, toClient)
    /\ UNCHANGED <<log, remoteKeys, snapshot, assertFailed, stream, target, sent, counters>>

Failing == faults < MaxFaults /\ faults' = faults + 1

\* HandleRejectedWrite: the backend refuses the first write that it has not
\* committed, after the answers to those before it
WriteRejected ==
    /\ acks = <<>> /\ queue # <<>>
    /\ Failing
    /\ queue' = Tail(queue)
    /\ UNCHANGED tracker
    /\ EmitNewSnapshots({Head(queue).doc}, cache, queue', remoteKeys, view.current, toClient)
    /\ UNCHANGED <<log, cache, remoteKeys, snapshot, assertFailed, acks, stream, target,
                   sent, writes>>

\* the writes without an answer are sent again
WriteStreamFails ==
    /\ acks # <<>>
    /\ Failing
    /\ acks' = <<>>
    /\ UNCHANGED <<log, disk, shown, tracker, assertFailed, watch, writes>>

-----------------------------------------------------------------------------
(* Listening.                                                              *)

\* LocalStore::ExecuteQuery and the first snapshot of a view
InitialView ==
    LET docs == [d \in Doc |-> Local(cache, queue, d)]
    IN  [NewView EXCEPT !.docs = docs,
            !.mutated = {d \in Doc : docs[d] # Absent /\ HasLocalMutations(queue, d)}]

\* HandleWatchStreamStart, in state o, with the timer t and failures f
TrackStart(o, t, f) ==
    IF f THEN online' = o /\ timer' = t /\ UNCHANGED assertFailed
    ELSE online' = "Unknown" /\ timer' = TRUE /\ HardAssert(~t)

\* EventManager::AddQueryListener, SyncEngine::Listen and RemoteStore::Listen
AddQueryListener ==
    /\ IF listening
       THEN /\ RaiseEvents(view, online, TRUE)
            /\ UNCHANGED <<listening, view, tracker, assertFailed, watch>>
       ELSE /\ listening' = TRUE
            /\ view' = InitialView
            /\ RaiseEvents(InitialView, online, TRUE)
            /\ IF stream = "stopped"
               THEN stream' = "connecting" /\ TrackStart(online, timer, failed)
               ELSE UNCHANGED <<stream, online, timer, assertFailed>>
            /\ IF stream = "open" THEN target' = "asked" /\ sent' = snapshot
               ELSE UNCHANGED <<target, sent>>
            /\ UNCHANGED <<failed, asked, toClient>>
    /\ UNCHANGED <<log, disk, acks, counters>>

\* SetAndBroadcast, of a state that the listeners and the view are told
Broadcast(o) ==
    IF o = "Offline" /\ listening
    THEN LET v == [view EXCEPT !.current = FALSE,
                               !.synced = IF view.current THEN FALSE ELSE @]
         IN  view' = v /\ RaiseEvents(v, o, waiting) /\ UNCHANGED listening
    ELSE UNCHANGED shown

\* OnlineStateTracker's 10 seconds
TimerFires ==
    /\ timer
    /\ timer' = FALSE
    /\ HardAssert(online = "Unknown")
    /\ online' = "Offline"
    /\ Broadcast("Offline")
    /\ UNCHANGED <<log, disk, failed, acks, watch, counters>>

\* OnWatchStreamOpen: every target is listened to again
AskedOnOpen_Bug == {}
AskedOnOpen     == view.limbo

WatchStreamOpens ==
    /\ stream = "connecting"
    /\ stream' = "open"
    /\ target' = IF listening THEN "asked" ELSE "none"
    /\ sent' = IF listening THEN snapshot ELSE 0
    /\ asked' = AskedOnOpen
    /\ UNCHANGED <<log, disk, shown, tracker, assertFailed, acks, toClient, counters>>

Disconnected == target' = "none" /\ sent' = 0 /\ asked' = {} /\ toClient' = <<>>

\* OnWatchStreamClose with an error: HandleWatchStreamFailure and a new start
TimerCleared_Bug == timer
TimerCleared     == FALSE

WatchStreamFails ==
    /\ stream # "stopped"
    /\ Failing
    /\ Disconnected
    /\ IF ~listening
       THEN /\ stream' = "stopped"
            /\ online' = "Unknown" /\ timer' = FALSE /\ failed' = FALSE
            /\ UNCHANGED <<shown, assertFailed>>
       ELSE /\ stream' = "connecting"
            /\ IF online = "Online"
               THEN /\ online' = "Unknown" /\ timer' = TRUE
                    /\ HardAssert(~failed /\ ~timer)
                    /\ UNCHANGED <<failed, shown>>
               ELSE /\ failed' = TRUE
                    /\ timer' = TimerCleared
                    /\ online' = "Offline"
                    /\ Broadcast("Offline")
                    /\ UNCHANGED assertFailed
    /\ UNCHANGED <<log, disk, acks, writes>>

\* RemoteStore::RestartNetwork, when the device's network has changed
RestartNetwork ==
    /\ Failing
    /\ Disconnected
    /\ acks' = <<>>
    /\ failed' = FALSE
    /\ IF listening THEN stream' = "connecting" /\ TrackStart("Unknown", FALSE, FALSE)
       ELSE /\ stream' = "stopped" /\ online' = "Unknown" /\ timer' = FALSE
            /\ UNCHANGED assertFailed
    /\ UNCHANGED <<log, disk, shown, writes>>

-----------------------------------------------------------------------------
(* Messages of the watch stream.                                           *)

Reading(type) == toClient # <<>> /\ Head(toClient).type = type

\* OnlineStateTracker::UpdateState(Online), for every message
IsOnline == online' = "Online" /\ timer' = FALSE /\ failed' = FALSE

TargetAdded ==
    /\ Reading("added")
    /\ toClient' = Tail(toClient)
    /\ IsOnline
    /\ UNCHANGED <<log, disk, shown, assertFailed, acks, stream, target, sent, asked,
                   counters>>

\* the document that a snapshot at version v tells
Told_Bug(v, d) == [version |-> v + 1, value |-> At(v, d), committed |-> FALSE]
Told(v, d) ==
    [version |-> IF At(v, d) = Absent THEN v ELSE VersionOf(v, d), value |-> At(v, d),
     committed |-> FALSE]

\* LocalStore::ApplyRemoteEvent: an update that is not outdated
IsUpdate(e, new) == new.version > e.version \/ (new.version = e.version /\ e.committed)

Present(v, docs) == {d \in docs : At(v, d) # Absent}

KeysAfter(m) ==
    IF m.reset THEN Present(m.version, m.docs)
    ELSE (remoteKeys \ m.docs) \cup Present(m.version, m.docs)

\* RaiseWatchSnapshot: the documents of the target that changed, and those
\* whose limbo targets are answered
RaiseWatchSnapshot ==
    /\ Reading("snapshot")
    /\ LET m == Head(toClient)
           updates == {d \in m.docs \cup m.limbo : IsUpdate(cache[d], Told(m.version, d))}
       IN  /\ IsOnline
           /\ HardAssert(m.version >= snapshot)
           /\ cache' = [d \in Doc |-> IF d \in updates THEN Told(m.version, d) ELSE cache[d]]
           /\ remoteKeys' = KeysAfter(m)
           /\ snapshot' = m.version
           /\ EmitNewSnapshots(updates, cache', queue, remoteKeys', TRUE, Tail(toClient))
    /\ UNCHANGED <<log, queue, acks, stream, target, sent, counters>>

\* ProcessTargetError and HandleRejectedListen: the listeners get an error
TargetRefused ==
    /\ Reading("refused")
    /\ IsOnline
    /\ listening' = FALSE /\ view' = NewView /\ waiting' = FALSE
    /\ target' = "none" /\ sent' = 0 /\ asked' = {}
    /\ toClient' = Tail(toClient)
    /\ UNCHANGED <<log, disk, assertFailed, acks, stream, counters>>

-----------------------------------------------------------------------------
(* The backend.                                                            *)

\* the client's writes in order; one that changes nothing has the version of
\* the document as it is
ServerCommits ==
    /\ Len(acks) < Len(queue)
    /\ LET b == queue[Len(acks) + 1] IN
       IF b.value # Absent /\ At(Len(log), b.doc) = b.value
       THEN acks' = Append(acks, VersionOf(Len(log), b.doc)) /\ UNCHANGED log
       ELSE acks' = Append(acks, Len(log) + 1) /\ log' = Append(log, b)
    /\ UNCHANGED <<disk, shown, tracker, assertFailed, watch, counters>>

RemoteWrite ==
    /\ Writing
    /\ \E b \in Batch :
        /\ At(Len(log), b.doc) # b.value
        /\ log' = Append(log, b)
    /\ UNCHANGED <<disk, shown, tracker, assertFailed, acks, watch, faults>>

Tell(m) == toClient' = Append(toClient, m)

ServerAdds ==
    /\ target = "asked"
    /\ target' = "added"
    /\ Tell([type |-> "added"])
    /\ UNCHANGED <<log, disk, shown, tracker, assertFailed, acks, stream, sent, asked,
                   counters>>

ServerRefuses ==
    /\ target = "asked"
    /\ Failing
    /\ target' = "refused"
    /\ Tell([type |-> "refused"])
    /\ UNCHANGED <<log, disk, shown, tracker, assertFailed, acks, stream, sent, asked,
                   writes>>

\* documents that are not as the client was told; nothing is said of one that
\* came and went since
Changed(from, to) ==
    {d \in Doc : VersionOf(to, d) > from /\ (At(from, d) # Absent \/ At(to, d) # Absent)}

\* The first snapshot resumes where the client was, or resets the target and
\* sends what there is.
ServerSnapshot ==
    /\ \/ target = "added"
       \/ target = "current" /\ (sent < Len(log) \/ asked # {})
    /\ \E reset \in BOOLEAN :
        /\ IF reset THEN target = "added" /\ Failing ELSE UNCHANGED faults
        /\ Tell([type |-> "snapshot", version |-> Len(log), reset |-> reset, limbo |-> asked,
                 docs |-> IF reset THEN Present(Len(log), Doc) ELSE Changed(sent, Len(log))])
    /\ target' = "current"
    /\ sent' = Len(log)
    /\ asked' = {}
    /\ UNCHANGED <<log, disk, shown, tracker, assertFailed, acks, stream, writes>>

-----------------------------------------------------------------------------

\* another process: what is on disk is left
Relaunch ==
    /\ Failing
    /\ listening' = FALSE /\ view' = NewView /\ waiting' = FALSE
    /\ online' = "Unknown" /\ timer' = FALSE /\ failed' = FALSE
    /\ stream' = "stopped" /\ Disconnected
    /\ acks' = <<>>
    /\ UNCHANGED <<log, disk, assertFailed, writes>>

Worker == WriteAcknowledged \/ TargetAdded \/ RaiseWatchSnapshot \/ TargetRefused

Backend == ServerCommits \/ ServerAdds \/ ServerSnapshot

Next ==
    /\ ~assertFailed
    /\ \/ WriteMutations \/ AddQueryListener \/ TimerFires
       \/ Worker \/ Backend \/ WatchStreamOpens
       \/ WriteRejected \/ WriteStreamFails \/ WatchStreamFails \/ RestartNetwork
       \/ ServerRefuses \/ RemoteWrite \/ Relaunch

Spec == Init /\ [][Next]_vars

-----------------------------------------------------------------------------

\* Type invariant: caches, the view and the messages of the watch stream keep their types.
TypeOK ==
    /\ log \in Seq(Batch)
    /\ queue \in Seq(Batch)
    /\ cache \in [Doc -> Entry]
    /\ remoteKeys \subseteq Doc
    /\ snapshot \in 0 .. Len(log)
    /\ listening \in BOOLEAN
    /\ view \in View
    /\ waiting \in BOOLEAN
    /\ online \in {"Unknown", "Online", "Offline"}
    /\ timer \in BOOLEAN /\ failed \in BOOLEAN /\ assertFailed \in BOOLEAN
    /\ acks \in Seq(1 .. Len(log))
    /\ stream \in {"stopped", "connecting", "open"}
    /\ target \in {"none", "asked", "refused", "added", "current"}
    /\ sent \in 0 .. Len(log)
    /\ asked \subseteq Doc
    /\ toClient \in Seq(Message)
    /\ writes \in 0 .. MaxWrites
    /\ faults \in 0 .. MaxFaults

\* No HARD_ASSERT of the client fails.
AssertionsHold == ~assertFailed

\* A view that was changed by one piece of news after the other is what a new
\* one would be: every document as last written here, or as the cache has it.
\* Only a write that was acknowledged may leave what was shown until watch
\* sends the document (ShouldWaitForSyncedDocument).
ViewIsLocal ==
    listening =>
        \A d \in Doc :
            \/ \E i \in Pending(queue, d) :
                /\ \A j \in Pending(queue, d) : j <= i
                /\ view.docs[d] = queue[i].value
            \/ Pending(queue, d) = {} /\ view.docs[d] = cache[d].value
            \/ ShouldWaitForSyncedDocument(cache, queue, d)

\* A document shown as local because its write was acknowledged and watch has
\* not sent it: ShouldBeInLimbo takes it for one with a pending write.
Unconfirmed(d) == ShouldWaitForSyncedDocument(cache, queue, d)

\* What is not said to come from the cache is what the backend had at the
\* version of the last snapshot, or at that of a later write of this client,
\* with the pending writes over it.
SyncedIsServer ==
    view.synced =>
        \A d \in Doc :
            \/ view.docs[d] = At(Max({snapshot, cache[d].version}), d)
            \/ HasLocalMutations(queue, d)
            \/ Unconfirmed(d)

\* Neither an acknowledgement nor a snapshot takes a document back to an older
\* version, whichever of the two comes first, and the cache has what the
\* backend had at its version.
NeverOlder ==
    [][\A d \in Doc :
        /\ cache'[d].version >= cache[d].version
        /\ cache'[d].value = At(cache'[d].version, d)]_vars

\* The worker runs, timers fire, and a backend that was reached answers.  Each
\* of the three ends by itself, so that none can keep the others from running.
FairSpec == Spec /\ WF_vars(~assertFailed /\ (Worker \/ TimerFires \/ Backend))

\* No listener waits for ever, though the backend may never be reached.
FirstEvent == []<>~waiting

\* If it is reached and stays so, the view comes to be synced and to show what
\* the backend has; but for a document that was written here and deleted there
\* before watch had sent it, which stays (ShouldBeInLimbo).
Converged ==
    /\ view.synced
    /\ \A d \in Doc :
        \/ view.docs[d] = At(Len(log), d)
        \/ Unconfirmed(d) /\ At(Len(log), d) = Absent

ViewConverges == <>[](listening /\ stream = "open") => <>[]Converged

=============================================================================

--------------------------- MODULE WritePipeline ---------------------------
(***************************************************************************)
(* How the Firestore client sends an app's writes to the backend           *)
(* (sync_engine.cc, local_store.cc, leveldb_mutation_queue.cc,             *)
(* remote_store.cc, stream.cc, write_stream.cc, grpc_stream.cc).           *)
(*                                                                         *)
(* Everything the client does runs on its worker queue, one operation at a *)
(* time (async_queue.cc): calls of the app, timers, answers of the         *)
(* credentials provider and completions of gRPC, in whatever order they    *)
(* are enqueued.  One action is one such operation with all the calls it   *)
(* makes.  A write batch is stored before it is sent and stays stored      *)
(* until the backend has answered; at most kMaxPendingWrites of them are   *)
(* in the pipeline, which is sent again on every new stream.               *)
(*                                                                         *)
(* Left out: what a write says (a write is its number), the stream token   *)
(* (stored and sent, and read by nothing), the length of the backoff and   *)
(* idle delays (a timer fires at any time after it was set), the snapshots *)
(* that a write raises, transactions, malformed responses, and a backend   *)
(* that ends a call with status OK.                                        *)
(***************************************************************************)
EXTENDS Naturals, Sequences, FiniteSets, SequencesExt

CONSTANTS
    User,               \* users the client is run for, one after the other
    MaxPendingWrites,   \* kMaxPendingWrites
    Refused,            \* writes the backend refuses for what they say
    MaxWrites,          \* bound: writes made
    MaxFaults,          \* bound: failures of tokens, connections and handshakes
    MaxChanges          \* bound: changes of user or network, and new processes

ASSUME PipelineAssumption == MaxPendingWrites \in Nat \ {0} /\ Refused \subseteq Nat
ASSUME WriteBounds == MaxWrites \in Nat /\ MaxFaults \in Nat /\ MaxChanges \in Nat

VARIABLES
    \* on disk
    mutations,      \* the mutation queue of each user
    \* in the process
    user,           \* current_user_
    nextBatchId,    \* next_batch_id_ of the user's queue
    callbacks,      \* mutation_callbacks_: IDs of batches, of each user
    waiters,        \* pending_writes_callbacks_: the ID waited for and, only
                    \* to state what that promises, the last write at the time
    networkEnabled, \* is_network_enabled_
    pipeline,       \* write_pipeline_
    stream,         \* write_stream_
    assertFailed,   \* a HARD_ASSERT has failed
    \* the stream's gRPC call
    toServer,       \* messages written and not yet handled by the backend
    toClient,       \* messages of the backend and not yet read
    status,         \* "open", or how the call has ended
    \* the backend
    log,            \* the writes it has committed
    \* history
    outcome,        \* what became of each write
    writes, faults, changes

disk     == <<mutations>>
session  == <<user, nextBatchId>>
asked    == <<callbacks, waiters>>
call     == <<toServer, toClient, status>>
remote   == <<networkEnabled, pipeline, stream>>
counters == <<writes, faults, changes>>
vars     == <<disk, session, asked, remote, assertFailed, call, log, outcome, counters>>

Write == 1 .. MaxWrites

Batch == [id : Nat \ {0}, write : Write]

Handshake == [type |-> "handshake"]
Writing(b) == [type |-> "write", batch |-> b]
Message == {Handshake} \cup [type : {"write"}, batch : Batch]

Ids(q) == {q[i].id : i \in DOMAIN q}

-----------------------------------------------------------------------------
(* Streams (stream.cc).  A definition named _Bug is a mistake that the     *)
(* properties below must notice in the definition that follows it.         *)

StreamState == {"initial", "starting", "open", "error", "backoff"}

\* handshake: handshake_complete_; idle: idleness_timer_ is set; stale: token
\* requests that were under way when the stream was closed (close_count_)
Stream == [state : StreamState, handshake : BOOLEAN, idle : BOOLEAN, stale : Nat]

NewStream == [state |-> "initial", handshake |-> FALSE, idle |-> FALSE, stale |-> 0]

IsStarted(s) == s.state \in {"starting", "open", "backoff"}
IsReady(s)   == s.state = "open" /\ s.handshake

Start_Bug(s) == [s EXCEPT !.state = IF @ = "error" THEN "error" ELSE "starting"]
Start(s)     == [s EXCEPT !.state = IF @ = "error" THEN "backoff" ELSE "starting"]

MarkIdle(s) == IF s.state = "open" THEN [s EXCEPT !.idle = TRUE] ELSE s

CancelIdleCheck(s) == [s EXCEPT !.idle = FALSE]

InhibitBackoff(s) == [s EXCEPT !.state = "initial"]

Closed_Bug(s, to) == [s EXCEPT !.state = to, !.idle = FALSE]
Closed(s, to)     == [s EXCEPT !.state = to, !.handshake = FALSE, !.idle = FALSE]

Stop(s) ==
    IF ~IsStarted(s) THEN s
    ELSE [Closed(s, "initial") EXCEPT !.stale = IF s.state = "starting" THEN @ + 1 ELSE @]

\* close_count_ at the time of the request, compared with that of the answer
TokenIsCurrent_Bug(t) == t \in {"current", "stale"}
TokenIsCurrent(t)     == t = "current"

-----------------------------------------------------------------------------
(* The mutation queue and the pipeline.                                    *)

\* LoadNextBatchIdFromDb: above the batches of every user
NextIdAbove_Zero(m) == Max({0} \cup UNION {Ids(m[u]) : u \in User})
NextIdAbove_Bug(m)  == 1
NextIdAbove(m)      == 1 + Max({0} \cup UNION {Ids(m[u]) : u \in User})

\* NextMutationBatchAfterBatchId, called until it has no more: the batches
\* of a queue, which is ordered by ID, that follow the last of a pipeline
Unsent_Bug(p, q) ==
    LET n == IF p = <<>> THEN 0
             ELSE Cardinality({i \in DOMAIN q : q[i].id < p[Len(p)].id})
    IN  SubSeq(q, n + 1, Len(q))

Unsent(p, q) ==
    LET n == IF p = <<>> THEN 0
             ELSE Cardinality({i \in DOMAIN q : q[i].id <= p[Len(p)].id})
    IN  SubSeq(q, n + 1, Len(q))

Room(p) == IF Len(p) < MaxPendingWrites THEN MaxPendingWrites - Len(p) ELSE 0

Taken(p, q) ==
    LET rest == Unsent(p, q)
    IN  SubSeq(rest, 1, IF Len(rest) < Room(p) THEN Len(rest) ELSE Room(p))

\* FillWritePipeline, with pipeline p, mutation queue q, stream s and the
\* messages w already written: the batches taken are written if the stream is
\* ready, and the stream is started if it is needed.
FillWritePipeline(p, q, s, w) ==
    LET taken == Taken(p, q)
        filled == p \o taken
        marked == CASE filled = <<>> -> MarkIdle(s)
                    [] IsReady(s) /\ taken # <<>> -> CancelIdleCheck(s)
                    [] OTHER -> s
    IN  /\ pipeline' = filled
        /\ toServer' = IF IsReady(s) THEN w \o [i \in DOMAIN taken |-> Writing(taken[i])]
                       ELSE w
        /\ stream' = IF filled # <<>> /\ ~IsStarted(s) THEN Start(s) ELSE marked

\* DisableNetworkInternal and EnableNetwork in turn: what RestartNetwork does
\* for user u, whose queue is q
RestartNetwork(q) ==
    /\ networkEnabled' = TRUE
    /\ FillWritePipeline(<<>>, q, InhibitBackoff(Stop(stream)), <<>>)
    /\ toClient' = <<>>
    /\ status' = "open"

HardAssert(holds) == assertFailed' = (assertFailed \/ ~holds)

Init ==
    /\ mutations = [u \in User |-> <<>>]
    /\ user \in User
    /\ nextBatchId = 1
    /\ callbacks = [u \in User |-> {}]
    /\ waiters = {}
    /\ networkEnabled = TRUE
    /\ pipeline = <<>>
    /\ stream = NewStream
    /\ assertFailed = FALSE
    /\ toServer = <<>> /\ toClient = <<>> /\ status = "open"
    /\ log = <<>>
    /\ outcome = [w \in Write |-> "none"]
    /\ writes = 0 /\ faults = 0 /\ changes = 0

-----------------------------------------------------------------------------
(* Calls of the app, and changes around the client.                        *)

\* SyncEngine::WriteMutations: the batch is stored, then sent if it can be
WriteMutations ==
    /\ writes < MaxWrites
    /\ LET b == [id |-> nextBatchId, write |-> writes + 1]
           queue == Append(mutations[user], b)
       IN  /\ mutations' = [mutations EXCEPT ![user] = queue]
           /\ callbacks' = [callbacks EXCEPT ![user] = @ \cup {b.id}]
           /\ outcome' = [outcome EXCEPT ![b.write] = "accepted"]
           /\ IF networkEnabled
              THEN FillWritePipeline(pipeline, queue, stream, toServer)
              ELSE UNCHANGED <<pipeline, stream, toServer>>
    /\ nextBatchId' = nextBatchId + 1
    /\ writes' = writes + 1
    /\ UNCHANGED <<user, waiters, networkEnabled, assertFailed, toClient, status,
                   log, faults, changes>>

\* GetHighestUnacknowledgedBatchId
Highest_Bug(q) == Head(q).id
Highest(q)     == Last(q).id

\* waitForPendingWrites: called back at once if nothing is pending
RegisterPendingWritesCallback ==
    /\ mutations[user] # <<>>
    /\ waiters' = waiters \cup
            {[id |-> Highest(mutations[user]), last |-> Last(mutations[user]).write]}
    /\ UNCHANGED <<disk, session, callbacks, remote, assertFailed, call, log, outcome,
                   counters>>

Changing == changes < MaxChanges /\ changes' = changes + 1

\* the waiting callbacks that a change of user leaves
WaitersLeft_Bug(u) == waiters
WaitersLeft(u)     == IF u = user THEN waiters ELSE {}

\* SyncEngine::HandleCredentialChange: another user, or another token
HandleCredentialChange ==
    /\ Changing
    /\ \E u \in User :
        /\ user' = u
        /\ nextBatchId' = IF u = user THEN nextBatchId ELSE NextIdAbove(mutations)
        /\ waiters' = WaitersLeft(u)
        /\ IF networkEnabled THEN RestartNetwork(mutations[u])
           ELSE UNCHANGED <<remote, call>>
    /\ UNCHANGED <<disk, callbacks, assertFailed, log, outcome, writes, faults>>

DisableNetwork ==
    /\ Changing
    /\ networkEnabled
    /\ networkEnabled' = FALSE
    /\ pipeline' = <<>>
    /\ stream' = Stop(stream)
    /\ toServer' = <<>> /\ toClient' = <<>> /\ status' = "open"
    /\ UNCHANGED <<disk, session, asked, assertFailed, log, outcome, writes, faults>>

EnableNetwork ==
    /\ Changing
    /\ ~networkEnabled
    /\ networkEnabled' = TRUE
    /\ FillWritePipeline(pipeline, mutations[user], stream, toServer)
    /\ UNCHANGED <<disk, session, asked, assertFailed, toClient, status, log, outcome,
                   writes, faults>>

\* the network of the device has changed (RemoteStore's connectivity callback)
ConnectivityChanged ==
    /\ Changing
    /\ networkEnabled
    /\ RestartNetwork(mutations[user])
    /\ UNCHANGED <<disk, session, asked, assertFailed, log, outcome, writes, faults>>

\* the process ends, at any point between two operations, and starts again
Relaunch ==
    /\ Changing
    /\ nextBatchId' = NextIdAbove(mutations)
    /\ callbacks' = [u \in User |-> {}]
    /\ waiters' = {}
    /\ networkEnabled' = TRUE
    /\ FillWritePipeline(<<>>, mutations[user], NewStream, <<>>)
    /\ toClient' = <<>> /\ status' = "open"
    /\ UNCHANGED <<disk, user, assertFailed, log, outcome, writes, faults>>

-----------------------------------------------------------------------------
(* Events of the write stream.                                             *)

\* RemoveMutationBatch: a batch is removed by its ID
Without(q, b) ==
    LET at == {i \in DOMAIN q : q[i].id = b.id}
    IN  IF at = {} THEN q ELSE RemoveAt(q, CHOOSE i \in at : TRUE)

\* HandleSuccessfulWrite and HandleRejectedWrite: the batch at the front of
\* the pipeline has had its answer.  The rest of the pipeline is filled up.
FrontAnswered(how, s, w) ==
    LET b == Head(pipeline)
        queue == Without(mutations[user], b)
    IN  /\ mutations' = [mutations EXCEPT ![user] = queue]
        /\ callbacks' = [callbacks EXCEPT ![user] = @ \ {b.id}]
        /\ waiters' = {n \in waiters : n.id # b.id}
        /\ outcome' = [outcome EXCEPT ![b.write] = how]
        /\ FillWritePipeline(Tail(pipeline), queue, s, w)

FrontIsStored == pipeline # <<>> /\ Head(pipeline) \in ToSet(mutations[user])

\* Datastore::IsPermanentWriteError, and whether the error is a write's at all
ErrorIsOfWrite(how) == how = "permanent" /\ stream.handshake /\ pipeline # <<>>

\* Stream::Close with an error, OnWriteStreamClose and HandleWriteError: the
\* pipeline is kept, less the batch that was refused, and the stream starts
\* again after its backoff, or at once if a batch was refused.
CloseStream(how) ==
    LET s == Closed(stream, "error")
    IN  /\ toClient' = <<>> /\ status' = "open"
        /\ IF ErrorIsOfWrite(how)
           THEN /\ FrontAnswered("rejected", InhibitBackoff(s), <<>>)
                /\ HardAssert(IsStarted(stream) /\ FrontIsStored)
           ELSE /\ stream' = IF pipeline # <<>> THEN Start(s) ELSE s
                /\ toServer' = <<>>
                /\ HardAssert(IsStarted(stream))
                /\ UNCHANGED <<mutations, callbacks, waiters, outcome, pipeline>>
    /\ UNCHANGED <<session, networkEnabled, log, writes, changes>>

\* ResumeStartWithCredentials: the call is made and the handshake written
TokenArrives ==
    /\ stream.state = "starting"
    /\ stream' = [stream EXCEPT !.state = "open"]
    /\ toServer' = <<Handshake>>
    /\ UNCHANGED <<disk, session, asked, networkEnabled, pipeline, assertFailed, toClient,
                   status, log, outcome, counters>>

TokenFails ==
    /\ stream.state = "starting"
    /\ faults < MaxFaults
    /\ faults' = faults + 1
    /\ CloseStream("transient")

\* the answer for a stream that was closed since
StaleTokenArrives ==
    /\ stream.stale > 0
    /\ LET s == [stream EXCEPT !.stale = @ - 1]
       IN  IF TokenIsCurrent("stale")
           THEN /\ stream' = [s EXCEPT !.state = "open"]
                /\ toServer' = Append(toServer, Handshake)
                /\ HardAssert(stream.state = "starting")
           ELSE /\ stream' = s
                /\ UNCHANGED <<toServer, assertFailed>>
    /\ UNCHANGED <<disk, session, asked, networkEnabled, pipeline, toClient, status, log,
                   outcome, counters>>

BackoffElapsed ==
    /\ stream.state = "backoff"
    /\ stream' = Start([stream EXCEPT !.state = "initial"])
    /\ UNCHANGED <<disk, session, asked, networkEnabled, pipeline, assertFailed, call,
                   log, outcome, counters>>

IdleTimeout ==
    /\ stream.idle
    /\ stream' = Stop(stream)
    /\ HardAssert(pipeline = <<>>)
    /\ toServer' = <<>> /\ toClient' = <<>> /\ status' = "open"
    /\ UNCHANGED <<disk, session, asked, networkEnabled, pipeline, log, outcome, counters>>

\* the first response of a stream answers its handshake, a later one the
\* write at the front of the pipeline
ReadHandshake ==
    /\ toClient # <<>> /\ ~stream.handshake
    /\ toClient' = Tail(toClient)
    /\ toServer' = toServer \o [i \in DOMAIN pipeline |-> Writing(pipeline[i])]
    /\ LET s == [stream EXCEPT !.handshake = TRUE]
       IN  stream' = IF pipeline = <<>> THEN s ELSE CancelIdleCheck(s)
    /\ HardAssert(stream.state = "open")
    /\ UNCHANGED <<disk, session, asked, networkEnabled, pipeline, status, log, outcome,
                   counters>>

ReadResult ==
    /\ toClient # <<>> /\ stream.handshake
    /\ toClient' = Tail(toClient)
    /\ HardAssert(stream.state = "open" /\ FrontIsStored)
    /\ FrontAnswered("acknowledged", stream, toServer)
    /\ UNCHANGED <<session, networkEnabled, status, log, counters>>

\* The call ends with an error.  gRPC gives the client what the backend had
\* sent before, unless an operation of the call fails first: then the reads
\* that have completed are dropped (FastFinishCompletionsBlocking).  A write
\* that the backend no longer handles may fail so.
StreamFinishes ==
    /\ status # "open"
    /\ toClient = <<>> \/ Len(toServer) > 1 \/ status = "transient"
    /\ CloseStream(status)
    /\ UNCHANGED faults

-----------------------------------------------------------------------------
(* The backend: it handles the messages of a call in order, and nothing of *)
(* a call that is over.                                                    *)

Serving == status = "open" /\ toServer # <<>>

ServerHandshake ==
    /\ Serving
    /\ Head(toServer) = Handshake
    /\ toServer' = Tail(toServer)
    /\ toClient' = Append(toClient, Handshake)
    /\ UNCHANGED <<disk, session, asked, remote, assertFailed, status, log, outcome,
                   counters>>

ServerCommit ==
    /\ Serving
    /\ Head(toServer).type = "write"
    /\ Head(toServer).batch.write \notin Refused
    /\ toServer' = Tail(toServer)
    /\ toClient' = Append(toClient, Head(toServer))
    /\ log' = Append(log, Head(toServer).batch.write)
    /\ UNCHANGED <<disk, session, asked, remote, assertFailed, status, outcome, counters>>

\* a write that is refused ends the call
ServerReject ==
    /\ Serving
    /\ Head(toServer).type = "write"
    /\ Head(toServer).batch.write \in Refused
    /\ status' = "permanent"
    /\ UNCHANGED <<disk, session, asked, remote, assertFailed, toServer, toClient, log,
                   outcome, counters>>

\* the connection breaks, or the backend refuses the handshake
CallFails ==
    /\ stream.state = "open"
    /\ status = "open"
    /\ faults < MaxFaults
    /\ faults' = faults + 1
    /\ \/ status' = "transient"
       \/ Serving /\ Head(toServer) = Handshake /\ status' = "permanent"
    /\ UNCHANGED <<disk, session, asked, remote, assertFailed, toServer, toClient, log,
                   outcome, writes, changes>>

-----------------------------------------------------------------------------

App == WriteMutations \/ RegisterPendingWritesCallback \/ DisableNetwork \/ EnableNetwork

Around == HandleCredentialChange \/ ConnectivityChanged \/ Relaunch

StreamEvent ==
    \/ TokenArrives \/ TokenFails \/ StaleTokenArrives \/ BackoffElapsed \/ IdleTimeout
    \/ ReadHandshake \/ ReadResult \/ StreamFinishes

Backend == ServerHandshake \/ ServerCommit \/ ServerReject

Next == ~assertFailed /\ (App \/ Around \/ StreamEvent \/ Backend \/ CallFails)

Spec == Init /\ [][Next]_vars

-----------------------------------------------------------------------------

\* Type invariant: batches, callbacks, the stream and its messages keep their types.
TypeOK ==
    /\ mutations \in [User -> Seq(Batch)]
    /\ user \in User
    /\ nextBatchId \in Nat \ {0}
    /\ callbacks \in [User -> SUBSET Nat]
    /\ waiters \subseteq [id : Nat, last : Write]
    /\ networkEnabled \in BOOLEAN
    /\ pipeline \in Seq(Batch)
    /\ stream \in Stream
    /\ assertFailed \in BOOLEAN
    /\ toServer \in Seq(Message) /\ toClient \in Seq(Message)
    /\ status \in {"open", "transient", "permanent"}
    /\ log \in Seq(Write)
    /\ outcome \in [Write -> {"none", "accepted", "acknowledged", "rejected"}]
    /\ writes \in 0 .. MaxWrites
    /\ faults \in 0 .. MaxFaults
    /\ changes \in 0 .. MaxChanges

\* None of the assertions these actions evaluate (HardAssert) fails.  The backend
\* is taken never to end a call with status OK, which OnWriteStreamClose asserts
\* of it rather than of the client.
AssertionsHold == ~assertFailed

\* What is sent is what is stored, from its front, with no batch left out or
\* twice, and as many as fit (remote_store.cc, FillWritePipeline).
PipelineIsFront ==
    IF networkEnabled
    THEN /\ IsPrefix(pipeline, mutations[user])
         /\ Len(pipeline) = MaxPendingWrites \/ pipeline = mutations[user]
    ELSE pipeline = <<>>

\* Responses carry no name: the nth of them is taken for the nth batch of the
\* pipeline.  What the backend has answered or has still to handle is the
\* pipeline, in its order.
ResponsesMatchPipeline ==
    IsReady(stream) =>
        toClient \o toServer = [i \in DOMAIN pipeline |-> Writing(pipeline[i])]

\* A callback waits only for a batch that is stored: no batch leaves without
\* its callback, and a new batch never takes over the ID of one that waits.
CallbacksPending ==
    /\ \A u \in User : callbacks[u] \subseteq Ids(mutations[u])
    /\ {n.id : n \in waiters} \subseteq Ids(mutations[user])

\* waitForPendingWrites calls back when all batches that were pending at the
\* time of the call have been answered.
WaitersSettled ==
    [][changes' = changes =>
        \A n \in waiters \ waiters' :
            \A i \in DOMAIN mutations'[user] : mutations'[user][i].write > n.last]_vars

\* What an app is promised about its writes.
Accepted ==
    INSTANCE AcceptedWrites WITH
        pending <- [u \in User |-> [i \in DOMAIN mutations[u] |-> mutations[u][i].write]]

AcceptedWritesSpec == Accepted!Spec

\* Every stored write of the user is answered in the end, unless the app
\* leaves the network disabled or the other user signed in.  The worker runs
\* what is enqueued, timers fire, tokens and the backend answer.
Fairness ==
    /\ WF_vars(~assertFailed /\ (TokenArrives \/ BackoffElapsed))
    /\ WF_vars(~assertFailed /\ (ReadHandshake \/ ReadResult \/ StreamFinishes))
    /\ WF_vars(~assertFailed /\ Backend)

FairSpec == Spec /\ Fairness

QueueDrains ==
    \A u \in User :
        mutations[u] # <<>> /\ user = u /\ networkEnabled
            ~> mutations[u] = <<>> \/ user # u \/ ~networkEnabled

=============================================================================

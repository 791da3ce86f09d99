# MindTheGap: a TLA+ model of the app

MindTheGap (`src/TFL Tube Times`) is an iOS app in Swift. A user saves London
Underground stops; the home page lists them with the next trains and lets the
user drag and delete them; a second page adds a stop. The data lives in Firestore, the
trains come from the TfL web API. The first-party code is thirteen Swift files
(2470 lines); the rest of `src/` is vendored pods and Xcode's files. Two of the
pods carry the app's data and are modelled too: Firestore's C++ core and Firebase
Auth's user and tokens.

Line numbers below are of `TFL Tube Times/TFL Tube Times/*.swift`; HP is
`HomePage.swift`, AL `AddLinePage.swift`, EE `ExtensionsEnums.swift`, LG
`Login.swift`. Names ending in `.cc` or `.mm` are under
`Pods/FirebaseFirestore/Firestore/core/src`, `FIRAuth.m` and `FIRUser.m` under
`Pods/FirebaseAuth/FirebaseAuth/Sources`.

## The system

| part | state | operations | correct when |
|---|---|---|---|
| Home page, saved stops (HP 117-220, 456-477, 661-679) | `finalTableArray` (rows), `timeArray` (times), the rows on the screen, the listeners it has added | refresh, two snapshot callbacks, reload, delete tap, drag | no stop has two rows; a settled list shows what is saved; a row's stop is the one deleted; rows and times keep in step |
| Arrival times (HP 223-282) | a repeating timer per row and snapshot, requests in flight, one document of times per stop | fetch, sort, filter by direction, write slot by slot | times shown are the latest, ascending, of the saved direction |
| Add-line page (AL) | chosen line, found naptanID, direction flags and titles, requests in flight | choose line, station, direction; three completions; `addStop` | the stop saved is one TfL knows; the page is never covered for nothing |
| Spinner (EE 390-413) | one global view, the views on the screen | show, remove | a removal removes what was shown |
| Tube status (HP 356-378, 544-577) | `tubeStatus` | fetch, reload | the rows asked for exist |
| Sign-up and session (`Login.swift`, HP 284-316; `FIRAuth.m`, `FIRUser.m`) | the signed-in user, tokens being fetched | create user, sign out at an invalid token | what a user writes goes out as that user's |
| Line and station tables (HP 318-347, 422-451, 613-655, AL 557-617, `gridCell.swift` 53-82, EE 11-70) | none | lookups by name | every code and name has the right colour, image and URL |
| Firestore, writes (`sync_engine.cc`, `leveldb_mutation_queue.cc`, `remote_store.cc`, `stream.cc`, `write_stream.cc`, `grpc_stream.cc`) | the mutation queue on disk, the pipeline, the stream, the callbacks | write, wait for pending writes, enable and disable the network, change of user, stream events | no write is lost, overtaken, or confirmed that was not committed |
| Firestore, listeners (`view.cc`, `query_listener.cc`, `event_manager.cc`, `local_store.cc`, `remote_event.cc`, `online_state_tracker.cc`) | the document cache on disk, the view, limbo documents, the online state | listen, acknowledge, apply a watch snapshot, go offline | what is shown is the local view, never older than before, and comes to be the backend's |
| Firestore's credentials (`firebase_credentials_provider_apple.mm`, `firestore_client.cc`) | a counter of users seen | get a token, tell of a user | a stream's token is its user's |

**How they interact.** Everything the app runs is a block of the main dispatch
queue or a touch or timer served by the same run loop; no two handlers overlap,
but anything may come *between* two blocks. The home page calls Firestore, which
queues the call for its worker; the worker posts listener callbacks on the main
queue; the callback of the list adds listeners and starts requests and timers;
the completion of a request writes to Firestore, which calls the listeners
again. The add-line page writes a stop and calls `refreshData` of the home page
(its `delegate`), which empties both arrays and adds one more listener.

Below the app there are two more serial queues. Firebase Auth changes its user
and fetches tokens on a work queue of its own and reports both by blocks on the
main queue; Firestore's worker queue runs the app's calls, timers, completions
of gRPC and what the credentials provider passes on from those blocks. A write goes
to the mutation queue on disk, from there to the pipeline of the write stream,
and its acknowledgement back to the view; the watch stream brings the backend's
documents to the same view on its own time.

**What is hard.** Listeners are added with every refresh and every snapshot and
never removed, so one change calls back many times. The arrays are emptied by
some callbacks, filled by others, and indexed by touches on a screen that was
drawn earlier. One malformed document ends a callback in the middle. Lookups
and web requests answer in any order, or never. The process may end between any
two steps, losing what the worker had not run. In Firestore, a stream may end
with writes under way whose fate is unknown, timers and tokens asked for by a
stream come back after it was closed, the user changes while both are waiting,
and two streams report the same documents in no common order.

## The modules

| module | what it is |
|---|---|
| `SavedStops` | the home page's saved stops, the Firestore client and the TfL service around it |
| `MCSavedStops` | its instance for TLC |
| `SavedStopsClaims` | what comments, logs and UIKit answers say of it and the code does not do |
| `ListLemmas` | what removing, inserting, moving, taking and adding an element does to a list |
| `SavedStopsProofs` | the two inductive invariants of `SavedStops` and its safety properties |
| `AddStop` | the add-line page, with its spinner and alerts |
| `MCAddStop`, `AddStopClaims` | its instance for TLC, and what its alerts claim |
| `AddStopProofs` | its safety properties, over any number of requests and `removeDuplicates` of a list of any length |
| `ArrivalTimes` | the arrival-times document of one stop, slot by slot |
| `ArrivalTimesProofs` | its inductive invariants and its safety properties |
| `AcceptedWrites` | abstract: what Firestore promises about a write |
| `WritePipeline`, `MCWritePipeline` | how Firestore sends writes; it implements `AcceptedWrites` |
| `Session`, `MCSession` | who is signed in, as the app, Auth and Firestore see it |
| `QueryListen` | how Firestore shows a collection to its listeners |
| `QueueLemmas` | what appending to a queue and taking its head does to its elements, their number, and the last of a kind |
| `WritePipelineProofs` | the inductive invariant of `WritePipeline`, its safety properties, and the refinement |
| `SessionProofs`, `QueryListenProofs` | the inductive invariants and safety properties of these two |

`SavedStops` sees Firestore from the app: one queue of calls, callbacks in the
order their causes were run. `WritePipeline`, `Session` and `QueryListen` are three
sections through Firestore itself, each with the parts of the others that it
touches reduced to a few outcomes: `QueryListen` takes a write from the queue
with an acknowledgement or a refusal (`WritePipeline` says how), `Session` keeps a
stream to its state and token, `WritePipeline` changes its user at any time
(`Session` says when).

### SavedStops and the code

A stop is the ID of its document: Firestore lists a collection in ID order, and
an ID is random, so a new stop may come anywhere in the list. `partial` holds the
stops that `addStop` wrote with null fields because TfL's answer held no train
(AL 270-271).

| variable | in the code |
|---|---|
| `docs`, `arrivals` | `saved-stops/<uid>/saved-stops/*` and `.../times/arrival-times`, in the local view of the client |
| `stopsListeners`, `timesListeners` | `addSnapshotListener` calls (HP 164, 199) that Firestore still serves |
| `stopsAwaiting`, `timesAwaiting` | those of them whose first event Firestore withholds (`raised_initial_event_` of `query_listener.cc`) |
| `fsQueue` | calls that the client has queued for its worker |
| `mainQueue` | `DispatchQueue.main` blocks and listener callbacks |
| `finalTableArray`, `timeArray` | the fields of that name; an entry of `timeArray` remembers its stop for the properties, the code's does not |
| `shown` | the rows `stopcollectionview` last counted |
| `timers`, `requests` | stops some repeating timer fetches for; `dataTask`s under way |

| action | in the code |
|---|---|
| `SavedStopsSnapshot`, `SavedStopsError` | the callback of `getSavedStops` (HP 164-189): empty both arrays; for each document listen to its times *before* the guards, and leave the whole callback at the first document without its fields, so that no reload follows |
| `TimesSnapshot`, `AppendTimes` | the callback of `getTimes` and the block it posts (HP 199-219) |
| `ReloadData` | the block at HP 185-187 and 675-678 |
| `TrainTimes`, `TimerFires`, `Answer` | `updateTubeTimes` and `getTrainTimes` (HP 223-282) |
| `AddStop` | the completion of `addStop` with `refreshData` (AL 268-278, HP 117-121) |
| `HiddenContainerViewTapped`, `MoveItemAt` | HP 661-679, 462-469, with the traps of the array subscripts and of the batch update |
| `Serve...`, `RemoteSave`, `RemoteDelete`, `WatchError` | Firestore's worker and its watch stream, as far as the app sees them |
| `FirstStopsEvent`, `FirstTimesEvent` | the first events withheld before, once the backend has confirmed an empty view or the client is offline |
| `Relaunch` | the process ends and `SceneDelegate.scene` opens a new home page |

Abstractions, and why they are sound. The content of an arrival-times document
is one value of `Reading`; the slots inside it are in `ArrivalTimes`, so a
write may produce any content here. `reloadData` takes effect at once. A drag is
taken at the drop, with the rows the screen has then. The signed-in user is
fixed. The backend may refuse the list's query; that it never refuses a listen
on a stop's times is assumed, and without that a
stop could keep old times. That some timer
fetches for a stop is kept; how many is not, though every snapshot starts one
more (HP 242), since they only repeat each other's requests. No model value has
a train without `timeToStation`, at which the sort would trap (`ArrivalTimes` has it).

When the worker serves `addSnapshotListener`, the callback is posted at once
if the view holds a document. If it is empty and from the cache,
`ShouldRaiseInitialEvent` (`query_listener.cc` 127-152) raises nothing until the
backend makes the target current or the client takes itself to be offline;
a change of the view raises it too. `ServeListenStops` and `ServeListenTimes`
have both outcomes for an empty view, since what the backend has confirmed
is in `QueryListen` and not here; but listeners of one query share its
view, so a new one never gets its first event while another's is withheld.

### AddStop and the code

A naptanID is written as the station it belongs to. `lookups`,
`platformRequests` and `stopRequests` are the calls of `getNaptanIDFromName`,
`getDirections` and `getLineData` under way, the first two in the order they were
made (two may be the same); an answer posts the block of its completion on `mainQueue`, and a
failed one posts nothing. `RemoveDuplicates` is `removeDuplicates` (EE 415-427) by what it computes, the
values at the first places of each, in order; `LoopAssumption` of `MCAddStop` has TLC compare
it with the loop as it is written, for every list of up to five values of four. `AddStop` is the method up to its request: spinner,
three checks, the title of the selected button (`titleLabel!.text!`, a trap
when the last answer left it nil), the user (AL 261), the request. `signedIn` is
whether `Auth.auth().currentUser` is there; `UserSignedOut` is Auth's answer to an invalid
token, which `Session` models. The page shows the spinner (AL 233) before it looks for the user, and
returns without taking it down: such a tap, and one whose request fails, is kept in
`stranded`, a history variable. `StopFound` is the block of `getLineData` with the completion:
sort (a trap if one of two trains has no time, AL 300), write, refresh, take the spinner down, pop.
`NaptanFound` traps where the document of a station has no naptanID (`as!`, AL 405). `Attach` and `Detach` are the blocks
of `showSpinner` and `removeSpinner`, which act on the global at different
times. An alert takes every touch and a spinner those on its page, but not the
navigation bar's Back. An alert is taken to come up over several turns of the run
loop, so that the blocks posted with it have run when it is dismissed. One page
object is modelled, alive after it is popped as long as a completion holds it.

### ArrivalTimes and the code

One stop's document: `doc` maps slot *n* to the fields `"n"` and `"n destination"`.
`timers` counts the repeating timers, one more for each snapshot of the list (HP
242); `requests` are the `dataTask`s under way, `first` if `updateTubeTimes` made
the request itself, since only that completion unwraps the time of every train it prints.
`Answered` is the completion on URLSession's thread with any answer, which posts
the block `TrainTimes` (HP 274-279, 231-254): the sort (in any order among equal
times: `Array.sort` promises none), the direction filter, the `setData` of each
matching train, or a trap at a train without `timeToStation`. `Serve` is Firestore's
worker. `DeleteTimes` is HP 670; the timers run on after it. `base` and `done` are
history, only to state what the slots hold. A destination is abstracted to the answer it is in.

### WritePipeline and the code

One action is one operation of the worker queue with every call it makes.

| variable | in the code |
|---|---|
| `mutations` | the mutation queue of each user on disk (`leveldb_mutation_queue.cc`) |
| `user`, `nextBatchId` | `current_user_`; `next_batch_id_` of that user's queue |
| `callbacks`, `waiters` | `mutation_callbacks_`, `pending_writes_callbacks_` of `sync_engine.cc` |
| `networkEnabled`, `pipeline`, `stream` | `is_network_enabled_`, `write_pipeline_`, `write_stream_` of `remote_store.cc`; `stream` is a record of `state_`, `handshake_complete_`, whether the idle timer is set, and how many token requests were overtaken by a `Close` |
| `toServer`, `toClient`, `status` | the gRPC call of the stream |
| `assertFailed` | one of the `HARD_ASSERT`s the actions evaluate has failed; `Next` stops there |
| `log`, `outcome` | what the backend committed; what each write was told |

`FillWritePipeline(p, q, s, w)` is the function of that name with
`AddToWritePipeline` and `StartWriteStream`, applied to the pipeline, queue,
stream and messages a handler has left so far. `CloseStream` is `Stream::Close`
with an error, `OnWriteStreamClose`, `HandleHandshakeError` and
`HandleWriteError` in turn. `StreamFinishes` may take place while responses are
unread: `FastFinishCompletionsBlocking` turns reads that had completed into
no-ops when another operation of the call has failed, so a commit may go unheard.

`AcceptedWrites` is what an app may rely on: a write accepted waits in its user's
queue over restarts, changes of user and of network; the backend commits the
queue's writes in order, some more than once; the head leaves when acknowledged, after a
commit, or rejected. The refinement mapping takes `pending` to the writes of
`mutations` and the other two variables to themselves. `Reject` does not say that
the write was *not* committed: if its acknowledgement was lost, the
backend commits or refuses it anew, and the client believes the second answer.

### Session and the code

`authUser`, `workQueue` and `fetching` are Auth's `_currentUser`, the token
requests on its work queue and those that wait for the backend. `mainQueue`
holds the provider's notification (`NotifyBlock`), its `get_token_callback`
(`TokenBlock`) and the completion of `createUser` (`SignedUpBlock`). `worker` is
Firestore's queue: `HandleCredentialChange`, `TokenArrives`, `WriteMutations`.
A token request carries two counters, `token_counter` (is the user still
the one it was asked for?) and `close_count_` (is the stream?). `FetchAnswered` has the three
outcomes of a fetch, of which the last, `signOutIfTokenIsInvalid`, signs the user
out. `SignUpTapped` is `Login.login`, tapped once, or twice before the block that shows
the spinner has run; then one of the two calls finds the address taken, and no tap
follows until the answer has taken the spinner down.
`AddStopTapped` reads the uid (AL 261) and `StopAnswered` writes it to the path
later. Signing out has no other source: `LogOut` (HP 307) is called by nothing.

### QueryListen and the code

`log` is the backend: the write at index *v* has version *v*. `queue`, `cache`,
`remoteKeys` and `snapshot` are on disk: the mutation queue, the remote document
cache, the target's matching keys and its snapshot version. `view` is a
`core::View` (documents, local ones, `current_`, whether it is synced, limbo
documents); `waiting` says that some listener has not had its first event. `online`,
`timer` and `failed` are `OnlineStateTracker`. `acks` holds responses of the write
stream not yet read, `toClient` those of the watch stream, the messages that make up
one snapshot taken as one; `target`, `sent` and `asked` are what the backend knows of
the target and of limbo targets on this stream.

`EmitNewSnapshots` is `EmitNewSnapshotsAndNotifyLocalStore` with
`View::ComputeDocumentChanges` (`Applies`), `ApplyChanges`, the listeners'
events and `UpdateTrackedLimboDocuments`; every handler that calls it in the
code does so in its action. `RaiseWatchSnapshot` is also `LocalStore::ApplyRemoteEvent`
with its test for outdated documents.

Assumed of the backend: it handles nothing of a call that is over; it never ends
a stream with OK; a watch snapshot tells every document that differs
from what the client was told, and nothing of one that came and went since; a deleted document is told with the
snapshot's version; all limbo documents asked for are answered in the next snapshot.
The resume token and the last snapshot version are one: when
`ShouldPersistTargetData` skips a save, a later process resumes from an older
point and is told the same documents again. A rejected later write of a
document may stay shown until watch sends the document (`ShouldWaitForSyncedDocument`).

## The runs

| run | shows |
|---|---|
| `rows` | two stops, a restart, touches, remote changes and withheld first events between callbacks; the screen converges once nothing changes the list |
| `times` | one stop, answers of two trains, a timer, two contents of the times, a withheld first event |
| `add_stop` | two lines and stations, overtaking and failed answers, a sign-out, two taps on Add Station |
| `arrival_times` | two requests, every answer of up to three trains, a deletion or restart |
| `write_pipeline` | two users, four writes, one refused, a failure, two changes of user, network or process |
| `session` | two accounts, an invalid token, two failures, a restart |
| `query_listen` | two writes, here or elsewhere, and two faults |
| `drag_never_traps`, `new_times_shown`, `count_shown`, `added_station_on_line`, `added_direction_is_platform` | counterexamples; see below |

**Properties of SavedStops.** `TypeOK`. `NoDuplicateRows` and `RowsAreComplete`
hold in every state. `SettledRows`: once no snapshot, nor a call that causes one,
is under way, the rows are exactly the saved stops that no malformed document
precedes. `ViewUpdated`: the screen differs from the data source only while
a reload, or a callback that leads to one, is under way or owed as a first event; this holds although a
snapshot that is cut short posts no reload, because `getTimes` is called before
the guards and reloads too, if late. `EveryRowHasTimes`: when nothing is under way
`timeArray` contains the latest times of each row's stop, except where the client still withholds a
first event, and such a stop has no times; where there is none `timeArray` is at least as long as the rows.
`TrapsOnlyInFlight`: a touch can trap only while a callback is
under way or owed, or after the query failed. `DeletedStopIsTapped`: while no reload is
under way or owed, the stop deleted is the one whose row leaves the screen. So for up to ten seconds
after a stop is added a drag can trap with nothing queued, and after a snapshot cut short
a tap can delete another stop than the one tapped: the exceptions are the code's, not the model's.
`ViewConverges` (liveness): eventually the screen always shows what is saved.

**Properties of AddStop.** `OneDirection`; `TitlesOfOneAnswer` (the two buttons
never mix two stations' platforms, nor show one twice); `CompleteStopsAreServed`
(a stop saved with its fields is one TfL has trains at, however stale the form);
`CoveredOnlyWhileAwaiting` (once its blocks have run, each spinner on the page is that of a tap
whose answer is awaited, or that had no user, or whose request failed: a form that is refused leaves none).

**Properties of ArrivalTimes.** `SlotsWithoutGap`: the row reads slots 0, 1, 2,
and none is filled before the ones under it, whichever calls a crash lost and
whichever a deletion came between. `SlotsOfLastAnswers`: once all calls have
run, slot *n* is the *n*th train of the last answer that had so many, ranked by a
definition that does not sort; a shorter answer therefore leaves trains of a longer, older one
below its own, and an answer that was overtaken wins over a newer one.

**Properties of WritePipeline.** `AssertionsHold`: none of the `HARD_ASSERT`s the actions evaluate
(the states a stream must be in, a batch that must be there) can fail. That the write stream is not
closed "gracefully while still needed" (`remote_store.cc` 456) is not among them: it speaks of an end
with status OK, which the backend is assumed never to send. `PipelineIsFront`: with the network enabled the pipeline is the
front of the stored queue and as much of it as fits. `ResponsesMatchPipeline`:
responses carry no ID, yet those not read and the writes not answered are
always the pipeline in its order. `CallbacksPending`: a callback waits only for
a batch that is stored, though IDs are given again after a restart.
`WaitersSettled` (action property): `waitForPendingWrites` calls back when, and not
before, every write made before it has been answered. `AcceptedWritesSpec`: the refinement.
`QueueDrains` (liveness): every queue empties unless its user leaves or the
network is disabled.

**Properties of Session.** `SentAsAuthor`: a stream that is open carries the
token of the user whose queue it sends. `OneTokenAwaited`: a starting stream has exactly
one token on its way, through three queues and any number of retries, and no other
stream has one; so `ResumeStartWithCredentials` never asserts and no stream
waits for ever. `ProfileIsOwn`: the document of a new user goes into that user's
queue, since Auth posts its notification before the completion of `createUser`.
`StopsListened`: though no page listens before a sign-up and the sign-up page starts
no listener, a user on the home page who has saved a stop is listened for.
`UserFollows` and `WritesSent` (liveness): Firestore's user
comes to be Auth's; what a user wrote is sent unless the user signs out. A stop whose
uid was read before a sign-out is written into the queue of whoever Firestore
knows then, which these properties allow.

**Properties of QueryListen.** `ViewIsLocal`: a view changed by every piece of
news is what a new one would be. `SyncedIsServer`: what is not said to be
from the cache is what the backend had. `NeverOlder` (action property): no
document goes back to an older version, whichever of an acknowledgement and a
snapshot comes first. `FirstEvent` (liveness): no listener waits for ever, even
if the backend is never reached. `ViewConverges` (liveness): if the stream stays
up, the view comes to be synced and to show the backend's documents. The last and
`SyncedIsServer` leave out one case, which the code does not handle: a
document written here, acknowledged, and deleted by another client before watch
sends it is taken by `ShouldBeInLimbo` for one with a pending write
(`view.cc` 344) and stays in a view that says it is synced, until a new process.
`AssertionsHold`: of the online state's and the snapshot version's `HARD_ASSERT`s.

**Counterexamples.** Each run checks one claim of the repository's text and TLC
finds the code breaking it: `canMoveItemAt` answers true although the drop traps
while times are missing (HP 459-464); "updating times" appends the new times
behind the old ones (HP 214-215, and the comment at HP 10); the count of "saved
stops" is not what is shown after a malformed document (HP 171-180); "A station
is needed" passes with a station of another line (AL 242-243, 492); "Pick a
direction" passes with the placeholder (AL 247-254).

**Bounds.** `Doc` has two stops where rows interact (order, the loop cut short, a
second listener's callbacks) and one where contents do. `MaxBacklog` bounds only
what comes from outside (a touch, an answer, a timer, a remote change, a first event may come
when at most that many blocks and calls wait; one in `rows`, three in `times`): handlers are never held back, and
chains they cause run to any length. With one that waits there are still touches between a snapshot
and its reload, between the two blocks of `getTimes`, and before a delete is run. `MaxRequests` forgets further requests, which may go
unanswered anyway. `MaxTicks` bounds the growth of `timeArray`, which gains an
entry for every change and listener until the next snapshot. One restart
(`MaxLaunches`) starts from any state the first process can leave. Two
taps (`MaxTaps`) are the fewest that can mix up spinners. `MaxTrains = 2` gives
both buttons a title, one, none, or a duplicate. Each of the two lines has trains at one station, one in
two directions and one in a single one, so that an answer may leave the second title of another
station behind if it were not cleared. `MaxAsked = 1`: a row is picked
when no lookup or platform request is under way, and the answers still come after the user has moved on;
`MaxUnread = 0`: an answer comes when the block of the one before has run. The theorems need neither bound.
Readings and platforms are interchangeable values: the symmetry is sound, and no liveness run uses it.
Deadlock is not checked: with every stop ID used and the queues empty, the system rests.

Of Firestore: four writes are one more than the pipeline of the run, so that one
waits behind it (`kMaxPendingWrites` is 10 in the code, a constant here); two
changes are the fewest to leave a user and come back, or to restart after a change;
`Refused = {2}` puts a refusal in the middle of a pipeline. Two accounts let one
user's token meet another's stream; two faults let a sign-out be followed by a failure.
Three trains fill the three slots a row reads, and two answers can overtake
each other. In `query_listen` one document has both an acknowledgement and a
snapshot under way; documents meet only in whether the view is empty and whether any is in
limbo. Listeners are not counted: any number come at any time. Two faults let a broken stream be followed by a reset,
which is how a document gets into limbo and its question is lost.

**Fairness.** `rows`: the run loop drains the main queue and Firestore's worker its own, so
`WF(MainStep)` and `WF(WorkerStep)`; and a first event is withheld for ten seconds at most,
`WF(FirstEvent)`, which is the property `FirstEvent` of `query_listen`. The user, TfL, timers and other devices get none.
`write_pipeline` and `session`: the queues run what is enqueued
(`async_queue.cc`: an operation enqueued is run after those before it) and timers that are set
fire; that tokens and calls are answered is an assumption on the environment, and
the number of times they fail is bounded (`MaxFaults`, `MaxChanges`). `query_listen`:
one `WF` of the worker, the timer and the backend together. It says less than one for each;
it is enough because each of the three ends by itself. No fairness is put on `WatchStreamOpens`,
so that `FirstEvent` covers a backend that is never reached.
The app's calls, other clients, faults and restarts get none.

## What is proved

Every invariant and every action property that a passing run checks, and the refinement of
`AcceptedWrites`, is a theorem of the specification for all values of the
constants: any finite set of stops and any stations, platforms, users,
documents and values, and any bound. The theorems assume the `ASSUME`s of the component's
module and nothing else. Each rests on an inductive invariant, one lemma per
action for the step, and lemmas on queues and lists from `QueueLemmas` and
`ListLemmas`; TLC checked the inductive invariants on the runs' instances first.

### SavedStopsProofs

`TypeCorrect`, `RowsDistinct` and `RowsComplete` follow from `InductiveInvariant`:
`Spec => []IInv`. `TypeOK` is not inductive alone:
a block or call that waits must name stops that have been used (else a delivered snapshot
could put an unknown stop in a row, and a queued write could add one to `docs`
outside `used`), and `RowsAreComplete` needs rows to be used stops, since an ID
becomes `partial` at the moment it is first used. `IInv` therefore adds that
the snapshots and the writes of stops that wait name only used stops
(`KnownBlocks`, `KnownCalls`) and that rows do. Drags and deletions rest on
`MoveKeepsRows` and `RemoveKeepsRows` of `ListLemmas`, snapshots on the facts
that `Ascending` lists every member of a set once.

The other properties speak of a page at rest. The page is right then because,
until then, the queues hold what will put it right; `PageInvariant`:
`Spec => [](IInv /\ PageInv)` says so, in five parts. A first event that is withheld is one of the things
that will put it right.

- `AwaitInv`: a listener whose first event is withheld is one whose view is empty.
- `NewsInv`: of the callbacks of the list that wait, the last brings the collection as it is.
- `RowsInv`: with none waiting and no listener to come, the rows are the collection's, except that a
  deleted row is gone at once while its deletion waits for the worker.
- `ScreenInv`: the screen differs from the rows only with a reload, or what leads to one, under way or owed.
- `TimesInv`: each row's stop will be listened to, or is, and its latest times are in `timeArray`, under way or owed.

`RowsSettle`, `ScreenFollows` and `TimesArrive` are this invariant with empty
queues. `NoIdleTrap` follows because the traps are subscripts beyond `timeArray`
and a screen drawn for other rows; that `timeArray` is no shorter than the rows is
a count (`TimesInv` and `NoDuplicateRows` map the rows into its entries, one
to one). `TappedIsDeleted` is `ScreenInv` at the touch.

### ArrivalTimesProofs

`TypeCorrect` and `NoGap`: `SlotsWithoutGap` is not inductive, since a call to fill slot 2 that waits in the
worker's queue would break it unless slot 1 is filled by then. `IInv` adds
`CallsInTurn`: a waiting call that fills slot *n* > 0 follows directly the one that fills
*n* - 1, or is first in the queue with *n* - 1 in the document. Calls are appended an answer at
a time, numbered from 0 (`MergesProperties`), are run from the front, and a deletion comes between
answers, not inside one. `timers <= snapshots` bounds the timers for `TypeOK`.

`SlotsOfAnswers`: `SlotsOfLastAnswers` speaks of the moment when no call waits.
`SlotsDecided` says of any moment what will then be so: the last waiting
call that touches a slot, or the document where none does, gives the slot the
content that the answers handled so far ask for. An answer appends one call for each of its trains and
so decides the slots below its length and leaves the others (`TrainTimesDecides`); serving a call
changes no decision (`ServeDecides`). That the listing has at each place a train
whose number of earlier trains is that place (`ListingRank`) is what relates the sort, in any order among
equal times, to the ranks of the property.

### AddStopProofs

`TypeCorrect`, and from `FormInv`: `DirectionsExclusive`, `TitlesAgree`, `SavedStopsServed`. To the
properties themselves it adds `SoundBlocks`: an answer that waits in the main queue
brings platforms of one line at one station, or the fields of a train that runs there.
`TitlesAgree` needs that the first two values of a list without duplicates
differ and that such a list has the same elements; `RemoveDuplicates` is
defined by the first places of the values, not by a fold, so that both are provable.

`CoveredAwaiting` has an invariant of its own, `CoverInv`. While the page is open every
spinner on it, or about to come, awaits an answer or is of a stranded tap, unless it is the last one shown
and its removal waits; an alert is up until that has run, which keeps the user
from another tap; and no block that shows or removes a spinner follows a removal.

### WritePipelineProofs

One invariant, `IInv`, of two parts, gives `TypeCorrect`, `NoAssertionFails`, `FrontIsSent`,
`ResponsesMatch`, `CallbacksArePending` and `WaitersAreSettled`.

- `StoreInv`, what is stored and who waits for it: each queue ascends by ID and by
  write; the next ID is above those of the user's queue; a callback
  and a waiter name a batch that is stored. That no more IDs were given than writes
  made (`NextIdIsNew`) is needed for the largest stored ID to exist however many users there are.
- `LinkInv`, the pipeline and the stream: the pipeline is as much of the
  stored queue as fits, or empty with the network disabled (`PipelineFits`); what
  was sent and is not answered, responses first, is the pipeline's writes in order, or a handshake, or
  nothing, by the state of the stream (`InStep`); the backend answers what it has committed (`AnswersCommitted`).

`FillWritePipeline` is used by most handlers: its lemmas say of any pipeline, queue, stream and messages that are
in step, except that the pipeline may lack batches, that it leaves them in step with the pipeline full.
`Refinement` is `Spec => AcceptedWritesSpec`: on `IInv` the initial states map to initial states and each action
maps to one of `Accept`, `Commit`, `Acknowledge`, `Reject`, or to a stutter. `Without` removes a batch
from a queue by its ID, as `RemoveMutationBatch` does; that this is its head is part of the proof.

### SessionProofs

`TypeCorrect`; `Bounds` adds that no request under way has a counter of the future. Then

- `NewsInv`: news of the user comes in order. The last news on the main queue is Auth's
  user; the news of a sign-up comes before its completion; a token that the
  provider will accept, on either queue, is of the user that is known where
  it arrives (`MainInOrder`, `WorkerInOrder`, `FetchesInOrder`). From it `TokenIsAuthors` and `ProfileInOwnQueue`.
- `StopsInv`: stops are of accounts, and the user who has any is listened for. From it `StopsAreListenedTo`.
- `CountInv`: `OneToken` counts the requests of a stream in four places, asked for, fetched, returned
  and arriving; each step moves one from a place to the next (`AnswersCounted`), and a new close count has none, by `Bounds`.

`NewsInv` was not inductive at first. With three users, a second tap on Sign Up could still create an
account of its own after the first had succeeded, and then a profile went into the queue of
the wrong user; the call is for the same address and cannot. The model now says
so, and `OneSignUp` keeps it.

### QueryListenProofs

`TypeCorrect`, and five parts on top of one another:

- `WatchInv`: the tracker of the online state (`TrackerInv`); and the messages of the watch stream, each of
  which begins where the one before ended, from the snapshot the client has to what the backend has sent
  (`ChainInv`). From it `NoAssertionFails`.
- `AckInv` and `CacheInv`: acknowledgements are of the first writes of the queue, at the version they
  have in the backend's log; the cache has the backend's value at its version. From them `CacheNeverOlder`.
- `KeysInv`: the target's keys are those the backend had at the snapshot, and none is older in the cache.
- `ShownInv`: each document is shown as it is locally, or stays as written here until watch sends it.
- `ViewInv`: a synced view is current and has nothing in limbo, and a current one has in limbo exactly what it should.

`ViewShowsLocal` is `ShownInv` with `ViewInv`; `SyncedShowsServer` needs them all. One lemma on
`EmitNewSnapshots` serves every handler that calls it: a view to which the documents of some news are applied
shows what is local if the news names every document that has changed.

### Model-checked only

Liveness, which is beyond the prover: `ViewConverges` of both modules, `QueueDrains`, `UserFollows`,
`WritesSent`, `FirstEvent`. That `RemoveDuplicates` equals the loop (an induction over
data). The five counterexamples, which are of one instance each.

## Plan

Done: the modules above, and the proofs of what they check. Left, in this order:

1. `SavedList`, the abstract list (a set of stops and a page that is right whenever the app
   is at rest), implemented by `SavedStops`; the refinement follows from `PageInvariant`.
2. An abstract session (one user, and writes that go out as that user's) for `Session`, from `NewsInv`;
   an abstract collection for `QueryListen`, from `ListenInv`.
3. `TubeStatus`: the array assigned on a background thread; `LineNames`: the
   tables and their agreement.
4. Existence filters in `QueryListen`, and the spinner of two pages.

## Not modelled

Layout, colours beyond the tables, empty templates of tests, sources nothing
refers to. `LogOut`, which nothing calls. Of Firestore: transactions, field transforms, queries with
filters or limits, the removal of listeners (the app asks for none of these);
existence filters, by which the backend asks for a reset (a reset is modelled, its cause is not);
garbage collection of the cache; the encoding of what is stored and sent. Of Auth:
every way to sign in but `createUser`, and the keychain.

The other pods, some 640,000 lines of BoringSSL, gRPC, abseil, leveldb, nanopb and Firebase's
services, are libraries under those parts. They have no state an app of this
kind can see but through Firestore and Auth, so they appear here only as what
a call, a token or a file can do (fail, answer, keep what was written). The modules stand for
the app's own logic and the few thousand lines of the pods that carry it, which is a
small share of the repository's lines.

------------------------------ MODULE Session ------------------------------
(***************************************************************************)
(* Who is signed in, as the sign-up page (Login.swift), Firebase Auth      *)
(* (FIRAuth.m), Firestore's credentials provider                           *)
(* (firebase_credentials_provider_apple.mm) and the Firestore client       *)
(* (firestore_client.cc, sync_engine.cc, stream.cc) each see it.           *)
(*                                                                         *)
(* Three serial queues carry the news.  Auth changes its user on its       *)
(* global work queue and tells the others by blocks on the main queue; the *)
(* provider's blocks there enqueue operations on Firestore's worker queue. *)
(* A call of Firestore carries the token that was current when its stream  *)
(* asked, the writes it sends are those of the user Firestore knows, and   *)
(* the app names the user that Auth has: three moments, between which the  *)
(* user may change.                                                        *)
(*                                                                         *)
(* Left out: what a write says besides whose document it is; streams but   *)
(* for their token (WritePipeline); a signed-in user's token refreshed in  *)
(* the background, which has the effect of one refreshed for a request;    *)
(* LogOut of HomePage.swift, which nothing calls.                          *)
(***************************************************************************)
EXTENDS Naturals, Sequences, FiniteSets, SequencesExt

CONSTANTS
    User,           \* uids that sign-ups may create
    Nobody,         \* no user is signed in
    MaxTaps,        \* bound: stops added
    MaxFetches,     \* bound: tokens that must be fetched from the backend
    MaxFaults,      \* bound: failures of sign-ups, tokens and calls
    MaxLaunches     \* bound: further processes

ASSUME SessionAssumption == Nobody \notin User
ASSUME SessionBounds ==
    MaxTaps \in Nat /\ MaxFetches \in Nat /\ MaxFaults \in Nat /\ MaxLaunches \in Nat

Uid == User \cup {Nobody}

VARIABLES
    \* Firebase Auth
    authUser,       \* _currentUser
    accounts,       \* accounts that exist
    workQueue,      \* token requests on FIRAuthGlobalWorkQueue
    fetching,       \* token requests that wait for the backend
    \* the provider
    tokenCounter,   \* token_counter
    \* queues
    mainQueue,      \* blocks of the main queue
    worker,         \* operations of Firestore's worker queue
    \* the Firestore client
    user,           \* current_user_
    queue,          \* the writes that wait, of each user
    stream,         \* state_ of the write stream
    closeCount,     \* close_count_
    callUser,       \* whose token the open call carries
    assertFailed,   \* a HARD_ASSERT has failed
    \* the app
    page,           \* "login" or "home"
    signingUp,      \* createUser calls under way that may succeed
    adding,         \* uids that addStop has read, whose answer is awaited
    saved,          \* users with a saved stop
    listening,      \* users whose stops the home page listens to
    taps, fetches, faults, launches

auth      == <<authUser, accounts, workQueue, fetching>>
firestore == <<user, queue, stream, closeCount, callUser, assertFailed>>
app       == <<page, signingUp, adding, saved, listening, taps>>
counters  == <<fetches, faults, launches>>
vars      == <<auth, tokenCounter, mainQueue, worker, firestore, app, counters>>

\* a GetToken of a stream: the counters when it was made
Request == [counter : Nat, close : Nat]

Block ==
    [kind : {"notify"}, user : Uid]
    \cup [kind : {"token"}, request : Request, user : Uid, ok : BOOLEAN]
    \cup [kind : {"signedUp"}]

Written == [doc : {"profile", "stop"}, owner : User]

Operation ==
    [kind : {"user"}, user : Uid]
    \cup [kind : {"token"}, close : Nat, user : Uid, ok : BOOLEAN]
    \cup [kind : {"write"}, write : Written]

Notify(u)       == [kind |-> "notify", user |-> u]
Token(r, u, ok) == [kind |-> "token", request |-> r, user |-> u, ok |-> ok]
Write(doc, u)   == [kind |-> "write", write |-> [doc |-> doc, owner |-> u]]

Failing == faults < MaxFaults /\ faults' = faults + 1

Init ==
    /\ authUser = Nobody /\ accounts = {} /\ workQueue = <<>> /\ fetching = {}
    /\ tokenCounter = 0
    /\ mainQueue = <<>> /\ worker = <<>>
    /\ user = Nobody
    /\ queue = [u \in Uid |-> {}]
    /\ stream = "initial" /\ closeCount = 0 /\ callUser = Nobody
    /\ assertFailed = FALSE
    /\ page = "login" /\ signingUp = 0 /\ adding = {} /\ saved = {} /\ listening = {}
    /\ taps = 0 /\ fetches = 0 /\ faults = 0 /\ launches = 0

-----------------------------------------------------------------------------
(* Firebase Auth, on its work queue.                                       *)

\* updateCurrentUser posts its notification, then the sign-in's completion
Posts_Bug(u) == <<[kind |-> "signedUp"], Notify(u)>>
Posts(u)     == <<Notify(u), [kind |-> "signedUp"]>>

\* createUser: a new account becomes the current user.  A second call for the
\* same address then finds it taken, which changes nothing here.
SignUpSucceeds ==
    /\ signingUp > 0
    /\ signingUp' = 0
    /\ \E u \in User \ accounts :
        /\ accounts' = accounts \cup {u}
        /\ authUser' = u
        /\ mainQueue' = mainQueue \o Posts(u)
    /\ UNCHANGED <<workQueue, fetching, tokenCounter, worker, firestore, page, adding,
                   saved, listening, taps, counters>>

\* the password is weak, the address is another's, the network is down
SignUpFails ==
    /\ signingUp > 0
    /\ signingUp' = signingUp - 1
    /\ Failing
    /\ UNCHANGED <<auth, tokenCounter, mainQueue, worker, firestore, page, adding, saved,
                   listening, taps, fetches, launches>>

\* getTokenForcingRefresh: no user, a token that is still valid, or a fetch
GetTokenRuns ==
    /\ workQueue # <<>>
    /\ workQueue' = Tail(workQueue)
    /\ \/ /\ mainQueue' = Append(mainQueue, Token(Head(workQueue), authUser, TRUE))
          /\ UNCHANGED <<fetching, fetches>>
       \/ /\ authUser # Nobody
          /\ fetches < MaxFetches
          /\ fetches' = fetches + 1
          /\ fetching' = fetching \cup {[request |-> Head(workQueue), user |-> authUser]}
          /\ UNCHANGED mainQueue
    /\ UNCHANGED <<authUser, accounts, tokenCounter, worker, firestore, app, faults,
                   launches>>

\* the notification that u is now the user, if the answer is for the current one
News_Bug(f, u) == <<>>
News(f, u)     == IF f.user = authUser THEN <<Notify(u)>> ELSE <<>>

\* A token fetched is news of the user, if it is still the current one; a
\* token that has become invalid signs its user out.
FetchAnswered ==
    \E f \in fetching :
        /\ fetching' = fetching \ {f}
        /\ \/ /\ mainQueue' =
                    mainQueue \o News(f, authUser) \o <<Token(f.request, f.user, TRUE)>>
              /\ UNCHANGED <<authUser, faults>>
           \/ /\ Failing
              /\ mainQueue' = Append(mainQueue, Token(f.request, f.user, FALSE))
              /\ UNCHANGED authUser
           \/ /\ Failing
              /\ mainQueue' =
                    mainQueue \o News(f, Nobody) \o <<Token(f.request, f.user, FALSE)>>
              /\ authUser' = IF f.user = authUser THEN Nobody ELSE authUser
        /\ UNCHANGED <<accounts, workQueue, tokenCounter, worker, firestore, app, fetches,
                       launches>>

-----------------------------------------------------------------------------
(* Blocks of the main queue.                                               *)

Running(kind) ==
    /\ mainQueue # <<>>
    /\ Head(mainQueue).kind = kind
    /\ mainQueue' = Tail(mainQueue)

\* the provider's observer, and FirestoreClient's credential_change_listener
NotifyBlock ==
    /\ Running("notify")
    /\ tokenCounter' = tokenCounter + 1
    /\ worker' = Append(worker, [kind |-> "user", user |-> Head(mainQueue).user])
    /\ UNCHANGED <<auth, firestore, app, counters>>

\* GetToken, called again with the same completion
Again_Bug(r) == r
Again(r)     == [r EXCEPT !.counter = tokenCounter]

\* get_token_callback asks again if the user changed since the request
TokenBlock ==
    /\ Running("token")
    /\ LET b == Head(mainQueue) IN
       IF b.request.counter # tokenCounter
       THEN /\ workQueue' = Append(workQueue, Again(b.request))
            /\ UNCHANGED worker
       ELSE /\ worker' = Append(worker, [kind |-> "token", close |-> b.request.close,
                                         user |-> b.user, ok |-> b.ok])
            /\ UNCHANGED workQueue
    /\ UNCHANGED <<authUser, accounts, fetching, tokenCounter, firestore, app, counters>>

\* the completion of createUser in Login: the page stays if nobody is signed in
SignedUpBlock ==
    /\ Running("signedUp")
    /\ IF authUser = Nobody THEN UNCHANGED <<worker, page>>
       ELSE /\ worker' = Append(worker, Write("profile", authUser))
            /\ page' = "home"
    /\ UNCHANGED <<auth, tokenCounter, firestore, signingUp, adding, saved, listening,
                   taps, counters>>

-----------------------------------------------------------------------------
(* The user.                                                               *)

\* Login.login, tapped once or, before the spinner covers the button, twice;
\* the spinner goes with the answer
SignUpTapped ==
    /\ page = "login"
    /\ signingUp = 0 /\ [kind |-> "signedUp"] \notin ToSet(mainQueue)
    /\ signingUp' \in 1 .. 2
    /\ UNCHANGED <<auth, tokenCounter, mainQueue, worker, firestore, page, adding, saved,
                   listening, taps, counters>>

\* addStop reads the uid
AddStopTapped ==
    /\ page = "home"
    /\ taps < MaxTaps
    /\ authUser # Nobody
    /\ taps' = taps + 1
    /\ adding' = adding \cup {authUser}
    /\ UNCHANGED <<auth, tokenCounter, mainQueue, worker, firestore, page, signingUp,
                   saved, listening, counters>>

\* getSavedStops, called by refreshData
Refreshed_Bug == listening
Refreshed_Nil == listening \cup {authUser}
Refreshed     == listening \cup ({authUser} \ {Nobody})

\* its completion writes the stop of the uid read then, and refreshes
StopAnswered ==
    \E u \in adding :
        /\ adding' = adding \ {u}
        /\ saved' = saved \cup {u}
        /\ worker' = Append(worker, Write("stop", u))
        /\ listening' = Refreshed
        /\ UNCHANGED <<auth, tokenCounter, mainQueue, firestore, page, signingUp, taps,
                       counters>>

-----------------------------------------------------------------------------
(* Operations of Firestore's worker queue.                                 *)

\* ShouldStartWriteStream, Stream::Start and RequestCredentials: a stream in
\* state s that writes w need asks for a token, with the counters of now, or
\* backs off first after an error
StartIfNeeded(w, s, closes) ==
    CASE w # {} /\ s = "initial" ->
            /\ stream' = "starting"
            /\ workQueue' = Append(workQueue, [counter |-> tokenCounter, close |-> closes])
      [] w # {} /\ s = "error" -> stream' = "backoff" /\ UNCHANGED workQueue
      [] OTHER -> stream' = s /\ UNCHANGED workQueue

IsStarted == stream \in {"starting", "open", "backoff"}

Operating(kind) ==
    /\ worker # <<>>
    /\ Head(worker).kind = kind
    /\ worker' = Tail(worker)

\* SyncEngine::WriteMutations, in the queue of the user Firestore knows
WriteMutations ==
    /\ Operating("write")
    /\ queue' = [queue EXCEPT ![user] = @ \cup {Head(worker).write}]
    /\ StartIfNeeded(queue'[user], stream, closeCount)
    /\ UNCHANGED <<authUser, accounts, fetching, tokenCounter, mainQueue, user, closeCount,
                   callUser, assertFailed, app, counters>>

\* HandleCredentialChange, for a new user or another token: the streams stop
\* and start again for the queue of the user
Restarts_Bug(u) == u # Nobody
Restarts(u)     == u \in Uid

HandleCredentialChange ==
    /\ Operating("user")
    /\ LET u == Head(worker).user
           stopped == IF IsStarted THEN closeCount + 1 ELSE closeCount
       IN  /\ user' = u
           /\ IF Restarts(u)
              THEN /\ closeCount' = stopped
                   /\ callUser' = Nobody
                   /\ StartIfNeeded(queue[u], "initial", stopped)
              ELSE UNCHANGED <<stream, workQueue, closeCount, callUser>>
    /\ UNCHANGED <<authUser, accounts, fetching, tokenCounter, mainQueue, queue,
                   assertFailed, app, counters>>

\* close_count_ compared with its value at the time of the request
IsCurrent_Bug(close) == close \in Nat
IsCurrent(close)     == close = closeCount

\* ResumeStartWithCredentials
TokenArrives ==
    /\ Operating("token")
    /\ LET t == Head(worker) IN
       IF ~IsCurrent(t.close)
       THEN UNCHANGED <<stream, closeCount, callUser, assertFailed>>
       ELSE /\ assertFailed' = (stream # "starting")
            /\ IF t.ok
               THEN stream' = "open" /\ callUser' = t.user /\ UNCHANGED closeCount
               ELSE stream' = "backoff" /\ closeCount' = closeCount + 1 /\ UNCHANGED callUser
    /\ UNCHANGED <<auth, tokenCounter, mainQueue, user, queue, app, counters>>

BackoffElapsed ==
    /\ stream = "backoff"
    /\ StartIfNeeded(queue[user], "initial", closeCount)
    /\ UNCHANGED <<authUser, accounts, fetching, tokenCounter, mainQueue, worker, user,
                   queue, closeCount, callUser, assertFailed, app, counters>>

\* a write is answered; an error of the call is retried, with a new token
WriteAnswered ==
    /\ stream = "open"
    /\ \E w \in queue[user] : queue' = [queue EXCEPT ![user] = @ \ {w}]
    /\ UNCHANGED <<auth, tokenCounter, mainQueue, worker, user, stream, closeCount, callUser,
                   assertFailed, app, counters>>

CallFails ==
    /\ stream = "open"
    /\ Failing
    /\ stream' = IF queue[user] # {} THEN "backoff" ELSE "error"
    /\ closeCount' = closeCount + 1
    /\ callUser' = Nobody
    /\ UNCHANGED <<auth, tokenCounter, mainQueue, worker, user, queue, assertFailed, app,
                   fetches, launches>>

-----------------------------------------------------------------------------

\* the process ends and another one is launched: Auth loads its user and says
\* so, the page is the one of viewDidLoad, the client that of Initialize
Relaunch ==
    /\ launches < MaxLaunches
    /\ launches' = launches + 1
    /\ page' = (IF authUser = Nobody THEN "login" ELSE "home")
    /\ listening' = {authUser} \ {Nobody}
    /\ mainQueue' = IF authUser = Nobody THEN <<>> ELSE <<Notify(authUser)>>
    /\ user' = authUser
    /\ IF queue[authUser] # {}
       THEN stream' = "starting" /\ workQueue' = <<[counter |-> 0, close |-> 0]>>
       ELSE stream' = "initial" /\ workQueue' = <<>>
    /\ fetching' = {} /\ worker' = <<>>
    /\ tokenCounter' = 0 /\ closeCount' = 0 /\ callUser' = Nobody
    /\ signingUp' = 0 /\ adding' = {}
    /\ UNCHANGED <<authUser, accounts, queue, assertFailed, saved, taps, fetches, faults>>

WorkStep == GetTokenRuns \/ FetchAnswered

MainStep == NotifyBlock \/ TokenBlock \/ SignedUpBlock

WorkerStep ==
    WriteMutations \/ HandleCredentialChange \/ TokenArrives \/ BackoffElapsed

Next ==
    /\ ~assertFailed
    /\ \/ SignUpTapped \/ AddStopTapped \/ StopAnswered
       \/ SignUpSucceeds \/ SignUpFails
       \/ WorkStep \/ MainStep \/ WorkerStep
       \/ WriteAnswered \/ CallFails
       \/ Relaunch

Spec == Init /\ [][Next]_vars

-----------------------------------------------------------------------------

\* Type invariant: users, requests for tokens, blocks and operations keep their types.
TypeOK ==
    /\ authUser \in Uid /\ accounts \subseteq User
    /\ workQueue \in Seq(Request)
    /\ fetching \subseteq [request : Request, user : User]
    /\ tokenCounter \in Nat
    /\ mainQueue \in Seq(Block)
    /\ worker \in Seq(Operation)
    /\ user \in Uid
    /\ queue \in [Uid -> SUBSET Written]
    /\ stream \in {"initial", "starting", "open", "error", "backoff"}
    /\ closeCount \in Nat
    /\ callUser \in Uid
    /\ assertFailed \in BOOLEAN
    /\ page \in {"login", "home"}
    /\ signingUp \in 0 .. 2
    /\ adding \subseteq User /\ saved \subseteq User /\ listening \subseteq User
    /\ taps \in 0 .. MaxTaps /\ fetches \in 0 .. MaxFetches
    /\ faults \in 0 .. MaxFaults /\ launches \in 0 .. MaxLaunches

\* A call that sends the writes of a user's queue carries that user's token,
\* whatever becomes of the user between the request of the token and its
\* answer.
SentAsAuthor == stream = "open" => callUser = user

\* While a stream is starting exactly one token is on its way to it, through
\* whichever queues and however often it is asked for again; no other stream
\* of the process awaits one.  It neither starts twice nor waits for ever.
AnswersFor(close) ==
    LET In(q, T(_)) == Cardinality({i \in DOMAIN q : T(q[i])})
    IN  In(workQueue, LAMBDA r : r.close = close)
        + Cardinality({f \in fetching : f.request.close = close})
        + In(mainQueue, LAMBDA b : b.kind = "token" /\ b.request.close = close)
        + In(worker, LAMBDA o : o.kind = "token" /\ o.close = close)

OneTokenAwaited ==
    /\ ~assertFailed
    /\ AnswersFor(closeCount) = IF stream = "starting" THEN 1 ELSE 0

\* The document of a new user waits in that user's own queue: Firestore has
\* heard of the user before the sign-up page writes.
ProfileIsOwn ==
    \A u \in Uid : \A w \in queue[u] : w.doc = "profile" => w.owner = u

\* No page listens before a sign-up (viewDidLoad), and the sign-up page starts
\* no listener: still the home page listens to the stops of the user as soon
\* as there is one.
StopsListened == page = "home" /\ authUser \in saved => authUser \in listening

\* The queues are run, timers fire and the backend answers.
FairSpec ==
    /\ Spec
    /\ WF_vars(~assertFailed /\ MainStep)
    /\ WF_vars(~assertFailed /\ WorkStep)
    /\ WF_vars(~assertFailed /\ WorkerStep)
    /\ WF_vars(~assertFailed /\ WriteAnswered)

\* Firestore follows Auth.
UserFollows == []<>(user = authUser)

\* What a user wrote is sent while that user stays signed in.
WritesSent ==
    \A u \in User :
        user = u /\ queue[u] # {} ~> queue[u] = {} \/ authUser # u

=============================================================================

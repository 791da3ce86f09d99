--------------------------- MODULE SessionProofs ---------------------------
(***************************************************************************)
(* What holds of Session for any users and every bound: however many       *)
(* accounts, tokens, failures and launches.                                *)
(***************************************************************************)
EXTENDS Session, QueueLemmas, FiniteSetTheorems, TLAPS

USE SessionAssumption, SessionBounds

-----------------------------------------------------------------------------
(* Types.                                                                  *)

LEMMA InitType == Init => TypeOK
<1> SUFFICES ASSUME Init
             PROVE  TypeOK
  OBVIOUS
<1>1. \A T : <<>> \in Seq(T)
  OBVIOUS
<1>2. queue \in [Uid -> SUBSET Written]
  BY DEF Init
<1>3. workQueue \in Seq(Request) /\ mainQueue \in Seq(Block) /\ worker \in Seq(Operation)
  BY <1>1 DEF Init
<1>4. 0 \in 0 .. 2 /\ \A n \in Nat : 0 \in 0 .. n
  OBVIOUS
<1> QED BY <1>2, <1>3, <1>4 DEF Init, TypeOK, Uid

LEMMA ElementTypes ==
    /\ \A u \in Uid : Notify(u) \in Block /\ [kind |-> "user", user |-> u] \in Operation
    /\ [kind |-> "signedUp"] \in Block
    /\ \A r \in Request, u \in Uid, ok \in BOOLEAN : Token(r, u, ok) \in Block
    /\ \A c \in Nat, u \in Uid, ok \in BOOLEAN :
          [kind |-> "token", close |-> c, user |-> u, ok |-> ok] \in Operation
    /\ \A d \in {"profile", "stop"}, u \in User : Write(d, u) \in Operation
BY DEF Block, Operation, Written, Notify, Token, Write

LEMMA ElementFields ==
    /\ \A b \in Block :
        /\ b.kind \in {"notify", "token", "signedUp"}
        /\ b.kind = "notify" => b.user \in Uid
        /\ b.kind = "token" => b.request \in Request /\ b.user \in Uid /\ b.ok \in BOOLEAN
    /\ \A o \in Operation :
        /\ o.kind \in {"user", "token", "write"}
        /\ o.kind = "user" => o.user \in Uid
        /\ o.kind = "token" => o.close \in Nat /\ o.user \in Uid /\ o.ok \in BOOLEAN
        /\ o.kind = "write" => o.write \in Written
BY DEF Block, Operation

\* A stream starts or not, and only asks for a token then.
LEMMA StartType ==
    ASSUME NEW w, NEW s \in {"initial", "starting", "open", "error", "backoff"},
           NEW closes \in Nat, tokenCounter \in Nat, workQueue \in Seq(Request),
           StartIfNeeded(w, s, closes)
    PROVE  /\ stream' \in {"initial", "starting", "open", "error", "backoff"}
           /\ workQueue' \in Seq(Request)
<1>1. CASE w # {} /\ s = "initial"
  <2>1. [counter |-> tokenCounter, close |-> closes] \in Request
    BY DEF Request
  <2>2. Append(workQueue, [counter |-> tokenCounter, close |-> closes]) \in Seq(Request)
    BY <2>1, AppendProperties
  <2>3. /\ stream' = "starting"
        /\ workQueue' = Append(workQueue, [counter |-> tokenCounter, close |-> closes])
    BY <1>1 DEF StartIfNeeded
  <2> QED BY <2>2, <2>3
<1>2. CASE w # {} /\ s = "error"
  BY <1>2 DEF StartIfNeeded
<1>3. CASE ~(w # {} /\ s = "initial") /\ ~(w # {} /\ s = "error")
  BY <1>3 DEF StartIfNeeded
<1> QED BY <1>1, <1>2, <1>3

LEMMA NextType == TypeOK /\ [Next]_vars => TypeOK'
<1> SUFFICES ASSUME TypeOK, [Next]_vars
             PROVE  TypeOK'
  OBVIOUS
<1>1. CASE SignUpTapped
  BY <1>1 DEF SignUpTapped, TypeOK, auth, firestore, counters
<1>2. CASE AddStopTapped
  BY <1>2 DEF AddStopTapped, TypeOK, auth, firestore, counters, Uid
<1>3. CASE StopAnswered
  <2>1. PICK u \in adding :
          /\ adding' = adding \ {u} /\ saved' = saved \cup {u}
          /\ worker' = Append(worker, Write("stop", u))
          /\ listening' = listening \cup ({authUser} \ {Nobody})
          /\ UNCHANGED <<auth, tokenCounter, mainQueue, firestore, page, signingUp, taps,
                         counters>>
    BY <1>3 DEF StopAnswered, Refreshed
  <2>2. u \in User /\ worker' \in Seq(Operation)
    BY <2>1, ElementTypes, AppendProperties DEF TypeOK
  <2> QED BY <2>1, <2>2 DEF TypeOK, auth, firestore, counters, Uid
<1>4. CASE SignUpSucceeds
  <2>1. PICK u \in User : /\ accounts' = accounts \cup {u} /\ authUser' = u
                          /\ mainQueue' = mainQueue \o Posts(u)
    BY <1>4 DEF SignUpSucceeds
  <2>2. Posts(u) \in Seq(Block)
    <3>1. Notify(u) \in Block /\ [kind |-> "signedUp"] \in Block
      BY ElementTypes DEF Uid
    <3> QED BY <3>1 DEF Posts
  <2>3. mainQueue' \in Seq(Block)
    BY <2>1, <2>2, ConcatProperties DEF TypeOK
  <2>4. authUser' \in Uid /\ accounts' \subseteq User
    BY <2>1 DEF TypeOK, Uid
  <2>5. signingUp' \in 0 .. 2
    BY <1>4 DEF SignUpSucceeds
  <2> QED BY <1>4, <2>3, <2>4, <2>5 DEF SignUpSucceeds, TypeOK, firestore, counters
<1>5. CASE SignUpFails
  BY <1>5 DEF SignUpFails, Failing, TypeOK, auth, firestore
<1>6. CASE GetTokenRuns
  <2>1. workQueue' \in Seq(Request) /\ Head(workQueue) \in Request
    BY <1>6, HeadTailProperties DEF GetTokenRuns, TypeOK
  <2>2. Append(mainQueue, Token(Head(workQueue), authUser, TRUE)) \in Seq(Block)
    BY <2>1, ElementTypes, AppendProperties DEF TypeOK
  <2> DEFINE f == [request |-> Head(workQueue), user |-> authUser]
  <2>3. \/ /\ mainQueue' = Append(mainQueue, Token(Head(workQueue), authUser, TRUE))
           /\ UNCHANGED <<fetching, fetches>>
        \/ /\ authUser # Nobody /\ fetches < MaxFetches /\ fetches' = fetches + 1
           /\ fetching' = fetching \cup {f}
           /\ UNCHANGED mainQueue
    BY <1>6 DEF GetTokenRuns
  <2>4. /\ mainQueue \in Seq(Block) /\ fetches \in 0 .. MaxFetches /\ MaxFetches \in Nat
        /\ fetching \subseteq [request : Request, user : User]
        /\ authUser # Nobody => f \in [request : Request, user : User]
    BY <2>1 DEF TypeOK, Uid
  <2>5. fetches' \in 0 .. MaxFetches
    <3>1. fetches' = fetches \/ (fetches < MaxFetches /\ fetches' = fetches + 1)
      BY <2>3
    <3> QED BY <2>4, <3>1
  <2>6. mainQueue' \in Seq(Block) /\ fetching' \subseteq [request : Request, user : User]
    <3> HIDE DEF f
    <3> QED BY <2>2, <2>3, <2>4
  <2> QED BY <1>6, <2>1, <2>5, <2>6 DEF GetTokenRuns, TypeOK, firestore, app
<1>7. CASE FetchAnswered
  <2>1. PICK f \in fetching :
          /\ fetching' = fetching \ {f}
          /\ \/ /\ mainQueue' =
                    mainQueue \o News(f, authUser) \o <<Token(f.request, f.user, TRUE)>>
                /\ UNCHANGED <<authUser, faults>>
             \/ /\ Failing
                /\ mainQueue' = Append(mainQueue, Token(f.request, f.user, FALSE))
                /\ UNCHANGED authUser
             \/ /\ Failing
                /\ mainQueue' =
                    mainQueue \o News(f, Nobody) \o <<Token(f.request, f.user, FALSE)>>
                /\ authUser' = IF f.user = authUser THEN Nobody ELSE authUser
          /\ UNCHANGED <<accounts, workQueue, tokenCounter, worker, firestore, app, fetches,
                         launches>>
    BY <1>7 DEF FetchAnswered
  <2>2. f.request \in Request /\ f.user \in User /\ mainQueue \in Seq(Block)
    BY DEF TypeOK
  <2>3. \A u \in Uid, ok \in BOOLEAN :
          mainQueue \o News(f, u) \o <<Token(f.request, f.user, ok)>> \in Seq(Block)
    <3> SUFFICES ASSUME NEW u \in Uid, NEW ok \in BOOLEAN
                 PROVE  mainQueue \o News(f, u) \o <<Token(f.request, f.user, ok)>>
                          \in Seq(Block)
      OBVIOUS
    <3>1. Token(f.request, f.user, ok) \in Block /\ Notify(u) \in Block
      BY <2>2, ElementTypes DEF Uid
    <3>2. News(f, u) \in Seq(Block) /\ <<Token(f.request, f.user, ok)>> \in Seq(Block)
      BY <3>1 DEF News
    <3>3. mainQueue \o News(f, u) \in Seq(Block)
      BY <2>2, <3>2, ConcatProperties
    <3> QED BY <3>2, <3>3, ConcatProperties
  <2>4. Append(mainQueue, Token(f.request, f.user, FALSE)) \in Seq(Block)
    BY <2>2, ElementTypes, AppendProperties DEF Uid
  <2>5. authUser' \in Uid /\ faults' \in 0 .. MaxFaults
    <3>1. authUser \in Uid /\ Nobody \in Uid /\ faults \in 0 .. MaxFaults
      BY DEF TypeOK, Uid
    <3>2. Failing => faults' \in 0 .. MaxFaults
      BY <3>1 DEF Failing
    <3> QED BY <2>1, <3>1, <3>2
  <2>6. mainQueue' \in Seq(Block)
    <3>1. authUser \in Uid /\ Nobody \in Uid
      BY DEF TypeOK, Uid
    <3> QED BY <2>1, <2>3, <2>4, <3>1
  <2> QED BY <2>1, <2>5, <2>6 DEF TypeOK, firestore, app
<1>8. CASE NotifyBlock
  <2>1. mainQueue' \in Seq(Block) /\ Head(mainQueue) \in Block
    BY <1>8, HeadTailProperties DEF NotifyBlock, Running, TypeOK
  <2>2. [kind |-> "user", user |-> Head(mainQueue).user] \in Operation
    BY <1>8, <2>1, ElementFields, ElementTypes DEF NotifyBlock, Running
  <2>3. worker' \in Seq(Operation)
    BY <1>8, <2>2, AppendProperties DEF NotifyBlock, TypeOK
  <2> QED BY <1>8, <2>1, <2>3 DEF NotifyBlock, TypeOK, auth, firestore, app, counters
<1>9. CASE TokenBlock
  <2> DEFINE b == Head(mainQueue)
             o == [kind |-> "token", close |-> b.request.close, user |-> b.user, ok |-> b.ok]
  <2>1. mainQueue' \in Seq(Block) /\ b \in Block /\ b.kind = "token"
    BY <1>9, HeadTailProperties DEF TokenBlock, Running, TypeOK
  <2>2. b.request \in Request /\ b.user \in Uid /\ b.ok \in BOOLEAN
    BY <2>1, ElementFields
  <2>3. o \in Operation /\ Again(b.request) \in Request
    BY <2>2, ElementTypes DEF Request, Again, TypeOK
  <2>4. Append(workQueue, Again(b.request)) \in Seq(Request)
        /\ Append(worker, o) \in Seq(Operation)
    BY <2>3, AppendProperties DEF TypeOK
  <2>5. workQueue' \in Seq(Request) /\ worker' \in Seq(Operation)
    BY <1>9, <2>4 DEF TokenBlock, TypeOK
  <2> QED BY <1>9, <2>1, <2>5 DEF TokenBlock, TypeOK, firestore, app, counters
<1>10. CASE SignedUpBlock
  <2>1. mainQueue' \in Seq(Block)
    BY <1>10, HeadTailProperties DEF SignedUpBlock, Running, TypeOK
  <2>2. worker' \in Seq(Operation) /\ page' \in {"login", "home"}
    <3>1. authUser # Nobody => Append(worker, Write("profile", authUser)) \in Seq(Operation)
      BY ElementTypes, AppendProperties DEF TypeOK, Uid
    <3> QED BY <1>10, <3>1 DEF SignedUpBlock, TypeOK
  <2> QED BY <1>10, <2>1, <2>2 DEF SignedUpBlock, TypeOK, auth, firestore, counters
<1>11. CASE WriteMutations
  <2> DEFINE o == Head(worker)
  <2>1. worker' \in Seq(Operation) /\ o \in Operation /\ o.kind = "write"
    BY <1>11, HeadTailProperties DEF WriteMutations, Operating, TypeOK
  <2>2. o.write \in Written
    BY <2>1, ElementFields
  <2>3. queue' \in [Uid -> SUBSET Written]
    BY <1>11, <2>2 DEF WriteMutations, TypeOK
  <2>4. StartIfNeeded(queue'[user], stream, closeCount)
    BY <1>11 DEF WriteMutations
  <2>5. stream' \in {"initial", "starting", "open", "error", "backoff"}
        /\ workQueue' \in Seq(Request)
    BY <2>4, StartType DEF TypeOK
  <2> QED BY <1>11, <2>1, <2>3, <2>5 DEF WriteMutations, TypeOK, app, counters
<1>12. CASE HandleCredentialChange
  <2> DEFINE u == Head(worker).user
             stopped == IF IsStarted THEN closeCount + 1 ELSE closeCount
  <2>1. worker' \in Seq(Operation) /\ u \in Uid
    BY <1>12, HeadTailProperties, ElementFields
       DEF HandleCredentialChange, Operating, TypeOK
  <2>2. /\ user' = u /\ closeCount' = stopped /\ callUser' = Nobody
        /\ StartIfNeeded(queue[u], "initial", stopped)
    BY <1>12, <2>1 DEF HandleCredentialChange, Restarts
  <2>3. stopped \in Nat
    BY DEF TypeOK
  <2>4. stream' \in {"initial", "starting", "open", "error", "backoff"}
        /\ workQueue' \in Seq(Request)
    <3> HIDE DEF u, stopped
    <3> QED BY <2>2, <2>3, StartType DEF TypeOK
  <2> HIDE DEF u, stopped
  <2> QED BY <1>12, <2>1, <2>2, <2>3, <2>4
         DEF HandleCredentialChange, TypeOK, Uid, app, counters
<1>13. CASE TokenArrives
  <2>1. worker' \in Seq(Operation) /\ Head(worker).user \in Uid
    BY <1>13, HeadTailProperties, ElementFields DEF TokenArrives, Operating, TypeOK
  <2>2. /\ stream' \in {stream, "open", "backoff"} /\ closeCount' \in {closeCount, closeCount + 1}
        /\ callUser' \in {callUser, Head(worker).user}
        /\ assertFailed' \in BOOLEAN
    BY <1>13 DEF TokenArrives, TypeOK
  <2>3. UNCHANGED <<auth, tokenCounter, mainQueue, user, queue, app, counters>>
        /\ UNCHANGED workQueue
    BY <1>13 DEF TokenArrives, auth
  <2>4. /\ stream' \in {"initial", "starting", "open", "error", "backoff"}
        /\ closeCount' \in Nat /\ callUser' \in Uid
    BY <2>1, <2>2 DEF TypeOK
  <2> QED BY <2>1, <2>2, <2>3, <2>4 DEF TypeOK, auth, app, counters
<1>14. CASE BackoffElapsed
  <2>1. StartIfNeeded(queue[user], "initial", closeCount)
    BY <1>14 DEF BackoffElapsed
  <2>2. stream' \in {"initial", "starting", "open", "error", "backoff"}
        /\ workQueue' \in Seq(Request)
    BY <2>1, StartType DEF TypeOK
  <2> QED BY <1>14, <2>2 DEF BackoffElapsed, TypeOK, app, counters
<1>15. CASE WriteAnswered
  BY <1>15 DEF WriteAnswered, TypeOK, auth, app, counters
<1>16. CASE CallFails
  BY <1>16 DEF CallFails, Failing, TypeOK, auth, app, Uid
<1>17. CASE Relaunch
  <2>1. authUser # Nobody => Notify(authUser) \in Block
    BY ElementTypes DEF TypeOK
  <2>2. mainQueue' \in Seq(Block)
    BY <1>17, <2>1 DEF Relaunch
  <2>3. [counter |-> 0, close |-> 0] \in Request
    BY DEF Request
  <2>4. workQueue' \in Seq(Request) /\ stream' \in {"starting", "initial"}
    <3>1. <<[counter |-> 0, close |-> 0]>> \in Seq(Request) /\ <<>> \in Seq(Request)
      BY <2>3
    <3> QED BY <1>17, <3>1 DEF Relaunch
  <2>5. worker' \in Seq(Operation)
    BY <1>17 DEF Relaunch
  <2> QED BY <1>17, <2>2, <2>4, <2>5 DEF Relaunch, TypeOK, Uid
<1>18. CASE UNCHANGED vars
  BY <1>18 DEF vars, auth, firestore, app, counters, TypeOK
<1> QED
  BY <1>1, <1>2, <1>3, <1>4, <1>5, <1>6, <1>7, <1>8, <1>9, <1>10, <1>11, <1>12, <1>13, <1>14,
     <1>15, <1>16, <1>17, <1>18 DEF Next, WorkStep, MainStep, WorkerStep

\* Users, requests for tokens, blocks and operations keep their types.
THEOREM TypeCorrect == Spec => []TypeOK
BY InitType, NextType, PTL DEF Spec

\* What StartIfNeeded does, case by case.
LEMMA StartCases ==
    ASSUME NEW w, NEW s, NEW closes, StartIfNeeded(w, s, closes)
    PROVE  \/ /\ w # {} /\ s = "initial" /\ stream' = "starting"
              /\ workQueue' =
                    Append(workQueue, [counter |-> tokenCounter, close |-> closes])
           \/ /\ ~(w # {} /\ s = "initial")
              /\ stream' = s \/ (s = "error" /\ stream' = "backoff")
              /\ workQueue' = workQueue
<1>1. CASE w # {} /\ s = "initial"
  BY <1>1 DEF StartIfNeeded
<1>2. CASE w # {} /\ s = "error"
  BY <1>2 DEF StartIfNeeded
<1>3. CASE ~(w # {} /\ s = "initial") /\ ~(w # {} /\ s = "error")
  BY <1>3 DEF StartIfNeeded
<1> QED BY <1>1, <1>2, <1>3

\* What an answer of the backend adds to the main queue: first the news of the
\* user, if the token's user is still the current one, then the token.
LEMMA AnswerCases ==
    ASSUME FetchAnswered, TypeOK
    PROVE  \E f \in fetching, ok \in BOOLEAN, u \in Uid :
              /\ fetching' = fetching \ {f}
              /\ \/ /\ mainQueue' = Append(mainQueue, Token(f.request, f.user, ok))
                    /\ authUser' = authUser
                 \/ /\ f.user = authUser /\ authUser' = u /\ u \in {authUser, Nobody}
                    /\ mainQueue' = Append(Append(mainQueue, Notify(u)),
                                           Token(f.request, f.user, ok))
              /\ UNCHANGED <<accounts, workQueue, tokenCounter, worker, firestore, app>>
<1>1. PICK f \in fetching :
        /\ fetching' = fetching \ {f}
        /\ \/ /\ mainQueue' =
                  mainQueue \o News(f, authUser) \o <<Token(f.request, f.user, TRUE)>>
              /\ UNCHANGED <<authUser, faults>>
           \/ /\ Failing
              /\ mainQueue' = Append(mainQueue, Token(f.request, f.user, FALSE))
              /\ UNCHANGED authUser
           \/ /\ Failing
              /\ mainQueue' =
                  mainQueue \o News(f, Nobody) \o <<Token(f.request, f.user, FALSE)>>
              /\ authUser' = IF f.user = authUser THEN Nobody ELSE authUser
        /\ UNCHANGED <<accounts, workQueue, tokenCounter, worker, firestore, app>>
  BY DEF FetchAnswered
<1>2. /\ f.request \in Request /\ f.user \in User /\ mainQueue \in Seq(Block)
      /\ authUser \in Uid /\ Nobody \in Uid
  BY DEF TypeOK, Uid
<1>3. \A u \in Uid, ok \in BOOLEAN :
        mainQueue \o News(f, u) \o <<Token(f.request, f.user, ok)>> =
          IF f.user = authUser
          THEN Append(Append(mainQueue, Notify(u)), Token(f.request, f.user, ok))
          ELSE Append(mainQueue, Token(f.request, f.user, ok))
  <2> SUFFICES ASSUME NEW u \in Uid, NEW ok \in BOOLEAN
               PROVE  mainQueue \o News(f, u) \o <<Token(f.request, f.user, ok)>> =
                        IF f.user = authUser
                        THEN Append(Append(mainQueue, Notify(u)),
                                    Token(f.request, f.user, ok))
                        ELSE Append(mainQueue, Token(f.request, f.user, ok))
    OBVIOUS
  <2> DEFINE n == Notify(u)
             t == Token(f.request, f.user, ok)
  <2>1. n \in Block /\ t \in Block
    BY <1>2, ElementTypes DEF Uid
  <2> HIDE DEF n, t
  <2>2. mainQueue \o <<n>> = Append(mainQueue, n) /\ mainQueue \o <<t>> = Append(mainQueue, t)
        /\ Append(mainQueue, n) \in Seq(Block) /\ mainQueue \o <<>> = mainQueue
    BY <1>2, <2>1, AppendIsConcat, AppendProperties, ConcatEmptySeq
  <2>3. Append(mainQueue, n) \o <<t>> = Append(Append(mainQueue, n), t)
    BY <2>1, <2>2, AppendIsConcat
  <2>4. News(f, u) = IF f.user = authUser THEN <<n>> ELSE <<>>
    BY DEF News, n
  <2> QED BY <2>2, <2>3, <2>4 DEF n, t
<1>4. CASE mainQueue' = mainQueue \o News(f, authUser) \o <<Token(f.request, f.user, TRUE)>>
           /\ authUser' = authUser
  <2>1. mainQueue' = IF f.user = authUser
                     THEN Append(Append(mainQueue, Notify(authUser)),
                                 Token(f.request, f.user, TRUE))
                     ELSE Append(mainQueue, Token(f.request, f.user, TRUE))
    BY <1>2, <1>3, <1>4
  <2> QED BY <1>1, <1>2, <1>4, <2>1
<1>5. CASE mainQueue' = Append(mainQueue, Token(f.request, f.user, FALSE))
           /\ authUser' = authUser
  BY <1>1, <1>2, <1>5
<1>6. CASE /\ mainQueue' = mainQueue \o News(f, Nobody) \o <<Token(f.request, f.user, FALSE)>>
           /\ authUser' = IF f.user = authUser THEN Nobody ELSE authUser
  <2>1. mainQueue' = IF f.user = authUser
                     THEN Append(Append(mainQueue, Notify(Nobody)),
                                 Token(f.request, f.user, FALSE))
                     ELSE Append(mainQueue, Token(f.request, f.user, FALSE))
    BY <1>2, <1>3, <1>6
  <2> QED BY <1>1, <1>2, <1>6, <2>1
<1> QED BY <1>1, <1>4, <1>5, <1>6

-----------------------------------------------------------------------------
(* Requests for tokens were made with counters of the past.                *)

PastRequest == {r \in Request : r.counter <= tokenCounter /\ r.close <= closeCount}

PastBlock == {b \in Block : b.kind = "token" => b.request \in PastRequest}

PastOperation == {o \in Operation : o.kind = "token" => o.close <= closeCount}

Bounds ==
    /\ workQueue \in Seq(PastRequest)
    /\ \A f \in fetching : f.request \in PastRequest
    /\ mainQueue \in Seq(PastBlock)
    /\ worker \in Seq(PastOperation)

\* The counters only grow.
LEMMA PastGrows ==
    ASSUME TypeOK, TypeOK', tokenCounter <= tokenCounter', closeCount <= closeCount'
    PROVE  /\ PastRequest \subseteq PastRequest'
           /\ Seq(PastRequest) \subseteq Seq(PastRequest')
           /\ Seq(PastBlock) \subseteq Seq(PastBlock')
           /\ Seq(PastOperation) \subseteq Seq(PastOperation')
<1>1. /\ tokenCounter \in Nat /\ closeCount \in Nat
      /\ tokenCounter' \in Nat /\ closeCount' \in Nat
  BY DEF TypeOK
<1>2. PastRequest \subseteq PastRequest'
  BY <1>1 DEF PastRequest, Request
<1>3. PastBlock \subseteq PastBlock'
  BY <1>2 DEF PastBlock
<1>4. PastOperation \subseteq PastOperation'
  BY <1>1, ElementFields DEF PastOperation
<1> QED BY <1>2, <1>3, <1>4, SeqMonotonic

\* Tokens are of the past when their requests are, and other blocks and
\* operations always.
LEMMA PastElements ==
    /\ \A u \in Uid : Notify(u) \in PastBlock /\ [kind |-> "user", user |-> u] \in PastOperation
    /\ [kind |-> "signedUp"] \in PastBlock
    /\ \A r \in PastRequest, u \in Uid, ok \in BOOLEAN : Token(r, u, ok) \in PastBlock
    /\ \A r \in PastRequest, u \in Uid, ok \in BOOLEAN :
          [kind |-> "token", close |-> r.close, user |-> u, ok |-> ok] \in PastOperation
    /\ \A d \in {"profile", "stop"}, u \in User : Write(d, u) \in PastOperation
<1>1. \A r \in PastRequest : r \in Request /\ r.close \in Nat /\ r.close <= closeCount
  BY DEF PastRequest, Request
<1>2. \A r \in PastRequest, u \in Uid, ok \in BOOLEAN : Token(r, u, ok) \in PastBlock
  BY <1>1, ElementTypes DEF PastBlock, Token
<1>3. \A r \in PastRequest, u \in Uid, ok \in BOOLEAN :
          [kind |-> "token", close |-> r.close, user |-> u, ok |-> ok] \in PastOperation
  BY <1>1, ElementTypes DEF PastOperation
<1>4. \A u \in Uid : Notify(u) \in PastBlock
                     /\ [kind |-> "user", user |-> u] \in PastOperation
  BY ElementTypes DEF PastBlock, PastOperation, Notify
<1>5. [kind |-> "signedUp"] \in PastBlock
  BY ElementTypes DEF PastBlock
<1>6. \A d \in {"profile", "stop"}, u \in User : Write(d, u) \in PastOperation
  BY ElementTypes DEF PastOperation, Write
<1> QED BY <1>2, <1>3, <1>4, <1>5, <1>6

\* The worker's operations that start a stream ask with the counters of now.
LEMMA StartBounds ==
    ASSUME TypeOK, TypeOK', workQueue \in Seq(PastRequest'), tokenCounter' = tokenCounter,
           NEW w, NEW s, StartIfNeeded(w, s, closeCount')
    PROVE  workQueue' \in Seq(PastRequest')
<1> DEFINE r == [counter |-> tokenCounter, close |-> closeCount']
<1>1. r \in PastRequest'
  BY DEF PastRequest, Request, TypeOK
<1> HIDE DEF r
<1>2. Append(workQueue, r) \in Seq(PastRequest')
  BY <1>1, AppendProperties
<1>3. workQueue' = workQueue \/ workQueue' = Append(workQueue, r)
  BY StartCases DEF r
<1> QED BY <1>2, <1>3

LEMMA InitBounds == Init => Bounds
<1>1. \A T : <<>> \in Seq(T)
  OBVIOUS
<1> QED BY <1>1 DEF Init, Bounds

LEMMA NextBounds == TypeOK /\ TypeOK' /\ Bounds /\ [Next]_vars => Bounds'
<1> SUFFICES ASSUME TypeOK, TypeOK', Bounds, [Next]_vars
             PROVE  Bounds'
  OBVIOUS
<1>0. /\ workQueue \in Seq(PastRequest) /\ \A f \in fetching : f.request \in PastRequest
      /\ mainQueue \in Seq(PastBlock) /\ worker \in Seq(PastOperation)
  BY DEF Bounds
<1>t. authUser \in Uid /\ tokenCounter \in Nat /\ closeCount \in Nat
  BY DEF TypeOK
<1>c. ASSUME tokenCounter' = tokenCounter, closeCount' = closeCount
      PROVE  /\ PastRequest' = PastRequest
             /\ PastBlock' = PastBlock
             /\ PastOperation' = PastOperation
  <2>1. PastRequest' = PastRequest /\ PastOperation' = PastOperation
    BY <1>c DEF PastRequest, PastOperation
  <2> QED BY <2>1 DEF PastBlock
<1>1. CASE \/ SignUpTapped \/ AddStopTapped \/ SignUpFails \/ WriteAnswered \/ UNCHANGED vars
  <2>1. UNCHANGED <<tokenCounter, closeCount, workQueue, fetching, mainQueue, worker>>
    BY <1>1 DEF SignUpTapped, AddStopTapped, SignUpFails, WriteAnswered, vars, auth, firestore
  <2> QED BY <1>0, <1>c, <2>1 DEF Bounds
<1>3. CASE StopAnswered
  <2>1. PICK u \in adding : worker' = Append(worker, Write("stop", u))
    BY <1>3 DEF StopAnswered
  <2>2. UNCHANGED <<tokenCounter, closeCount, workQueue, fetching, mainQueue>>
    BY <1>3 DEF StopAnswered, auth, firestore
  <2>3. worker' \in Seq(PastOperation)
    BY <1>0, <2>1, PastElements, AppendProperties DEF TypeOK
  <2> QED BY <1>0, <1>c, <2>2, <2>3 DEF Bounds
<1>4. CASE SignUpSucceeds
  <2>1. PICK u \in User : mainQueue' = mainQueue \o <<Notify(u), [kind |-> "signedUp"]>>
    BY <1>4 DEF SignUpSucceeds, Posts
  <2>2. UNCHANGED <<tokenCounter, closeCount, workQueue, fetching, worker>>
    BY <1>4 DEF SignUpSucceeds, firestore
  <2>3. mainQueue' \in Seq(PastBlock)
    <3>1. <<Notify(u), [kind |-> "signedUp"]>> \in Seq(PastBlock)
      <4>1. Notify(u) \in PastBlock /\ [kind |-> "signedUp"] \in PastBlock
        BY PastElements DEF Uid
      <4> QED BY <4>1, ShortQueues
    <3> QED BY <1>0, <2>1, <3>1, ConcatProperties
  <2> QED BY <1>0, <1>c, <2>2, <2>3 DEF Bounds
<1>6. CASE GetTokenRuns
  <2>1. workQueue' \in Seq(PastRequest) /\ Head(workQueue) \in PastRequest
    BY <1>0, <1>6, HeadTailProperties DEF GetTokenRuns
  <2>2. UNCHANGED <<tokenCounter, closeCount, worker>>
    BY <1>6 DEF GetTokenRuns, firestore
  <2>3. Append(mainQueue, Token(Head(workQueue), authUser, TRUE)) \in Seq(PastBlock)
    BY <1>0, <1>t, <2>1, PastElements, AppendProperties
  <2>4. \/ /\ mainQueue' = Append(mainQueue, Token(Head(workQueue), authUser, TRUE))
           /\ fetching' = fetching
        \/ /\ fetching' = fetching \cup {[request |-> Head(workQueue), user |-> authUser]}
           /\ mainQueue' = mainQueue
    BY <1>6 DEF GetTokenRuns
  <2>5. mainQueue' \in Seq(PastBlock)
    BY <1>0, <2>3, <2>4
  <2>6. \A f \in fetching' : f.request \in PastRequest
    <3>1. \A f \in fetching' :
            f \in fetching \/ f = [request |-> Head(workQueue), user |-> authUser]
      BY <2>4
    <3> QED BY <1>0, <2>1, <3>1
  <2> QED BY <1>0, <1>c, <2>1, <2>2, <2>5, <2>6 DEF Bounds
<1>7. CASE FetchAnswered
  <2>1. PICK f \in fetching, ok \in BOOLEAN, u \in Uid :
          /\ fetching' = fetching \ {f}
          /\ \/ mainQueue' = Append(mainQueue, Token(f.request, f.user, ok))
             \/ mainQueue' = Append(Append(mainQueue, Notify(u)),
                                    Token(f.request, f.user, ok))
          /\ UNCHANGED <<accounts, workQueue, tokenCounter, worker, firestore, app>>
    BY <1>7, AnswerCases
  <2>2. f.request \in PastRequest /\ f.user \in Uid
    BY <1>0 DEF TypeOK, Uid
  <2>3. Token(f.request, f.user, ok) \in PastBlock /\ Notify(u) \in PastBlock
    BY <2>2, PastElements
  <2>4. mainQueue' \in Seq(PastBlock)
    <3>1. Append(mainQueue, Notify(u)) \in Seq(PastBlock)
      BY <1>0, <2>3, AppendProperties
    <3>2. Append(mainQueue, Token(f.request, f.user, ok)) \in Seq(PastBlock)
      BY <1>0, <2>3, AppendProperties
    <3>3. Append(Append(mainQueue, Notify(u)), Token(f.request, f.user, ok)) \in Seq(PastBlock)
      BY <2>3, <3>1, AppendProperties
    <3> QED BY <2>1, <3>2, <3>3
  <2>5. UNCHANGED <<tokenCounter, closeCount, workQueue, worker>>
    BY <2>1 DEF firestore
  <2>6. \A g \in fetching' : g.request \in PastRequest
    BY <1>0, <2>1
  <2> QED BY <1>0, <1>c, <2>4, <2>5, <2>6 DEF Bounds
<1>8. CASE NotifyBlock
  <2>1. mainQueue' \in Seq(PastBlock) /\ Head(mainQueue) \in Block
    <3>1. \A b \in PastBlock : b \in Block
      BY DEF PastBlock
    <3> QED BY <1>0, <1>8, <3>1, HeadTailProperties DEF NotifyBlock, Running
  <2>2. [kind |-> "user", user |-> Head(mainQueue).user] \in PastOperation
    BY <1>8, <2>1, ElementFields, PastElements DEF NotifyBlock, Running
  <2>3. worker' \in Seq(PastOperation)
    BY <1>0, <1>8, <2>2, AppendProperties DEF NotifyBlock
  <2>4. UNCHANGED <<closeCount, workQueue, fetching>> /\ tokenCounter' = tokenCounter + 1
    BY <1>8 DEF NotifyBlock, auth, firestore
  <2>5. tokenCounter <= tokenCounter' /\ closeCount <= closeCount'
    BY <1>t, <2>4
  <2> QED BY <1>0, <2>1, <2>3, <2>4, <2>5, PastGrows DEF Bounds
<1>9. CASE TokenBlock
  <2> DEFINE b == Head(mainQueue)
             o == [kind |-> "token", close |-> b.request.close, user |-> b.user, ok |-> b.ok]
  <2>1. mainQueue' \in Seq(PastBlock) /\ b \in PastBlock /\ b.kind = "token"
    BY <1>0, <1>9, HeadTailProperties DEF TokenBlock, Running
  <2>2. b.request \in PastRequest /\ b.user \in Uid /\ b.ok \in BOOLEAN
    BY <2>1, ElementFields DEF PastBlock
  <2>3. o \in PastOperation /\ Again(b.request) \in PastRequest
    <3>1. Again(b.request) \in PastRequest
      BY <1>t, <2>2 DEF Again, PastRequest, Request
    <3> QED BY <2>2, <3>1, PastElements
  <2> HIDE DEF o
  <2>4. /\ Append(workQueue, Again(b.request)) \in Seq(PastRequest)
        /\ Append(worker, o) \in Seq(PastOperation)
    BY <1>0, <2>3, AppendProperties
  <2>5. workQueue' \in Seq(PastRequest) /\ worker' \in Seq(PastOperation)
    BY <1>0, <1>9, <2>4 DEF TokenBlock, o
  <2>6. UNCHANGED <<tokenCounter, closeCount, fetching>>
    BY <1>9 DEF TokenBlock, firestore
  <2> QED BY <1>0, <1>c, <2>1, <2>5, <2>6 DEF Bounds
<1>10. CASE SignedUpBlock
  <2>1. mainQueue' \in Seq(PastBlock)
    BY <1>0, <1>10, HeadTailProperties DEF SignedUpBlock, Running
  <2>2. worker' \in Seq(PastOperation)
    <3>1. authUser # Nobody => Append(worker, Write("profile", authUser)) \in Seq(PastOperation)
      BY <1>0, <1>t, PastElements, AppendProperties DEF Uid
    <3> QED BY <1>0, <1>10, <3>1 DEF SignedUpBlock
  <2>3. UNCHANGED <<tokenCounter, closeCount, workQueue, fetching>>
    BY <1>10 DEF SignedUpBlock, auth, firestore
  <2> QED BY <1>0, <1>c, <2>1, <2>2, <2>3 DEF Bounds
<1>11. CASE WriteMutations \/ HandleCredentialChange \/ TokenArrives
  <2>1. worker' \in Seq(PastOperation)
    BY <1>0, <1>11, HeadTailProperties
       DEF WriteMutations, HandleCredentialChange, TokenArrives, Operating
  <2>2. UNCHANGED <<tokenCounter, fetching, mainQueue>>
    BY <1>11 DEF WriteMutations, HandleCredentialChange, TokenArrives, auth
  <2>3. closeCount' \in {closeCount, closeCount + 1}
    <3>1. WriteMutations => closeCount' = closeCount
      BY DEF WriteMutations
    <3>2. HandleCredentialChange => closeCount' \in {closeCount, closeCount + 1}
      BY DEF HandleCredentialChange
    <3>3. TokenArrives => closeCount' \in {closeCount, closeCount + 1}
      BY DEF TokenArrives
    <3> QED BY <1>11, <3>1, <3>2, <3>3
  <2>4. tokenCounter <= tokenCounter' /\ closeCount <= closeCount'
    BY <1>t, <2>2, <2>3
  <2>5. workQueue \in Seq(PastRequest')
    BY <1>0, <2>4, PastGrows
  <2>6. workQueue' \in Seq(PastRequest')
    <3>1. CASE WriteMutations
      BY <2>2, <2>5, <3>1, StartBounds DEF WriteMutations
    <3>2. CASE HandleCredentialChange
      <4>1. workQueue' = workQueue
            \/ StartIfNeeded(queue[Head(worker).user], "initial", closeCount')
        BY <3>2 DEF HandleCredentialChange
      <4> QED BY <2>2, <2>5, <4>1, StartBounds
    <3>3. CASE TokenArrives
      BY <2>5, <3>3 DEF TokenArrives, auth
    <3> QED BY <1>11, <3>1, <3>2, <3>3
  <2> QED BY <1>0, <2>1, <2>2, <2>4, <2>6, PastGrows DEF Bounds
<1>14. CASE BackoffElapsed
  <2>1. UNCHANGED <<tokenCounter, closeCount, fetching, mainQueue, worker>>
    BY <1>14 DEF BackoffElapsed
  <2>2. workQueue \in Seq(PastRequest')
    BY <1>0, <1>c, <2>1
  <2>3. StartIfNeeded(queue[user], "initial", closeCount')
    BY <1>14 DEF BackoffElapsed
  <2>4. workQueue' \in Seq(PastRequest')
    BY <2>1, <2>2, <2>3, StartBounds
  <2> QED BY <1>0, <1>c, <2>1, <2>4 DEF Bounds
<1>16. CASE CallFails
  <2>1. /\ UNCHANGED <<tokenCounter, workQueue, fetching, mainQueue, worker>>
        /\ closeCount' = closeCount + 1
    BY <1>16 DEF CallFails, auth
  <2>2. tokenCounter <= tokenCounter' /\ closeCount <= closeCount'
    BY <1>t, <2>1
  <2> QED BY <1>0, <2>1, <2>2, PastGrows DEF Bounds
<1>17. CASE Relaunch
  <2>1. tokenCounter' = 0 /\ closeCount' = 0 /\ fetching' = {} /\ worker' = <<>>
    BY <1>17 DEF Relaunch
  <2>2. \/ mainQueue' = <<>>
        \/ mainQueue' = <<Notify(authUser)>>
    BY <1>17 DEF Relaunch
  <2>3. workQueue' = <<>> \/ workQueue' = <<[counter |-> 0, close |-> 0]>>
    BY <1>17 DEF Relaunch
  <2>4. Notify(authUser) \in PastBlock'
    <3>1. Notify(authUser) \in Block /\ Notify(authUser).kind = "notify"
      BY <1>t, ElementTypes DEF Notify
    <3> QED BY <3>1 DEF PastBlock
  <2>5. [counter |-> 0, close |-> 0] \in PastRequest'
    BY <2>1 DEF PastRequest, Request
  <2>6. mainQueue' \in Seq(PastBlock') /\ workQueue' \in Seq(PastRequest')
    <3>1. mainQueue' \in Seq(PastBlock')
      BY <2>2, <2>4, ShortQueues, EmptySeq
    <3>2. workQueue' \in Seq(PastRequest')
      BY <2>3, <2>5, ShortQueues, EmptySeq
    <3> QED BY <3>1, <3>2
  <2>7. worker' \in Seq(PastOperation')
    BY <2>1
  <2> QED BY <2>1, <2>6, <2>7 DEF Bounds
<1> QED
  BY <1>1, <1>3, <1>4, <1>6, <1>7, <1>8, <1>9, <1>10, <1>11, <1>14, <1>16, <1>17
     DEF Next, WorkStep, MainStep, WorkerStep

LEMMA BoundsHold == Spec => []Bounds
BY TypeCorrect, InitBounds, NextBounds, PTL DEF Spec

-----------------------------------------------------------------------------
(* News of the user comes in order: to the provider, through the blocks of *)
(* the main queue, and to Firestore, through the worker's operations.      *)

\* The user that Firestore knows once the first n operations of q have run,
\* if it knows u before them.
Told(q, n, u) == Latest(q, n, "user", u)

\* A token that reaches Firestore is of the user that it knows then, and so is
\* the profile that the sign-up page writes.
WorkerInOrder(q, u) ==
    \A j \in 1 .. Len(q) :
        /\ q[j].kind = "token" => q[j].user = Told(q, j - 1, u)
        /\ q[j].kind = "write" /\ q[j].write.doc = "profile" =>
                q[j].write.owner = Told(q, j - 1, u)

\* The user of the last news among the first n blocks of q.
Heard(q, n, known) == Latest(q, n, "notify", known)

Quiet(q, n) == \A k \in 1 .. n : q[k].kind # "notify"

\* Of a main queue q, where known is the user of which Firestore has been or
\* will be told: its last news is a, Auth's user; the news of a sign-up comes
\* before its completion, unless that user has gone; a token that the
\* provider will not ask for again is of the user it last announced.
MainInOrder(q, known, a, counter) ==
    /\ Heard(q, Len(q), known) = a
    /\ \A i \in 1 .. Len(q) :
        q[i].kind = "signedUp" /\ a # Nobody => Heard(q, i - 1, known) = a
    /\ \A i \in 1 .. Len(q) :
        q[i].kind = "token" /\ q[i].request.counter = counter /\ Quiet(q, i - 1) =>
            q[i].user = known

Known == Told(worker, Len(worker), user)

\* So is a token that is fetched, unless there is news.
FetchesInOrder ==
    \A f \in fetching :
        f.request.counter = tokenCounter /\ Quiet(mainQueue, Len(mainQueue)) =>
            f.user = authUser

\* While a sign-up may succeed no other one is to be completed.
OneSignUp ==
    signingUp > 0 =>
        \A i \in 1 .. Len(mainQueue) : mainQueue[i].kind # "signedUp"

NewsInv ==
    /\ WorkerInOrder(worker, user)
    /\ MainInOrder(mainQueue, Known, authUser, tokenCounter)
    /\ FetchesInOrder
    /\ OneSignUp
    /\ SentAsAuthor
    /\ ProfileIsOwn

LEMMA OperationJoins ==
    ASSUME NEW q \in Seq(Operation), NEW u, WorkerInOrder(q, u), NEW o \in Operation,
           o.kind = "token" => o.user = Told(q, Len(q), u),
           o.kind = "write" /\ o.write.doc = "profile" =>
                o.write.owner = Told(q, Len(q), u)
    PROVE  /\ WorkerInOrder(Append(q, o), u)
           /\ Told(Append(q, o), Len(Append(q, o)), u) =
                IF o.kind = "user" THEN o.user ELSE Told(q, Len(q), u)
<1> DEFINE r == Append(q, o)
<1>1. /\ r \in Seq(Operation) /\ Len(r) = Len(q) + 1 /\ r[Len(q) + 1] = o
      /\ \A i \in 1 .. Len(q) : r[i] = q[i]
  BY AppendProperties
<1>2. /\ \A n \in 0 .. Len(q) : Told(r, n, u) = Told(q, n, u)
      /\ Told(r, Len(q) + 1, u) = IF o.kind = "user" THEN o.user ELSE Told(q, Len(q), u)
  BY LatestBefore, LatestAtEnd DEF Told
<1>3. Len(q) \in Nat
  OBVIOUS
<1> HIDE DEF r
<1>4. ASSUME NEW j \in 1 .. Len(r)
      PROVE  /\ r[j].kind = "token" => r[j].user = Told(r, j - 1, u)
             /\ r[j].kind = "write" /\ r[j].write.doc = "profile" =>
                    r[j].write.owner = Told(r, j - 1, u)
  <2>1. CASE j \in 1 .. Len(q)
    <3>1. r[j] = q[j] /\ Told(r, j - 1, u) = Told(q, j - 1, u)
      BY <1>1, <1>2, <1>3, <2>1
    <3> QED BY <2>1, <3>1 DEF WorkerInOrder
  <2>2. CASE j = Len(q) + 1
    <3>1. r[j] = o /\ Told(r, j - 1, u) = Told(q, Len(q), u)
      BY <1>1, <1>2, <1>3, <2>2
    <3> QED BY <3>1
  <2> QED BY <1>1, <1>3, <2>1, <2>2
<1> QED BY <1>1, <1>2, <1>4 DEF WorkerInOrder, r

LEMMA OperationLeaves ==
    ASSUME NEW q \in Seq(Operation), NEW u, WorkerInOrder(q, u), q # <<>>,
           NEW v, v = IF Head(q).kind = "user" THEN Head(q).user ELSE u
    PROVE  /\ WorkerInOrder(Tail(q), v)
           /\ Told(Tail(q), Len(Tail(q)), v) = Told(q, Len(q), u)
           /\ Head(q).kind = "token" => Head(q).user = u
           /\ Head(q).kind = "write" /\ Head(q).write.doc = "profile" =>
                Head(q).write.owner = u
<1> DEFINE r == Tail(q)
<1>1. /\ Len(q) \in Nat \ {0} /\ Head(q) = q[1]
      /\ r \in Seq(Operation) /\ Len(r) = Len(q) - 1
      /\ \A i \in 1 .. Len(q) - 1 : r[i] = q[i + 1]
  BY TailElements
<1>2. \A n \in 1 .. Len(q) : Told(q, n, u) = Told(r, n - 1, v)
  BY LatestOfTail DEF Told
<1>3. Told(q, 0, u) = u
  <2>1. \A i \in 1 .. 0 : q[i].kind # "user"
    OBVIOUS
  <2> QED BY <2>1, LatestIsBase DEF Told
<1> HIDE DEF r
<1>4. ASSUME NEW j \in 1 .. Len(r)
      PROVE  /\ r[j].kind = "token" => r[j].user = Told(r, j - 1, v)
             /\ r[j].kind = "write" /\ r[j].write.doc = "profile" =>
                    r[j].write.owner = Told(r, j - 1, v)
  <2>1. j \in 1 .. Len(q) /\ j + 1 \in 1 .. Len(q) /\ (j + 1) - 1 = j /\ r[j] = q[j + 1]
    BY <1>1
  <2>2. Told(q, (j + 1) - 1, u) = Told(r, j - 1, v)
    BY <1>2, <2>1
  <2> QED BY <2>1, <2>2 DEF WorkerInOrder
<1>5. Told(r, Len(r), v) = Told(q, Len(q), u)
  BY <1>1, <1>2
<1>6. /\ q[1].kind = "token" => q[1].user = Told(q, 1 - 1, u)
      /\ q[1].kind = "write" /\ q[1].write.doc = "profile" =>
            q[1].write.owner = Told(q, 1 - 1, u)
  <2>1. 1 \in 1 .. Len(q)
    BY <1>1
  <2> QED BY <2>1 DEF WorkerInOrder
<1> QED BY <1>1, <1>3, <1>4, <1>5, <1>6 DEF WorkerInOrder, r

LEMMA HeardOfAppend ==
    ASSUME NEW q \in Seq(Block), NEW e \in Block, NEW known
    PROVE  /\ \A n \in 0 .. Len(q) : Heard(Append(q, e), n, known) = Heard(q, n, known)
           /\ Heard(Append(q, e), Len(q) + 1, known) =
                IF e.kind = "notify" THEN e.user ELSE Heard(q, Len(q), known)
BY LatestBefore, LatestAtEnd DEF Heard

\* Blocks join the main queue: a token, the news of a user, an answer to a
\* sign-up.
LEMMA BlockJoins ==
    ASSUME NEW q \in Seq(Block), NEW known, NEW a, NEW counter,
           MainInOrder(q, known, a, counter), NEW b \in Block, NEW c,
           c = IF b.kind = "notify" THEN b.user ELSE a,
           c = a \/ c = Nobody \/ \A i \in 1 .. Len(q) : q[i].kind # "signedUp",
           b.kind = "token" /\ b.request.counter = counter /\ Quiet(q, Len(q)) =>
                b.user = known
    PROVE  MainInOrder(Append(q, b), known, c, counter)
<1> DEFINE r == Append(q, b)
<1>1. /\ r \in Seq(Block) /\ Len(r) = Len(q) + 1 /\ r[Len(q) + 1] = b
      /\ \A i \in 1 .. Len(q) : r[i] = q[i]
  BY AppendProperties
<1>2. /\ \A n \in 0 .. Len(q) : Heard(r, n, known) = Heard(q, n, known)
      /\ Heard(r, Len(q) + 1, known) =
            IF b.kind = "notify" THEN b.user ELSE Heard(q, Len(q), known)
  BY HeardOfAppend
<1>3. Len(q) \in Nat
  OBVIOUS
<1>4. Heard(q, Len(q), known) = a
  BY DEF MainInOrder
<1> HIDE DEF r
<1>5. Heard(r, Len(r), known) = c
  BY <1>1, <1>2, <1>4
<1>6. ASSUME NEW i \in 1 .. Len(r), r[i].kind = "signedUp", c # Nobody
      PROVE  Heard(r, i - 1, known) = c
  <2>1. CASE i \in 1 .. Len(q)
    <3>1. r[i] = q[i] /\ Heard(r, i - 1, known) = Heard(q, i - 1, known)
      BY <1>1, <1>2, <1>3, <2>1
    <3>2. c = a
      BY <1>6, <2>1, <3>1
    <3> QED BY <1>6, <2>1, <3>1, <3>2 DEF MainInOrder
  <2>2. CASE i = Len(q) + 1
    <3>1. r[i] = b /\ Heard(r, i - 1, known) = Heard(q, Len(q), known)
      BY <1>1, <1>2, <1>3, <2>2
    <3> QED BY <1>4, <1>6, <3>1
  <2> QED BY <1>1, <1>3, <2>1, <2>2
<1>7. ASSUME NEW i \in 1 .. Len(r),
             r[i].kind = "token", r[i].request.counter = counter, Quiet(r, i - 1)
      PROVE  r[i].user = known
  <2>1. i - 1 \in 0 .. Len(q) /\ Quiet(q, i - 1)
    <3>1. i - 1 \in 0 .. Len(q)
      BY <1>1, <1>3
    <3>2. \A k \in 1 .. i - 1 : r[k] = q[k]
      BY <1>1, <1>3, <3>1
    <3> QED BY <1>7, <3>1, <3>2 DEF Quiet
  <2>2. CASE i \in 1 .. Len(q)
    <3>1. r[i] = q[i]
      BY <1>1, <2>2
    <3> QED BY <1>7, <2>1, <2>2, <3>1 DEF MainInOrder
  <2>3. CASE i = Len(q) + 1
    <3>1. r[i] = b /\ i - 1 = Len(q)
      BY <1>1, <1>3, <2>3
    <3> QED BY <1>7, <2>1, <3>1
  <2> QED BY <1>1, <1>3, <2>2, <2>3
<1> QED BY <1>5, <1>6, <1>7 DEF MainInOrder, r

\* The first block leaves it; news counts, and makes every token be asked for
\* again.
LEMMA BlockLeaves ==
    ASSUME NEW q \in Seq(PastBlock), NEW known, NEW a, tokenCounter \in Nat,
           MainInOrder(q, known, a, tokenCounter), q # <<>>, NEW v, NEW c,
           v = IF Head(q).kind = "notify" THEN Head(q).user ELSE known,
           c = IF Head(q).kind = "notify" THEN tokenCounter + 1 ELSE tokenCounter
    PROVE  /\ MainInOrder(Tail(q), v, a, c)
           /\ Head(q).kind = "signedUp" /\ a # Nobody => known = a
           /\ Head(q).kind = "token" /\ Head(q).request.counter = tokenCounter =>
                Head(q).user = known
<1> DEFINE r == Tail(q)
<1>1. /\ Len(q) \in Nat \ {0} /\ Head(q) = q[1]
      /\ r \in Seq(PastBlock) /\ Len(r) = Len(q) - 1
      /\ \A i \in 1 .. Len(q) - 1 : r[i] = q[i + 1]
  BY TailElements
<1>2. \A n \in 1 .. Len(q) : Heard(q, n, known) = Heard(r, n - 1, v)
  BY LatestOfTail DEF Heard
<1>3. Heard(q, 0, known) = known /\ Quiet(q, 0)
  <2>1. \A i \in 1 .. 0 : q[i].kind # "notify"
    OBVIOUS
  <2> QED BY <2>1, LatestIsBase DEF Heard, Quiet
<1> HIDE DEF r
<1>4. Heard(r, Len(r), v) = a
  <2>1. Len(q) \in 1 .. Len(q) /\ Len(q) - 1 = Len(r)
    BY <1>1
  <2> QED BY <1>2, <2>1 DEF MainInOrder
<1>5. ASSUME NEW i \in 1 .. Len(r), r[i].kind = "signedUp", a # Nobody
      PROVE  Heard(r, i - 1, v) = a
  <2>1. i \in 1 .. Len(q) /\ i + 1 \in 1 .. Len(q) /\ (i + 1) - 1 = i /\ r[i] = q[i + 1]
    BY <1>1
  <2>2. Heard(q, (i + 1) - 1, known) = Heard(r, i - 1, v)
    BY <1>2, <2>1
  <2> QED BY <1>5, <2>1, <2>2 DEF MainInOrder
<1>6. ASSUME NEW i \in 1 .. Len(r),
             r[i].kind = "token", r[i].request.counter = c, Quiet(r, i - 1)
      PROVE  r[i].user = v
  <2>1. i \in 1 .. Len(q) /\ i + 1 \in 1 .. Len(q) /\ (i + 1) - 1 = i /\ r[i] = q[i + 1]
    BY <1>1
  <2>2. r[i].request \in PastRequest
    <3>1. r[i] \in PastBlock
      BY <1>1, ElementOfSeq
    <3> QED BY <1>6, <3>1 DEF PastBlock
  <2>3. Head(q).kind # "notify" /\ c = tokenCounter /\ v = known
    BY <1>6, <2>2 DEF PastRequest, Request
  <2>4. Quiet(q, (i + 1) - 1)
    <3> SUFFICES ASSUME NEW k \in 1 .. i
                 PROVE  q[k].kind # "notify"
      BY <2>1 DEF Quiet
    <3>1. CASE k = 1
      BY <1>1, <2>3, <3>1
    <3>2. CASE k # 1
      <4>1. k - 1 \in 1 .. i - 1 /\ k - 1 \in 1 .. Len(q) - 1 /\ (k - 1) + 1 = k
        BY <1>1, <3>2
      <4> QED BY <1>1, <1>6, <4>1 DEF Quiet
    <3> QED BY <3>1, <3>2
  <2> QED BY <1>6, <2>1, <2>3, <2>4 DEF MainInOrder
<1>7. /\ q[1].kind = "signedUp" /\ a # Nobody => Heard(q, 1 - 1, known) = a
      /\ q[1].kind = "token" /\ q[1].request.counter = tokenCounter /\ Quiet(q, 1 - 1) =>
            q[1].user = known
  <2>1. 1 \in 1 .. Len(q)
    BY <1>1
  <2> QED BY <2>1 DEF MainInOrder
<1> QED BY <1>1, <1>3, <1>4, <1>5, <1>6, <1>7 DEF MainInOrder, r

LEMMA QuietOfAppend ==
    ASSUME NEW q \in Seq(Block), NEW b \in Block, Quiet(Append(q, b), Len(Append(q, b)))
    PROVE  Quiet(q, Len(q)) /\ b.kind # "notify"
<1>1. /\ Len(Append(q, b)) = Len(q) + 1 /\ Append(q, b)[Len(q) + 1] = b
      /\ \A i \in 1 .. Len(q) : Append(q, b)[i] = q[i]
      /\ Len(q) \in Nat
  BY AppendProperties
<1> QED BY <1>1 DEF Quiet

LEMMA QuietOfTail ==
    ASSUME NEW q \in Seq(Block), q # <<>>, Head(q).kind # "notify",
           Quiet(Tail(q), Len(Tail(q)))
    PROVE  Quiet(q, Len(q))
<1>1. /\ Len(q) \in Nat \ {0} /\ Head(q) = q[1] /\ Len(Tail(q)) = Len(q) - 1
      /\ \A i \in 1 .. Len(q) - 1 : Tail(q)[i] = q[i + 1]
  BY TailElements
<1> SUFFICES ASSUME NEW k \in 1 .. Len(q)
             PROVE  q[k].kind # "notify"
  BY DEF Quiet
<1>2. CASE k = 1
  BY <1>1, <1>2
<1>3. CASE k # 1
  <2>1. k - 1 \in 1 .. Len(q) - 1 /\ (k - 1) + 1 = k
    BY <1>1, <1>3
  <2> QED BY <1>1, <2>1 DEF Quiet
<1> QED BY <1>2, <1>3

\* Without news on the way, Firestore has heard of the user that Auth has.
LEMMA QuietIsKnown ==
    ASSUME NEW q, NEW known, NEW a, NEW c, MainInOrder(q, known, a, c), Quiet(q, Len(q))
    PROVE  known = a
BY LatestIsBase DEF MainInOrder, Quiet, Heard

LEMMA WorkerJoins ==
    ASSUME TypeOK, WorkerInOrder(worker, user), NEW o \in Operation,
           worker' = Append(worker, o), user' = user,
           o.kind = "token" => o.user = Known,
           o.kind = "write" /\ o.write.doc = "profile" => o.write.owner = Known
    PROVE  /\ WorkerInOrder(worker', user')
           /\ Known' = IF o.kind = "user" THEN o.user ELSE Known
<1>1. worker \in Seq(Operation)
  BY DEF TypeOK
<1> QED BY <1>1, OperationJoins DEF Known

LEMMA WorkerLeaves ==
    ASSUME TypeOK, WorkerInOrder(worker, user), worker # <<>>, worker' = Tail(worker),
           user' = IF Head(worker).kind = "user" THEN Head(worker).user ELSE user
    PROVE  /\ WorkerInOrder(worker', user')
           /\ Known' = Known
           /\ Head(worker).kind = "token" => Head(worker).user = user
           /\ Head(worker).kind = "write" /\ Head(worker).write.doc = "profile" =>
                Head(worker).write.owner = user
<1>1. worker \in Seq(Operation)
  BY DEF TypeOK
<1> QED BY <1>1, OperationLeaves DEF Known

LEMMA InitNews == Init => NewsInv
<1> SUFFICES ASSUME Init
             PROVE  NewsInv
  OBVIOUS
<1>1. worker = <<>> /\ mainQueue = <<>> /\ Len(<<>>) = 0 /\ 1 .. 0 = {}
  BY DEF Init
<1>2. Known = user /\ Heard(mainQueue, Len(mainQueue), Known) = Known
  BY <1>1, LatestIsBase DEF Known, Told, Heard
<1>3. user = Nobody /\ authUser = Nobody /\ fetching = {} /\ signingUp = 0
      /\ stream = "initial" /\ \A u \in Uid : queue[u] = {}
  BY DEF Init
<1>4. WorkerInOrder(worker, user)
  BY <1>1 DEF WorkerInOrder
<1>5. MainInOrder(mainQueue, Known, authUser, tokenCounter)
  BY <1>1, <1>2, <1>3 DEF MainInOrder
<1> QED BY <1>1, <1>3, <1>4, <1>5
        DEF NewsInv, FetchesInOrder, OneSignUp, SentAsAuthor, ProfileIsOwn

LEMMA NextNews == TypeOK /\ TypeOK' /\ Bounds /\ NewsInv /\ [Next]_vars => NewsInv'
<1> SUFFICES ASSUME TypeOK, TypeOK', Bounds, NewsInv, [Next]_vars
             PROVE  NewsInv'
  OBVIOUS
<1>0. /\ WorkerInOrder(worker, user)
      /\ MainInOrder(mainQueue, Known, authUser, tokenCounter)
      /\ FetchesInOrder /\ OneSignUp /\ SentAsAuthor /\ ProfileIsOwn
  BY DEF NewsInv
<1>t. /\ mainQueue \in Seq(Block) /\ mainQueue \in Seq(PastBlock) /\ worker \in Seq(Operation)
      /\ tokenCounter \in Nat /\ authUser \in Uid /\ user \in Uid
      /\ queue \in [Uid -> SUBSET Written] /\ signingUp \in Nat
  BY DEF TypeOK, Bounds
<1>c. ASSUME user' = user, queue' = queue, stream' = stream, callUser' = callUser
      PROVE  SentAsAuthor' /\ ProfileIsOwn'
  BY <1>0, <1>c DEF SentAsAuthor, ProfileIsOwn
<1>m. ASSUME UNCHANGED <<mainQueue, authUser, tokenCounter, fetching>>, Known' = Known
      PROVE  MainInOrder(mainQueue', Known', authUser', tokenCounter') /\ FetchesInOrder'
  BY <1>0, <1>m DEF FetchesInOrder
<1>k. ASSUME UNCHANGED <<worker, user>>
      PROVE  Known' = Known /\ WorkerInOrder(worker', user')
  BY <1>0, <1>k DEF Known
<1>l. ASSUME mainQueue # <<>>, mainQueue' = Tail(mainQueue), signingUp' = signingUp
      PROVE  OneSignUp'
  <2>1. /\ Len(mainQueue) \in Nat \ {0} /\ Len(Tail(mainQueue)) = Len(mainQueue) - 1
        /\ \A i \in 1 .. Len(mainQueue) - 1 : Tail(mainQueue)[i] = mainQueue[i + 1]
    BY <1>t, <1>l, TailElements
  <2> QED BY <1>0, <1>l, <2>1 DEF OneSignUp
<1>1. CASE SignUpTapped \/ AddStopTapped \/ SignUpFails \/ UNCHANGED vars
  <2>1. UNCHANGED <<mainQueue, authUser, tokenCounter, fetching, worker, user, queue, stream,
                    callUser>>
    BY <1>1 DEF SignUpTapped, AddStopTapped, SignUpFails, vars, auth, firestore
  <2>2. OneSignUp'
    <3>1. CASE SignUpTapped
      <4>1. ASSUME NEW i \in 1 .. Len(mainQueue), mainQueue[i].kind = "signedUp"
            PROVE  FALSE
        <5>1. mainQueue[i] \in Block /\ mainQueue[i] \in ToSet(mainQueue)
          BY <1>t DEF ToSet
        <5>2. mainQueue[i] = [kind |-> "signedUp"]
          BY <4>1, <5>1 DEF Block
        <5> QED BY <3>1, <5>1, <5>2 DEF SignUpTapped
      <4> QED BY <2>1, <4>1 DEF OneSignUp
    <3>2. CASE AddStopTapped \/ UNCHANGED vars
      BY <1>0, <2>1, <3>2 DEF OneSignUp, AddStopTapped, vars, app
    <3>3. CASE SignUpFails
      BY <1>0, <2>1, <3>3 DEF OneSignUp, SignUpFails
    <3> QED BY <1>1, <3>1, <3>2, <3>3
  <2> QED BY <1>c, <1>k, <1>m, <2>1, <2>2 DEF NewsInv
<1>2. CASE BackoffElapsed \/ WriteAnswered \/ CallFails
  <2>1. UNCHANGED <<mainQueue, authUser, tokenCounter, fetching, worker, user, signingUp>>
    BY <1>2 DEF BackoffElapsed, WriteAnswered, CallFails, auth, app
  <2>2. OneSignUp'
    BY <1>0, <2>1 DEF OneSignUp
  <2>3. SentAsAuthor'
    <3>1. CASE BackoffElapsed
      <4>1. StartIfNeeded(queue[user], "initial", closeCount)
        BY <3>1 DEF BackoffElapsed
      <4>2. \/ stream' = "starting" \/ stream' = "initial"
            \/ "initial" = "error" /\ stream' = "backoff"
        BY <4>1, StartCases
      <4> QED BY <4>2 DEF SentAsAuthor
    <3>2. CASE WriteAnswered
      BY <1>0, <2>1, <3>2 DEF WriteAnswered, SentAsAuthor
    <3>3. CASE CallFails
      BY <3>3 DEF CallFails, SentAsAuthor
    <3> QED BY <1>2, <3>1, <3>2, <3>3
  <2>4. ProfileIsOwn'
    <3>1. \A u \in Uid : queue'[u] \subseteq queue[u]
      <4>1. CASE BackoffElapsed \/ CallFails
        BY <4>1 DEF BackoffElapsed, CallFails
      <4>2. CASE WriteAnswered
        BY <1>t, <4>2 DEF WriteAnswered
      <4> QED BY <1>2, <4>1, <4>2
    <3> QED BY <1>0, <3>1 DEF ProfileIsOwn
  <2> QED BY <1>k, <1>m, <2>1, <2>2, <2>3, <2>4 DEF NewsInv
<1>3. CASE StopAnswered
  <2>1. PICK u \in adding : worker' = Append(worker, Write("stop", u))
    BY <1>3 DEF StopAnswered
  <2>2. UNCHANGED <<mainQueue, authUser, tokenCounter, fetching, user, queue, stream,
                    callUser, signingUp>>
    BY <1>3 DEF StopAnswered, auth, firestore
  <2>3. Write("stop", u) \in Operation
    BY ElementTypes DEF TypeOK
  <2>4. Known' = Known /\ WorkerInOrder(worker', user')
    <3>1. Write("stop", u).kind = "write" /\ Write("stop", u).write.doc = "stop"
      BY DEF Write
    <3> QED BY <1>0, <2>1, <2>2, <2>3, <3>1, WorkerJoins
  <2>5. OneSignUp'
    BY <1>0, <2>2 DEF OneSignUp
  <2> QED BY <1>c, <1>m, <2>2, <2>4, <2>5 DEF NewsInv
<1>4. CASE SignUpSucceeds
  <2>1. PICK u \in User : /\ authUser' = u
                          /\ mainQueue' = mainQueue \o <<Notify(u), [kind |-> "signedUp"]>>
    BY <1>4 DEF SignUpSucceeds, Posts
  <2>2. /\ UNCHANGED <<tokenCounter, fetching, worker, user, queue, stream, callUser>>
        /\ signingUp > 0 /\ signingUp' = 0
    BY <1>4 DEF SignUpSucceeds, firestore
  <2> DEFINE n == Notify(u)
             s == [kind |-> "signedUp"]
             q == Append(mainQueue, n)
  <2>3. /\ n \in Block /\ n.kind = "notify" /\ n.user = u /\ s \in Block
    BY ElementTypes DEF Uid, Notify
  <2>4. s.kind = "signedUp"
    OBVIOUS
  <2> HIDE DEF n, s
  <2>5. q \in Seq(Block)
    BY <1>t, <2>3, AppendProperties
  <2>6. mainQueue' = Append(q, s)
    BY <1>t, <2>1, <2>3, ConcatOfTwo DEF n, s
  <2>7. MainInOrder(q, Known, u, tokenCounter)
    BY <1>0, <1>t, <2>2, <2>3, BlockJoins DEF OneSignUp
  <2> HIDE DEF q
  <2>8. MainInOrder(mainQueue', Known, u, tokenCounter)
    BY <2>3, <2>4, <2>5, <2>6, <2>7, BlockJoins
  <2>9. ~Quiet(mainQueue', Len(mainQueue'))
    BY <1>t, <2>3, <2>5, <2>6, QuietOfAppend DEF q
  <2>10. FetchesInOrder'
    BY <2>9 DEF FetchesInOrder
  <2>11. OneSignUp'
    BY <2>2 DEF OneSignUp
  <2> QED BY <1>c, <1>k, <2>1, <2>2, <2>8, <2>10, <2>11 DEF NewsInv
<1>6. CASE GetTokenRuns
  <2>1. UNCHANGED <<authUser, tokenCounter, worker, user, queue, stream, callUser, signingUp>>
    BY <1>6 DEF GetTokenRuns, firestore, app
  <2> DEFINE t == Token(Head(workQueue), authUser, TRUE)
             f == [request |-> Head(workQueue), user |-> authUser]
  <2>2. t \in Block /\ t.kind = "token" /\ t.user = authUser
    <3>1. Head(workQueue) \in Request
      BY <1>6, HeadTailProperties DEF GetTokenRuns, TypeOK
    <3> QED BY <1>t, <3>1, ElementTypes DEF Token
  <2> HIDE DEF t
  <2>3. CASE mainQueue' = Append(mainQueue, t) /\ fetching' = fetching
    <3>1. MainInOrder(mainQueue', Known, authUser, tokenCounter)
      BY <1>0, <1>t, <2>2, <2>3, BlockJoins, QuietIsKnown
    <3>2. FetchesInOrder'
      BY <1>0, <1>t, <2>1, <2>2, <2>3, QuietOfAppend DEF FetchesInOrder
    <3>3. OneSignUp'
      <4>1. /\ Len(mainQueue') = Len(mainQueue) + 1 /\ mainQueue'[Len(mainQueue) + 1] = t
            /\ \A i \in 1 .. Len(mainQueue) : mainQueue'[i] = mainQueue[i]
            /\ Len(mainQueue) \in Nat
        BY <1>t, <2>2, <2>3, AppendProperties
      <4> QED BY <1>0, <2>1, <2>2, <4>1 DEF OneSignUp
    <3> QED BY <1>c, <1>k, <2>1, <3>1, <3>2, <3>3 DEF NewsInv
  <2>4. CASE fetching' = fetching \cup {f} /\ mainQueue' = mainQueue
    <3>1. FetchesInOrder'
      BY <1>0, <2>1, <2>4 DEF FetchesInOrder
    <3>2. OneSignUp'
      BY <1>0, <2>1, <2>4 DEF OneSignUp
    <3> QED BY <1>0, <1>c, <1>k, <2>1, <2>4, <3>1, <3>2 DEF NewsInv
  <2> QED BY <1>6, <2>3, <2>4 DEF GetTokenRuns, t
<1>7. CASE FetchAnswered
  <2>1. PICK f \in fetching, ok \in BOOLEAN, u \in Uid :
          /\ fetching' = fetching \ {f}
          /\ \/ /\ mainQueue' = Append(mainQueue, Token(f.request, f.user, ok))
                /\ authUser' = authUser
             \/ /\ f.user = authUser /\ authUser' = u /\ u \in {authUser, Nobody}
                /\ mainQueue' = Append(Append(mainQueue, Notify(u)),
                                       Token(f.request, f.user, ok))
          /\ UNCHANGED <<accounts, workQueue, tokenCounter, worker, firestore, app>>
    BY <1>7, AnswerCases
  <2>2. UNCHANGED <<tokenCounter, worker, user, queue, stream, callUser, signingUp>>
    BY <2>1 DEF firestore, app
  <2> DEFINE t == Token(f.request, f.user, ok)
             n == Notify(u)
             q == Append(mainQueue, n)
  <2>3. /\ t \in Block /\ t.kind = "token" /\ t.user = f.user /\ t.request = f.request
        /\ n \in Block /\ n.kind = "notify" /\ n.user = u
    <3>1. f.request \in Request /\ f.user \in Uid
      BY DEF TypeOK, Uid
    <3> QED BY <3>1, ElementTypes DEF Token, Notify
  <2> HIDE DEF t, n
  <2>4. q \in Seq(Block)
    BY <1>t, <2>3, AppendProperties
  <2>5. CASE mainQueue' = Append(mainQueue, t) /\ authUser' = authUser
    <3>1. t.request.counter = tokenCounter /\ Quiet(mainQueue, Len(mainQueue)) =>
            t.user = Known
      BY <1>0, <2>3, QuietIsKnown DEF FetchesInOrder
    <3>2. MainInOrder(mainQueue', Known, authUser, tokenCounter)
      BY <1>0, <1>t, <2>3, <2>5, <3>1, BlockJoins
    <3>3. FetchesInOrder'
      BY <1>0, <1>t, <2>1, <2>2, <2>3, <2>5, QuietOfAppend DEF FetchesInOrder
    <3>4. OneSignUp'
      <4>1. /\ Len(mainQueue') = Len(mainQueue) + 1 /\ mainQueue'[Len(mainQueue) + 1] = t
            /\ \A i \in 1 .. Len(mainQueue) : mainQueue'[i] = mainQueue[i]
            /\ Len(mainQueue) \in Nat
        BY <1>t, <2>3, <2>5, AppendProperties
      <4> QED BY <1>0, <2>2, <2>3, <4>1 DEF OneSignUp
    <3> QED BY <1>c, <1>k, <2>2, <2>5, <3>2, <3>3, <3>4 DEF NewsInv
  <2>6. CASE /\ f.user = authUser /\ authUser' = u /\ u \in {authUser, Nobody}
             /\ mainQueue' = Append(q, t)
    <3>1. MainInOrder(q, Known, u, tokenCounter)
      BY <1>0, <1>t, <2>3, <2>6, BlockJoins
    <3>2. ~Quiet(q, Len(q))
      BY <1>t, <2>3, QuietOfAppend
    <3>3. Len(q) = Len(mainQueue) + 1 /\ q[Len(mainQueue) + 1] = n
          /\ (\A i \in 1 .. Len(mainQueue) : q[i] = mainQueue[i])
          /\ Len(mainQueue) \in Nat
      BY <1>t, <2>3, AppendProperties
    <3> HIDE DEF q
    <3>4. MainInOrder(mainQueue', Known, u, tokenCounter)
      BY <2>3, <2>4, <2>6, <3>1, <3>2, BlockJoins
    <3>5. FetchesInOrder'
      BY <2>3, <2>4, <2>6, <3>2, QuietOfAppend DEF FetchesInOrder
    <3>6. OneSignUp'
      <4>1. /\ Len(mainQueue') = Len(q) + 1 /\ mainQueue'[Len(q) + 1] = t
            /\ \A i \in 1 .. Len(q) : mainQueue'[i] = q[i]
        BY <2>3, <2>4, <2>6, AppendProperties
      <4>2. signingUp > 0 => \A i \in 1 .. Len(q) : q[i].kind # "signedUp"
        BY <1>0, <2>3, <3>3 DEF OneSignUp
      <4>3. Len(q) \in Nat
        BY <3>3
      <4> QED BY <2>2, <2>3, <4>1, <4>2, <4>3 DEF OneSignUp
    <3> QED BY <1>c, <1>k, <2>2, <2>6, <3>4, <3>5, <3>6 DEF NewsInv
  <2> QED BY <2>1, <2>5, <2>6 DEF t, n
<1>8. CASE NotifyBlock
  <2> DEFINE b == Head(mainQueue)
             o == [kind |-> "user", user |-> b.user]
  <2>1. /\ mainQueue # <<>> /\ b.kind = "notify" /\ mainQueue' = Tail(mainQueue)
        /\ worker' = Append(worker, o) /\ tokenCounter' = tokenCounter + 1
        /\ UNCHANGED <<authUser, fetching, user, queue, stream, callUser, signingUp>>
    BY <1>8 DEF NotifyBlock, Running, auth, firestore, app
  <2>2. b.user \in Uid /\ o \in Operation /\ o.kind = "user" /\ o.user = b.user
    <3>1. b \in Block
      BY <1>t, <2>1, HeadTailProperties
    <3> QED BY <2>1, <3>1, ElementFields, ElementTypes
  <2> HIDE DEF o
  <2>3. Known' = b.user /\ WorkerInOrder(worker', user')
    BY <1>0, <2>1, <2>2, WorkerJoins
  <2>4. MainInOrder(mainQueue', b.user, authUser, tokenCounter + 1)
    BY <1>0, <1>t, <2>1, BlockLeaves
  <2>5. FetchesInOrder'
    <3>1. \A f \in fetching : f.request.counter \in Nat /\ f.request.counter <= tokenCounter
      BY DEF Bounds, PastRequest, Request
    <3> QED BY <1>t, <2>1, <3>1 DEF FetchesInOrder
  <2> QED BY <1>c, <1>l, <2>1, <2>3, <2>4, <2>5 DEF NewsInv
<1>9. CASE TokenBlock
  <2> DEFINE b == Head(mainQueue)
             o == [kind |-> "token", close |-> b.request.close, user |-> b.user, ok |-> b.ok]
  <2>1. /\ mainQueue # <<>> /\ b.kind = "token" /\ mainQueue' = Tail(mainQueue)
        /\ UNCHANGED <<authUser, tokenCounter, fetching, user, queue, stream, callUser,
                       signingUp>>
    BY <1>9 DEF TokenBlock, Running, firestore, app
  <2>2. \/ b.request.counter # tokenCounter /\ worker' = worker
        \/ b.request.counter = tokenCounter /\ worker' = Append(worker, o)
    BY <1>9 DEF TokenBlock
  <2>3. b.request \in Request /\ b.user \in Uid /\ b.ok \in BOOLEAN
    <3>1. b \in Block
      BY <1>t, <2>1, HeadTailProperties
    <3> QED BY <2>1, <3>1, ElementFields
  <2>4. o \in Operation /\ o.kind = "token" /\ o.user = b.user
    BY <2>3, ElementTypes DEF Request
  <2> HIDE DEF o
  <2>5. /\ MainInOrder(mainQueue', Known, authUser, tokenCounter)
        /\ b.request.counter = tokenCounter => b.user = Known
    BY <1>0, <1>t, <2>1, BlockLeaves
  <2>6. Known' = Known /\ WorkerInOrder(worker', user')
    <3>1. CASE worker' = worker
      BY <1>k, <2>1, <3>1
    <3>2. CASE b.request.counter = tokenCounter /\ worker' = Append(worker, o)
      BY <1>0, <2>1, <2>4, <2>5, <3>2, WorkerJoins
    <3> QED BY <2>2, <3>1, <3>2
  <2>7. FetchesInOrder'
    BY <1>0, <1>t, <2>1, QuietOfTail DEF FetchesInOrder
  <2> QED BY <1>c, <1>l, <2>1, <2>5, <2>6, <2>7 DEF NewsInv
<1>10. CASE SignedUpBlock
  <2> DEFINE b == Head(mainQueue)
             o == Write("profile", authUser)
  <2>1. /\ mainQueue # <<>> /\ b.kind = "signedUp" /\ mainQueue' = Tail(mainQueue)
        /\ UNCHANGED <<authUser, tokenCounter, fetching, user, queue, stream, callUser,
                       signingUp>>
    BY <1>10 DEF SignedUpBlock, Running, auth, firestore
  <2>2. \/ worker' = worker
        \/ authUser # Nobody /\ worker' = Append(worker, o)
    BY <1>10 DEF SignedUpBlock
  <2>3. authUser # Nobody =>
          /\ o \in Operation /\ o.kind = "write" /\ o.write.owner = authUser
    BY <1>t, ElementTypes DEF Uid, Write
  <2> HIDE DEF o
  <2>4. /\ MainInOrder(mainQueue', Known, authUser, tokenCounter)
        /\ authUser # Nobody => Known = authUser
    BY <1>0, <1>t, <2>1, BlockLeaves
  <2>5. Known' = Known /\ WorkerInOrder(worker', user')
    <3>1. CASE worker' = worker
      BY <1>k, <2>1, <3>1
    <3>2. CASE authUser # Nobody /\ worker' = Append(worker, o)
      BY <1>0, <2>1, <2>3, <2>4, <3>2, WorkerJoins
    <3> QED BY <2>2, <3>1, <3>2
  <2>6. FetchesInOrder'
    BY <1>0, <1>t, <2>1, QuietOfTail DEF FetchesInOrder
  <2> QED BY <1>c, <1>l, <2>1, <2>4, <2>5, <2>6 DEF NewsInv
<1>11. CASE WriteMutations
  <2>1. /\ worker # <<>> /\ Head(worker).kind = "write" /\ worker' = Tail(worker)
        /\ queue' = [queue EXCEPT ![user] = @ \cup {Head(worker).write}]
        /\ StartIfNeeded(queue'[user], stream, closeCount)
        /\ UNCHANGED <<mainQueue, authUser, tokenCounter, fetching, user, callUser, signingUp>>
    BY <1>11 DEF WriteMutations, Operating, app
  <2>2. /\ Known' = Known /\ WorkerInOrder(worker', user')
        /\ Head(worker).write.doc = "profile" => Head(worker).write.owner = user
    BY <1>0, <2>1, WorkerLeaves
  <2>3. ProfileIsOwn'
    BY <1>0, <1>t, <2>1, <2>2 DEF ProfileIsOwn
  <2>4. SentAsAuthor'
    <3>1. stream' = "open" => stream = "open"
      BY <2>1, StartCases
    <3> QED BY <1>0, <2>1, <3>1 DEF SentAsAuthor
  <2>5. OneSignUp'
    BY <1>0, <2>1 DEF OneSignUp
  <2> QED BY <1>m, <2>1, <2>2, <2>3, <2>4, <2>5 DEF NewsInv
<1>12. CASE HandleCredentialChange
  <2> DEFINE u == Head(worker).user
             stopped == IF IsStarted THEN closeCount + 1 ELSE closeCount
  <2>1. /\ worker # <<>> /\ Head(worker).kind = "user" /\ worker' = Tail(worker)
        /\ user' = u
        /\ UNCHANGED <<mainQueue, authUser, tokenCounter, fetching, queue, signingUp>>
    BY <1>12 DEF HandleCredentialChange, Operating, app
  <2>2. u \in Uid
    <3>1. Head(worker) \in Operation
      BY <1>t, <2>1, HeadTailProperties
    <3> QED BY <2>1, <3>1, ElementFields
  <2>3. StartIfNeeded(queue[u], "initial", stopped)
    BY <1>12, <2>2 DEF HandleCredentialChange, Restarts
  <2>4. Known' = Known /\ WorkerInOrder(worker', user')
    BY <1>0, <2>1, WorkerLeaves
  <2>5. stream' \in {"initial", "starting"}
    <3> HIDE DEF u, stopped
    <3> QED BY <2>3, StartCases
  <2>6. SentAsAuthor' /\ ProfileIsOwn' /\ OneSignUp'
    BY <1>0, <2>1, <2>5 DEF SentAsAuthor, ProfileIsOwn, OneSignUp
  <2> QED BY <1>m, <2>1, <2>4, <2>6 DEF NewsInv
<1>13. CASE TokenArrives
  <2>1. /\ worker # <<>> /\ Head(worker).kind = "token" /\ worker' = Tail(worker)
        /\ UNCHANGED <<mainQueue, authUser, tokenCounter, fetching, user, queue, signingUp>>
    BY <1>13 DEF TokenArrives, Operating, auth, app
  <2>2. /\ Known' = Known /\ WorkerInOrder(worker', user')
        /\ Head(worker).user = user
    BY <1>0, <2>1, WorkerLeaves
  <2>3. SentAsAuthor'
    <3>1. \/ stream' = stream /\ callUser' = callUser
          \/ stream' = "open" /\ callUser' = Head(worker).user
          \/ stream' = "backoff"
      BY <1>13 DEF TokenArrives
    <3> QED BY <1>0, <2>1, <2>2, <3>1 DEF SentAsAuthor
  <2>4. ProfileIsOwn' /\ OneSignUp'
    BY <1>0, <2>1 DEF ProfileIsOwn, OneSignUp
  <2> QED BY <1>m, <2>1, <2>2, <2>3, <2>4 DEF NewsInv
<1>14. CASE Relaunch
  <2>1. /\ worker' = <<>> /\ fetching' = {} /\ user' = authUser /\ authUser' = authUser
        /\ mainQueue' = IF authUser = Nobody THEN <<>> ELSE <<Notify(authUser)>>
        /\ stream' \in {"starting", "initial"} /\ signingUp' = 0 /\ queue' = queue
        /\ tokenCounter' = 0
    BY <1>14 DEF Relaunch
  <2>2. Known' = user' /\ WorkerInOrder(worker', user')
    <3>1. Len(<<>>) = 0 /\ \A i \in 1 .. 0 : FALSE
      OBVIOUS
    <3> QED BY <2>1, <3>1, LatestIsBase DEF Known, Told, WorkerInOrder
  <2>3. MainInOrder(<<>>, authUser, authUser, 0)
    <3>1. Len(<<>>) = 0 /\ \A i \in 1 .. 0 : FALSE
      OBVIOUS
    <3> QED BY <3>1, LatestIsBase DEF MainInOrder, Heard
  <2>4. MainInOrder(mainQueue', authUser, authUser, 0)
    <3>1. CASE authUser = Nobody
      BY <2>1, <2>3, <3>1
    <3>2. CASE authUser # Nobody
      <4> DEFINE n == Notify(authUser)
      <4>1. n \in Block /\ n.kind = "notify" /\ n.user = authUser
        BY <1>t, ElementTypes DEF Notify
      <4>s. <<>> \in Seq(Block)
        BY EmptySeq
      <4> HIDE DEF n
      <4>2. MainInOrder(Append(<<>>, n), authUser, authUser, 0)
        BY <2>3, <4>1, <4>s, BlockJoins
      <4>3. Append(<<>>, n) = <<n>>
        OBVIOUS
      <4> QED BY <2>1, <3>2, <4>2, <4>3 DEF n
    <3> QED BY <3>1, <3>2
  <2>5. FetchesInOrder' /\ OneSignUp' /\ SentAsAuthor' /\ ProfileIsOwn'
    BY <1>0, <2>1 DEF FetchesInOrder, OneSignUp, SentAsAuthor, ProfileIsOwn
  <2> QED BY <2>1, <2>2, <2>4, <2>5 DEF NewsInv
<1> QED
  BY <1>1, <1>2, <1>3, <1>4, <1>6, <1>7, <1>8, <1>9, <1>10, <1>11, <1>12, <1>13, <1>14
     DEF Next, WorkStep, MainStep, WorkerStep

LEMMA NewsHolds == Spec => []NewsInv
BY TypeCorrect, BoundsHold, InitNews, NextNews, PTL DEF Spec

\* The writes of a user's queue are sent with that user's token, whatever
\* becomes of the user between the request of the token and its answer.
THEOREM TokenIsAuthors == Spec => []SentAsAuthor
<1>1. NewsInv => SentAsAuthor
  BY DEF NewsInv
<1> QED BY <1>1, NewsHolds, PTL

\* The document of a new user waits in that user's own queue.
THEOREM ProfileInOwnQueue == Spec => []ProfileIsOwn
<1>1. NewsInv => ProfileIsOwn
  BY DEF NewsInv
<1> QED BY <1>1, NewsHolds, PTL

-----------------------------------------------------------------------------
(* The home page listens to the stops of the user.                         *)

\* Stops are of accounts, as the user is.  A new account has no stop yet, and
\* whoever saves one starts to listen to those of the user of that moment.
StopsInv ==
    /\ saved \subseteq accounts /\ adding \subseteq accounts
    /\ authUser \in accounts \cup {Nobody}
    /\ authUser \in saved => authUser \in listening

LEMMA NextStops == TypeOK /\ StopsInv /\ [Next]_vars => StopsInv'
<1> SUFFICES ASSUME TypeOK, StopsInv, [Next]_vars
             PROVE  StopsInv'
  OBVIOUS
<1>t. saved \subseteq User /\ Nobody \notin saved
  BY DEF TypeOK
<1>1. CASE \/ SignUpTapped \/ SignUpFails \/ UNCHANGED vars \/ GetTokenRuns
           \/ MainStep \/ WorkerStep \/ WriteAnswered \/ CallFails
  <2>1. UNCHANGED <<saved, adding, accounts, authUser, listening>>
    <3>1. SignUpTapped \/ SignUpFails \/ UNCHANGED vars \/ GetTokenRuns =>
            UNCHANGED <<saved, adding, accounts, authUser, listening>>
      BY DEF SignUpTapped, SignUpFails, vars, GetTokenRuns, auth, app
    <3>2. MainStep => UNCHANGED <<saved, adding, accounts, authUser, listening>>
      BY DEF MainStep, NotifyBlock, TokenBlock, SignedUpBlock, auth, app
    <3>3. WorkerStep \/ WriteAnswered \/ CallFails =>
            UNCHANGED <<saved, adding, accounts, authUser, listening>>
      BY DEF WorkerStep, WriteMutations, HandleCredentialChange, TokenArrives,
             BackoffElapsed, WriteAnswered, CallFails, auth, app
    <3> QED BY <1>1, <3>1, <3>2, <3>3
  <2> QED BY <2>1 DEF StopsInv
<1>2. CASE AddStopTapped
  <2>1. /\ authUser # Nobody /\ adding' = adding \cup {authUser}
        /\ UNCHANGED <<saved, accounts, authUser, listening>>
    BY <1>2 DEF AddStopTapped, auth
  <2> QED BY <2>1 DEF StopsInv
<1>3. CASE StopAnswered
  <2>1. PICK u \in adding :
          /\ adding' = adding \ {u} /\ saved' = saved \cup {u}
          /\ listening' = listening \cup ({authUser} \ {Nobody})
    BY <1>3 DEF StopAnswered, Refreshed
  <2>2. UNCHANGED <<accounts, authUser>>
    BY <1>3 DEF StopAnswered, auth
  <2>3. u # Nobody
    BY DEF TypeOK
  <2> QED BY <2>1, <2>2, <2>3 DEF StopsInv
<1>4. CASE SignUpSucceeds
  BY <1>4 DEF SignUpSucceeds, StopsInv
<1>5. CASE FetchAnswered
  <2>1. authUser' \in {authUser, Nobody}
    BY <1>5, AnswerCases
  <2>2. UNCHANGED <<accounts, saved, adding, listening>>
    BY <1>5 DEF FetchAnswered, app
  <2> QED BY <1>t, <2>1, <2>2 DEF StopsInv
<1>6. CASE Relaunch
  BY <1>t, <1>6 DEF Relaunch, StopsInv
<1> QED
  BY <1>1, <1>2, <1>3, <1>4, <1>5, <1>6 DEF Next, WorkStep

\* Wherever the home page was shown from, it listens to the stops of the user
\* as soon as there is one.
THEOREM StopsAreListenedTo == Spec => []StopsListened
<1>1. Init => StopsInv
  BY DEF Init, StopsInv
<1>2. StopsInv => StopsListened
  BY DEF StopsInv, StopsListened
<1> QED BY <1>1, <1>2, NextStops, TypeCorrect, PTL DEF Spec

-----------------------------------------------------------------------------
(* A stream that starts awaits exactly one token.                          *)

\* The tokens on their way to the stream of a close count: asked for, fetched
\* from the backend, returned to the provider, and arriving on the worker.
Asked(q, close) == Cardinality(Places(q, {r \in Request : r.close = close}))

Fetched(F, close) == Cardinality({f \in F : f.request.close = close})

Returned(q, close) ==
    Cardinality(Places(q, {b \in Block : b.kind = "token" /\ b.request.close = close}))

Arriving(q, close) ==
    Cardinality(Places(q, {o \in Operation : o.kind = "token" /\ o.close = close}))

CountInv ==
    /\ IsFiniteSet(fetching)
    /\ OneTokenAwaited

LEMMA AnswersCounted ==
    ASSUME TypeOK, NEW close
    PROVE  AnswersFor(close) =
               Asked(workQueue, close) + Fetched(fetching, close)
               + Returned(mainQueue, close) + Arriving(worker, close)
<1>1. {i \in DOMAIN workQueue : workQueue[i].close = close} =
        Places(workQueue, {r \in Request : r.close = close})
  <2>1. \A i \in DOMAIN workQueue : workQueue[i] \in Request
    BY DEF TypeOK
  <2> QED BY <2>1 DEF Places
<1>2. {i \in DOMAIN mainQueue : mainQueue[i].kind = "token"
                                 /\ mainQueue[i].request.close = close} =
        Places(mainQueue, {b \in Block : b.kind = "token" /\ b.request.close = close})
  <2>1. \A i \in DOMAIN mainQueue : mainQueue[i] \in Block
    BY DEF TypeOK
  <2> QED BY <2>1 DEF Places
<1>3. {i \in DOMAIN worker : worker[i].kind = "token" /\ worker[i].close = close} =
        Places(worker, {o \in Operation : o.kind = "token" /\ o.close = close})
  <2>1. \A i \in DOMAIN worker : worker[i] \in Operation
    BY DEF TypeOK
  <2> QED BY <2>1 DEF Places
<1> QED BY <1>1, <1>2, <1>3 DEF AnswersFor, Asked, Fetched, Returned, Arriving

\* All four are numbers, and none is counted for a close count to come.
LEMMA CountTypes ==
    ASSUME TypeOK, IsFiniteSet(fetching), NEW close
    PROVE  /\ Asked(workQueue, close) \in Nat /\ Fetched(fetching, close) \in Nat
           /\ Returned(mainQueue, close) \in Nat /\ Arriving(worker, close) \in Nat
<1>1. {f \in fetching : f.request.close = close} \in SUBSET fetching
  OBVIOUS
<1>2. Fetched(fetching, close) \in Nat
  BY <1>1, FS_Subset, FS_CardinalityType DEF Fetched
<1>3. workQueue \in Seq(Request) /\ mainQueue \in Seq(Block) /\ worker \in Seq(Operation)
  BY DEF TypeOK
<1> QED BY <1>2, <1>3, PlacesFinite DEF Asked, Returned, Arriving

LEMMA NoneToCome ==
    ASSUME TypeOK, Bounds, NEW close \in Nat, close > closeCount
    PROVE  /\ Asked(workQueue, close) = 0 /\ Fetched(fetching, close) = 0
           /\ Returned(mainQueue, close) = 0 /\ Arriving(worker, close) = 0
<1>1. /\ workQueue \in Seq(PastRequest) /\ mainQueue \in Seq(PastBlock)
      /\ worker \in Seq(PastOperation) /\ \A f \in fetching : f.request \in PastRequest
      /\ closeCount \in Nat
  BY DEF Bounds, TypeOK
<1>2. \A r \in PastRequest : r.close # close
  BY <1>1 DEF PastRequest, Request
<1>3. \A i \in 1 .. Len(workQueue) : workQueue[i] \notin {r \in Request : r.close = close}
  BY <1>1, <1>2
<1>4. \A i \in 1 .. Len(mainQueue) :
        mainQueue[i] \notin {b \in Block : b.kind = "token" /\ b.request.close = close}
  BY <1>1, <1>2 DEF PastBlock
<1>5. \A i \in 1 .. Len(worker) :
        worker[i] \notin {o \in Operation : o.kind = "token" /\ o.close = close}
  <2>1. \A o \in PastOperation : ~(o.kind = "token" /\ o.close = close)
    BY <1>1, ElementFields DEF PastOperation
  <2> QED BY <1>1, <2>1
<1>6. {f \in fetching : f.request.close = close} = {}
  BY <1>1, <1>2
<1>7. Fetched(fetching, close) = 0
  BY <1>6, FS_EmptySet DEF Fetched
<1> QED BY <1>1, <1>3, <1>4, <1>5, <1>7, PlacesFinite DEF Asked, Returned, Arriving

\* One more of each kind, and one less.
LEMMA AskedChanges ==
    ASSUME NEW q \in Seq(Request), NEW close
    PROVE  /\ \A r \in Request :
                Asked(Append(q, r), close) =
                    Asked(q, close) + IF r.close = close THEN 1 ELSE 0
           /\ q # <<>> =>
                Asked(q, close) =
                    Asked(Tail(q), close) + IF Head(q).close = close THEN 1 ELSE 0
<1> DEFINE S == {r \in Request : r.close = close}
<1>1. \A r \in Request : r \in S <=> r.close = close
  OBVIOUS
<1>2. q # <<>> => Head(q) \in Request
  BY HeadTailProperties
<1> HIDE DEF S
<1>3. \A r \in Request :
        Cardinality(Places(Append(q, r), S)) =
            Cardinality(Places(q, S)) + IF r \in S THEN 1 ELSE 0
  BY PlacesOfAppend
<1>4. q # <<>> =>
        Cardinality(Places(q, S)) =
            Cardinality(Places(Tail(q), S)) + IF Head(q) \in S THEN 1 ELSE 0
  BY PlacesOfTail
<1> QED BY <1>1, <1>2, <1>3, <1>4 DEF Asked, S

LEMMA ReturnedChanges ==
    ASSUME NEW q \in Seq(Block), NEW close
    PROVE  /\ \A b \in Block :
                Returned(Append(q, b), close) =
                    Returned(q, close)
                    + IF b.kind = "token" /\ b.request.close = close THEN 1 ELSE 0
           /\ q # <<>> =>
                Returned(q, close) =
                    Returned(Tail(q), close)
                    + IF Head(q).kind = "token" /\ Head(q).request.close = close THEN 1 ELSE 0
<1> DEFINE S == {b \in Block : b.kind = "token" /\ b.request.close = close}
<1>1. \A b \in Block : b \in S <=> b.kind = "token" /\ b.request.close = close
  OBVIOUS
<1>2. q # <<>> => Head(q) \in Block
  BY HeadTailProperties
<1> HIDE DEF S
<1>3. \A b \in Block :
        Cardinality(Places(Append(q, b), S)) =
            Cardinality(Places(q, S)) + IF b \in S THEN 1 ELSE 0
  BY PlacesOfAppend
<1>4. q # <<>> =>
        Cardinality(Places(q, S)) =
            Cardinality(Places(Tail(q), S)) + IF Head(q) \in S THEN 1 ELSE 0
  BY PlacesOfTail
<1> QED BY <1>1, <1>2, <1>3, <1>4 DEF Returned, S

LEMMA ArrivingChanges ==
    ASSUME NEW q \in Seq(Operation), NEW close
    PROVE  /\ \A o \in Operation :
                Arriving(Append(q, o), close) =
                    Arriving(q, close)
                    + IF o.kind = "token" /\ o.close = close THEN 1 ELSE 0
           /\ q # <<>> =>
                Arriving(q, close) =
                    Arriving(Tail(q), close)
                    + IF Head(q).kind = "token" /\ Head(q).close = close THEN 1 ELSE 0
<1> DEFINE S == {o \in Operation : o.kind = "token" /\ o.close = close}
<1>1. \A o \in Operation : o \in S <=> o.kind = "token" /\ o.close = close
  OBVIOUS
<1>2. q # <<>> => Head(q) \in Operation
  BY HeadTailProperties
<1> HIDE DEF S
<1>3. \A o \in Operation :
        Cardinality(Places(Append(q, o), S)) =
            Cardinality(Places(q, S)) + IF o \in S THEN 1 ELSE 0
  BY PlacesOfAppend
<1>4. q # <<>> =>
        Cardinality(Places(q, S)) =
            Cardinality(Places(Tail(q), S)) + IF Head(q) \in S THEN 1 ELSE 0
  BY PlacesOfTail
<1> QED BY <1>1, <1>2, <1>3, <1>4 DEF Arriving, S

LEMMA FetchedJoins ==
    ASSUME NEW F, IsFiniteSet(F), NEW f, f \notin F, NEW close
    PROVE  /\ Fetched(F \cup {f}, close) =
                Fetched(F, close) + IF f.request.close = close THEN 1 ELSE 0
           /\ IsFiniteSet(F \cup {f})
<1> DEFINE C == {g \in F : g.request.close = close}
<1>1. IsFiniteSet(C) /\ Cardinality(C) \in Nat
  <2>1. C \in SUBSET F
    OBVIOUS
  <2> QED BY <2>1, FS_Subset, FS_CardinalityType
<1>f. Fetched(F, close) = Cardinality(C)
  BY DEF Fetched
<1>2. Fetched(F \cup {f}, close) =
                Fetched(F, close) + IF f.request.close = close THEN 1 ELSE 0
  <2>1. CASE f.request.close = close
    <3>1. {g \in F \cup {f} : g.request.close = close} = C \cup {f} /\ f \notin C
      BY <2>1
    <3> HIDE DEF C
    <3>2. Cardinality(C \cup {f}) = Cardinality(C) + 1
      BY <1>1, <3>1, FS_AddElement
    <3>3. Fetched(F \cup {f}, close) = Cardinality(C \cup {f})
      BY <3>1 DEF Fetched
    <3> QED BY <1>1, <1>f, <2>1, <3>2, <3>3
  <2>2. CASE f.request.close # close
    <3>1. {g \in F \cup {f} : g.request.close = close} = C
      BY <2>2
    <3>2. Fetched(F \cup {f}, close) = Cardinality(C)
      BY <3>1 DEF Fetched
    <3> HIDE DEF C
    <3> QED BY <1>1, <1>f, <2>2, <3>2
  <2> QED BY <2>1, <2>2
<1> QED BY <1>2, FS_AddElement

LEMMA FetchedLeaves ==
    ASSUME NEW F, IsFiniteSet(F), NEW f \in F, NEW close
    PROVE  /\ Fetched(F, close) =
                Fetched(F \ {f}, close) + IF f.request.close = close THEN 1 ELSE 0
           /\ IsFiniteSet(F \ {f})
<1> DEFINE C == {g \in F : g.request.close = close}
<1>1. IsFiniteSet(C) /\ Cardinality(C) \in Nat
  <2>1. C \in SUBSET F
    OBVIOUS
  <2> QED BY <2>1, FS_Subset, FS_CardinalityType
<1>f. Fetched(F, close) = Cardinality(C)
  BY DEF Fetched
<1>2. Fetched(F, close) =
                Fetched(F \ {f}, close) + IF f.request.close = close THEN 1 ELSE 0
  <2>1. CASE f.request.close = close
    <3>1. {g \in F \ {f} : g.request.close = close} = C \ {f} /\ f \in C
      BY <2>1
    <3> HIDE DEF C
    <3>2. Cardinality(C \ {f}) = Cardinality(C) - 1
      BY <1>1, <3>1, FS_RemoveElement
    <3>3. Fetched(F \ {f}, close) = Cardinality(C \ {f})
      BY <3>1 DEF Fetched
    <3> QED BY <1>1, <1>f, <2>1, <3>2, <3>3
  <2>2. CASE f.request.close # close
    <3>1. {g \in F \ {f} : g.request.close = close} = C
      BY <2>2
    <3>2. Fetched(F \ {f}, close) = Cardinality(C)
      BY <3>1 DEF Fetched
    <3> HIDE DEF C
    <3> QED BY <1>1, <1>f, <2>2, <3>2
  <2> QED BY <2>1, <2>2
<1> QED BY <1>2, FS_RemoveElement

LEMMA FetchedNone ==
    ASSUME NEW F, IsFiniteSet(F), NEW f \in F, NEW close, Fetched(F, close) = 0
    PROVE  f.request.close # close
<1> DEFINE C == {g \in F : g.request.close = close}
<1>1. Cardinality(C) = 0 /\ IsFiniteSet(C)
  <2>1. C \in SUBSET F
    OBVIOUS
  <2> QED BY <2>1, FS_Subset DEF Fetched
<1>2. C = {}
  <2> HIDE DEF C
  <2> QED BY <1>1, FS_EmptySet
<1> QED BY <1>2

\* Operations and blocks that are no tokens do not count.
LEMMA OtherOperation ==
    ASSUME NEW q \in Seq(Operation), NEW o \in Operation, o.kind # "token", NEW close
    PROVE  Arriving(Append(q, o), close) = Arriving(q, close)
<1>1. Arriving(q, close) \in Nat
  BY PlacesFinite DEF Arriving
<1> QED BY <1>1, ArrivingChanges

\* The count of the answers awaited, now and after a step.
Awaited ==
    Asked(workQueue, closeCount) + Fetched(fetching, closeCount)
    + Returned(mainQueue, closeCount) + Arriving(worker, closeCount)

Expected == IF stream = "starting" THEN 1 ELSE 0

LEMMA AwaitedIs == TypeOK => (OneTokenAwaited <=> ~assertFailed /\ Awaited = Expected)
BY AnswersCounted DEF OneTokenAwaited, Awaited, Expected

LEMMA AwaitedNext ==
    TypeOK' => (OneTokenAwaited' <=> ~assertFailed' /\ Awaited' = Expected')
<1>1. (TypeOK => (OneTokenAwaited <=> ~assertFailed /\ Awaited = Expected))'
  BY AwaitedIs, PTL
<1> QED BY <1>1

LEMMA InitCount == Init => CountInv
<1> SUFFICES ASSUME Init
             PROVE  CountInv
  OBVIOUS
<1>1. /\ workQueue = <<>> /\ mainQueue = <<>> /\ worker = <<>> /\ fetching = {}
      /\ stream = "initial" /\ assertFailed = FALSE
  BY DEF Init
<1>2. IsFiniteSet(fetching) /\ Fetched(fetching, closeCount) = 0
  <2>1. {f \in fetching : f.request.close = closeCount} = {}
    BY <1>1
  <2> QED BY <1>1, <2>1, FS_EmptySet DEF Fetched
<1>3. /\ Asked(workQueue, closeCount) = 0 /\ Returned(mainQueue, closeCount) = 0
      /\ Arriving(worker, closeCount) = 0
  <2>1. \A S : Places(<<>>, S) = {}
    BY DEF Places
  <2> QED BY <1>1, <2>1, FS_EmptySet DEF Asked, Returned, Arriving
<1>4. TypeOK
  BY InitType
<1> QED BY <1>1, <1>2, <1>3, <1>4, AwaitedIs DEF CountInv, Awaited, Expected

\* A stream that starts, or not, when none was starting and no token was on
\* its way: the tokens after it are those that it asked for.
LEMMA StartCounts ==
    ASSUME TypeOK, TypeOK', NEW w, NEW s, s # "starting", NEW close \in Nat,
           StartIfNeeded(w, s, close), Asked(workQueue, close) = 0
    PROVE  Asked(workQueue', close) = IF stream' = "starting" THEN 1 ELSE 0
<1> DEFINE r == [counter |-> tokenCounter, close |-> close]
<1>1. r \in Request /\ r.close = close
  BY DEF Request, TypeOK
<1> HIDE DEF r
<1>2. Asked(Append(workQueue, r), close) = Asked(workQueue, close) + 1
  BY <1>1, AskedChanges DEF TypeOK
<1>3. \/ stream' = "starting" /\ workQueue' = Append(workQueue, r)
      \/ (stream' = s \/ stream' = "backoff") /\ workQueue' = workQueue
  BY StartCases DEF r
<1>4. CASE stream' = "starting" /\ workQueue' = Append(workQueue, r)
  BY <1>2, <1>4
<1>5. CASE (stream' = s \/ stream' = "backoff") /\ workQueue' = workQueue
  BY <1>5
<1> QED BY <1>3, <1>4, <1>5

LEMMA NextCount ==
    TypeOK /\ TypeOK' /\ Bounds /\ CountInv /\ Next => CountInv'
<1> SUFFICES ASSUME TypeOK, TypeOK', Bounds, CountInv, Next
             PROVE  CountInv'
  OBVIOUS
<1> DEFINE c == closeCount
<1>t. /\ workQueue \in Seq(Request) /\ mainQueue \in Seq(Block) /\ worker \in Seq(Operation)
      /\ c \in Nat /\ authUser \in Uid
  BY DEF TypeOK
<1>0. IsFiniteSet(fetching) /\ ~assertFailed /\ Awaited = Expected
  BY AwaitedIs DEF CountInv
<1>n. /\ Asked(workQueue, c) \in Nat /\ Fetched(fetching, c) \in Nat
      /\ Returned(mainQueue, c) \in Nat /\ Arriving(worker, c) \in Nat
  BY <1>0, CountTypes
<1>s. Asked(workQueue, c) + Fetched(fetching, c) + Returned(mainQueue, c) + Arriving(worker, c)
        = IF stream = "starting" THEN 1 ELSE 0
  BY <1>0 DEF Awaited, Expected
<1>g. ASSUME IsFiniteSet(fetching'), ~assertFailed',
             Asked(workQueue', closeCount') + Fetched(fetching', closeCount')
             + Returned(mainQueue', closeCount') + Arriving(worker', closeCount')
                = IF stream' = "starting" THEN 1 ELSE 0
      PROVE  CountInv'
  BY <1>g, AwaitedNext DEF CountInv, Awaited, Expected
<1>1. CASE SignUpTapped \/ AddStopTapped \/ SignUpFails \/ WriteAnswered
  <2>1. UNCHANGED <<workQueue, fetching, mainQueue, worker, stream, closeCount, assertFailed>>
    BY <1>1 DEF SignUpTapped, AddStopTapped, SignUpFails, WriteAnswered, auth, firestore
  <2> QED BY <1>0, <1>s, <1>g, <2>1
<1>3. CASE StopAnswered
  <2>1. PICK u \in adding : worker' = Append(worker, Write("stop", u))
    BY <1>3 DEF StopAnswered
  <2>2. UNCHANGED <<workQueue, fetching, mainQueue, stream, closeCount, assertFailed>>
    BY <1>3 DEF StopAnswered, auth, firestore
  <2>3. Write("stop", u) \in Operation /\ Write("stop", u).kind = "write"
    BY ElementTypes DEF TypeOK, Write
  <2>4. Arriving(worker', c) = Arriving(worker, c)
    BY <1>t, <2>1, <2>3, OtherOperation
  <2> QED BY <1>0, <1>s, <1>g, <2>2, <2>4
<1>4. CASE SignUpSucceeds
  <2>1. PICK u \in User : mainQueue' = mainQueue \o <<Notify(u), [kind |-> "signedUp"]>>
    BY <1>4 DEF SignUpSucceeds, Posts
  <2>2. UNCHANGED <<workQueue, fetching, worker, stream, closeCount, assertFailed>>
    BY <1>4 DEF SignUpSucceeds, firestore
  <2> DEFINE n == Notify(u)
             s == [kind |-> "signedUp"]
             q == Append(mainQueue, n)
  <2>3. n \in Block /\ n.kind = "notify" /\ s \in Block
    BY ElementTypes DEF Uid, Notify
  <2>4. s.kind = "signedUp"
    OBVIOUS
  <2> HIDE DEF n, s
  <2>5. q \in Seq(Block)
    BY <1>t, <2>3, AppendProperties
  <2>6. mainQueue' = Append(q, s)
    BY <1>t, <2>1, <2>3, ConcatOfTwo DEF n, s
  <2>7. Returned(q, c) = Returned(mainQueue, c)
    BY <1>t, <1>n, <2>3, ReturnedChanges
  <2> HIDE DEF q
  <2>8. Returned(mainQueue', c) = Returned(mainQueue, c)
    BY <1>n, <2>3, <2>4, <2>5, <2>6, <2>7, ReturnedChanges
  <2> QED BY <1>0, <1>s, <1>g, <2>2, <2>8
<1>6. CASE GetTokenRuns
  <2> DEFINE r == Head(workQueue)
             t == Token(r, authUser, TRUE)
             f == [request |-> r, user |-> authUser]
  <2>1. /\ workQueue # <<>> /\ workQueue' = Tail(workQueue)
        /\ UNCHANGED <<worker, stream, closeCount, assertFailed>>
    BY <1>6 DEF GetTokenRuns, firestore
  <2>2. r \in Request /\ t \in Block /\ t.kind = "token" /\ t.request = r /\ f.request = r
    <3>1. r \in Request
      BY <1>t, <2>1, HeadTailProperties
    <3> QED BY <1>t, <3>1, ElementTypes DEF Token
  <2>3. Asked(workQueue, c) = Asked(workQueue', c) + IF r.close = c THEN 1 ELSE 0
    BY <1>t, <2>1, AskedChanges
  <2>4. \/ mainQueue' = Append(mainQueue, t) /\ fetching' = fetching
        \/ fetching' = fetching \cup {f} /\ mainQueue' = mainQueue
    BY <1>6 DEF GetTokenRuns
  <2> HIDE DEF r, t, f
  <2>n. Asked(workQueue', c) \in Nat
    <3>1. workQueue' \in Seq(Request)
      BY DEF TypeOK
    <3> QED BY <3>1, PlacesFinite DEF Asked
  <2>5. CASE mainQueue' = Append(mainQueue, t) /\ fetching' = fetching
    <3>1. Returned(mainQueue', c) = Returned(mainQueue, c) + IF r.close = c THEN 1 ELSE 0
      BY <1>t, <2>2, <2>5, ReturnedChanges
    <3>2. Asked(workQueue', c) + Returned(mainQueue', c) =
            Asked(workQueue, c) + Returned(mainQueue, c)
      BY <1>n, <2>3, <2>n, <3>1
    <3>3. Returned(mainQueue', c) \in Nat
      BY <1>n, <3>1
    <3> QED BY <1>0, <1>n, <1>s, <1>g, <2>1, <2>n, <2>5, <3>2, <3>3
  <2>6. CASE fetching' = fetching \cup {f} /\ mainQueue' = mainQueue
    <3>1. Fetched(fetching \cup {f}, c) =
            Fetched(fetching, c) + IF r.close = c THEN 1 ELSE 0
      <4>1. CASE f \notin fetching
        <5>1. Fetched(fetching \cup {f}, c) =
                Fetched(fetching, c) + IF f.request.close = c THEN 1 ELSE 0
          BY <1>0, <4>1, FetchedJoins
        <5> QED BY <2>2, <5>1
      <4>2. CASE f \in fetching
        <5>1. fetching \cup {f} = fetching
          BY <4>2
        <5>2. r.close # c
          <6>1. Fetched(fetching, c) = 0 => f.request.close # c
            BY <1>0, <4>2, FetchedNone
          <6>2. r.close = c => Fetched(fetching, c) = 0
            BY <1>n, <1>s, <2>3, <2>n
          <6> QED BY <2>2, <6>1, <6>2
        <5>3. Fetched(fetching \cup {f}, c) = Fetched(fetching, c)
          BY <5>1
        <5> QED BY <1>n, <5>2, <5>3
      <4> QED BY <4>1, <4>2
    <3>2. Asked(workQueue', c) + Fetched(fetching', c) =
            Asked(workQueue, c) + Fetched(fetching, c)
      BY <1>n, <2>3, <2>6, <2>n, <3>1
    <3>3. IsFiniteSet(fetching') /\ Fetched(fetching', c) \in Nat
      BY <1>0, <1>n, <2>6, <3>1, FS_AddElement
    <3> QED BY <1>0, <1>n, <1>s, <1>g, <2>1, <2>n, <2>6, <3>2, <3>3
  <2> QED BY <2>4, <2>5, <2>6
<1>7. CASE FetchAnswered
  <2>1. PICK f \in fetching, ok \in BOOLEAN, u \in Uid :
          /\ fetching' = fetching \ {f}
          /\ \/ mainQueue' = Append(mainQueue, Token(f.request, f.user, ok))
             \/ mainQueue' = Append(Append(mainQueue, Notify(u)),
                                    Token(f.request, f.user, ok))
          /\ UNCHANGED <<accounts, workQueue, tokenCounter, worker, firestore, app>>
    BY <1>7, AnswerCases
  <2>2. UNCHANGED <<workQueue, worker, stream, closeCount, assertFailed>>
    BY <2>1 DEF firestore
  <2> DEFINE t == Token(f.request, f.user, ok)
             n == Notify(u)
             q == Append(mainQueue, n)
  <2>3. /\ t \in Block /\ t.kind = "token" /\ t.request = f.request
        /\ n \in Block /\ n.kind = "notify"
    <3>1. f.request \in Request /\ f.user \in Uid
      BY DEF TypeOK, Uid
    <3> QED BY <3>1, ElementTypes DEF Token, Notify
  <2>4. mainQueue' = Append(mainQueue, t) \/ mainQueue' = Append(q, t)
    BY <2>1
  <2> HIDE DEF t, n
  <2>5. q \in Seq(Block)
    BY <1>t, <2>3, AppendProperties
  <2>6. Returned(q, c) = Returned(mainQueue, c)
    BY <1>t, <1>n, <2>3, ReturnedChanges
  <2> HIDE DEF q
  <2>7. Returned(mainQueue', c) =
          Returned(mainQueue, c) + IF f.request.close = c THEN 1 ELSE 0
    <3>1. CASE mainQueue' = Append(mainQueue, t)
      BY <1>t, <2>3, <3>1, ReturnedChanges
    <3>2. CASE mainQueue' = Append(q, t)
      BY <2>3, <2>5, <2>6, <3>2, ReturnedChanges
    <3> QED BY <2>4, <3>1, <3>2
  <2>8. /\ Fetched(fetching, c) =
              Fetched(fetching', c) + IF f.request.close = c THEN 1 ELSE 0
        /\ IsFiniteSet(fetching')
    BY <1>0, <2>1, FetchedLeaves
  <2>9. Fetched(fetching', c) \in Nat
    <3>1. {g \in fetching' : g.request.close = c} \in SUBSET fetching'
      OBVIOUS
    <3> QED BY <2>8, <3>1, FS_Subset, FS_CardinalityType DEF Fetched
  <2>10. Fetched(fetching', c) + Returned(mainQueue', c) =
           Fetched(fetching, c) + Returned(mainQueue, c)
    BY <1>n, <2>7, <2>8, <2>9
  <2>11. Returned(mainQueue', c) \in Nat
    BY <1>n, <2>7
  <2> QED BY <1>0, <1>n, <1>s, <1>g, <2>2, <2>8, <2>9, <2>10, <2>11
<1>8. CASE NotifyBlock
  <2> DEFINE o == [kind |-> "user", user |-> Head(mainQueue).user]
  <2>1. /\ mainQueue # <<>> /\ Head(mainQueue).kind = "notify"
        /\ mainQueue' = Tail(mainQueue) /\ worker' = Append(worker, o)
        /\ UNCHANGED <<workQueue, fetching, stream, closeCount, assertFailed>>
    BY <1>8 DEF NotifyBlock, Running, auth, firestore
  <2>2. o \in Operation /\ o.kind = "user"
    <3>1. Head(mainQueue) \in Block
      BY <1>t, <2>1, HeadTailProperties
    <3> QED BY <2>1, <3>1, ElementFields, ElementTypes
  <2> HIDE DEF o
  <2>3. Arriving(worker', c) = Arriving(worker, c)
    BY <1>t, <2>1, <2>2, OtherOperation
  <2>n. Returned(mainQueue', c) \in Nat
    <3>1. mainQueue' \in Seq(Block)
      BY DEF TypeOK
    <3> QED BY <3>1, PlacesFinite DEF Returned
  <2>4. Returned(mainQueue', c) = Returned(mainQueue, c)
    BY <1>t, <2>1, <2>n, ReturnedChanges
  <2> QED BY <1>0, <1>s, <1>g, <2>1, <2>3, <2>4
<1>9. CASE TokenBlock
  <2> DEFINE b == Head(mainQueue)
             o == [kind |-> "token", close |-> b.request.close, user |-> b.user, ok |-> b.ok]
             r == Again(b.request)
  <2>1. /\ mainQueue # <<>> /\ b.kind = "token" /\ mainQueue' = Tail(mainQueue)
        /\ UNCHANGED <<fetching, stream, closeCount, assertFailed>>
    BY <1>9 DEF TokenBlock, Running, firestore
  <2>2. \/ workQueue' = Append(workQueue, r) /\ worker' = worker
        \/ worker' = Append(worker, o) /\ workQueue' = workQueue
    BY <1>9 DEF TokenBlock
  <2>3. b.request \in Request /\ b.user \in Uid /\ b.ok \in BOOLEAN
    <3>1. b \in Block
      BY <1>t, <2>1, HeadTailProperties
    <3> QED BY <2>1, <3>1, ElementFields
  <2>4. /\ o \in Operation /\ o.kind = "token" /\ o.close = b.request.close
        /\ r \in Request /\ r.close = b.request.close
    BY <2>3, ElementTypes DEF Request, Again, TypeOK
  <2>n. Returned(mainQueue', c) \in Nat
    <3>1. mainQueue' \in Seq(Block)
      BY DEF TypeOK
    <3> QED BY <3>1, PlacesFinite DEF Returned
  <2>5. Returned(mainQueue, c) =
          Returned(mainQueue', c) + IF b.request.close = c THEN 1 ELSE 0
    BY <1>t, <2>1, ReturnedChanges
  <2> HIDE DEF b, o, r
  <2>6. CASE workQueue' = Append(workQueue, r) /\ worker' = worker
    <3>1. Asked(workQueue', c) = Asked(workQueue, c) + IF b.request.close = c THEN 1 ELSE 0
      BY <1>t, <2>4, <2>6, AskedChanges
    <3>2. Asked(workQueue', c) + Returned(mainQueue', c) =
            Asked(workQueue, c) + Returned(mainQueue, c)
      BY <1>n, <2>5, <2>n, <3>1
    <3>3. Asked(workQueue', c) \in Nat
      BY <1>n, <3>1
    <3>4. /\ Fetched(fetching', c) = Fetched(fetching, c)
          /\ Arriving(worker', c) = Arriving(worker, c)
          /\ closeCount' = c /\ stream' = stream /\ fetching' = fetching
          /\ assertFailed' = assertFailed
      BY <2>1, <2>6
    <3>5. Asked(workQueue', c) + Fetched(fetching', c)
          + Returned(mainQueue', c) + Arriving(worker', c)
            = IF stream' = "starting" THEN 1 ELSE 0
      BY <1>n, <1>s, <2>n, <3>2, <3>3, <3>4
    <3> QED BY <1>0, <1>g, <3>4, <3>5
  <2>7. CASE worker' = Append(worker, o) /\ workQueue' = workQueue
    <3>1. Arriving(worker', c) =
            Arriving(worker, c) + IF b.request.close = c THEN 1 ELSE 0
      BY <1>t, <2>4, <2>7, ArrivingChanges
    <3>2. Returned(mainQueue', c) + Arriving(worker', c) =
            Returned(mainQueue, c) + Arriving(worker, c)
      BY <1>n, <2>5, <2>n, <3>1
    <3>3. Arriving(worker', c) \in Nat
      BY <1>n, <3>1
    <3> QED BY <1>0, <1>n, <1>s, <1>g, <2>1, <2>7, <2>n, <3>2, <3>3
  <2> QED BY <2>2, <2>6, <2>7
<1>10. CASE SignedUpBlock
  <2> DEFINE o == Write("profile", authUser)
  <2>1. /\ mainQueue # <<>> /\ Head(mainQueue).kind = "signedUp"
        /\ mainQueue' = Tail(mainQueue)
        /\ UNCHANGED <<workQueue, fetching, stream, closeCount, assertFailed>>
    BY <1>10 DEF SignedUpBlock, Running, auth, firestore
  <2>2. worker' = worker \/ (authUser # Nobody /\ worker' = Append(worker, o))
    BY <1>10 DEF SignedUpBlock
  <2>3. authUser # Nobody => o \in Operation /\ o.kind = "write"
    BY <1>t, ElementTypes DEF Uid, Write
  <2> HIDE DEF o
  <2>4. Arriving(worker', c) = Arriving(worker, c)
    BY <1>t, <2>2, <2>3, OtherOperation
  <2>n. Returned(mainQueue', c) \in Nat
    <3>1. mainQueue' \in Seq(Block)
      BY DEF TypeOK
    <3> QED BY <3>1, PlacesFinite DEF Returned
  <2>5. Returned(mainQueue', c) = Returned(mainQueue, c)
    BY <1>t, <2>1, <2>n, ReturnedChanges
  <2> QED BY <1>0, <1>s, <1>g, <2>1, <2>4, <2>5
<1>11. CASE WriteMutations
  <2>1. /\ worker # <<>> /\ Head(worker).kind = "write" /\ worker' = Tail(worker)
        /\ StartIfNeeded(queue'[user], stream, closeCount)
        /\ UNCHANGED <<fetching, mainQueue, closeCount, assertFailed>>
    BY <1>11 DEF WriteMutations, Operating
  <2>n. Arriving(worker', c) \in Nat
    <3>1. worker' \in Seq(Operation)
      BY DEF TypeOK
    <3> QED BY <3>1, PlacesFinite DEF Arriving
  <2>2. Arriving(worker', c) = Arriving(worker, c)
    BY <1>t, <2>1, <2>n, ArrivingChanges
  <2>3. CASE stream = "starting"
    <3>1. workQueue' = workQueue /\ stream' = "starting"
      BY <2>1, <2>3 DEF StartIfNeeded
    <3> QED BY <1>0, <1>s, <1>g, <2>1, <2>2, <2>3, <3>1
  <2>4. CASE stream # "starting"
    <3>1. /\ Asked(workQueue, c) = 0 /\ Fetched(fetching, c) = 0
          /\ Returned(mainQueue, c) = 0 /\ Arriving(worker, c) = 0
      BY <1>n, <1>s, <2>4
    <3>2. Asked(workQueue', c) = IF stream' = "starting" THEN 1 ELSE 0
      BY <1>t, <2>1, <2>4, <3>1, StartCounts
    <3> QED BY <1>0, <1>g, <2>1, <2>2, <3>1, <3>2
  <2> QED BY <2>3, <2>4
<1>12. CASE HandleCredentialChange
  <2> DEFINE u == Head(worker).user
             k == IF IsStarted THEN closeCount + 1 ELSE closeCount
  <2>1. /\ worker # <<>> /\ Head(worker).kind = "user" /\ worker' = Tail(worker)
        /\ UNCHANGED <<fetching, mainQueue, assertFailed>>
    BY <1>12 DEF HandleCredentialChange, Operating
  <2>2. u \in Uid
    <3>1. Head(worker) \in Operation
      BY <1>t, <2>1, HeadTailProperties
    <3> QED BY <2>1, <3>1, ElementFields
  <2>3. StartIfNeeded(queue[u], "initial", k) /\ closeCount' = k
    BY <1>12, <2>2 DEF HandleCredentialChange, Restarts
  <2>4. /\ Asked(workQueue, k) = 0 /\ Fetched(fetching, k) = 0
        /\ Returned(mainQueue, k) = 0 /\ Arriving(worker, k) = 0
    <3>1. CASE IsStarted
      <4>1. k \in Nat /\ k > closeCount
        BY <1>t, <3>1
      <4> HIDE DEF k
      <4> QED BY <4>1, NoneToCome
    <3>2. CASE ~IsStarted
      <4>1. k = c /\ stream # "starting"
        BY <3>2 DEF IsStarted
      <4> HIDE DEF k
      <4> QED BY <1>n, <1>s, <4>1
    <3> QED BY <3>1, <3>2
  <2>5. k \in Nat
    BY <1>t
  <2> HIDE DEF u, k
  <2>n. Arriving(worker', k) \in Nat
    <3>1. worker' \in Seq(Operation)
      BY DEF TypeOK
    <3> QED BY <3>1, PlacesFinite DEF Arriving
  <2>6. Arriving(worker', k) = 0
    BY <1>t, <2>1, <2>4, <2>n, ArrivingChanges
  <2>7. Asked(workQueue', k) = IF stream' = "starting" THEN 1 ELSE 0
    BY <2>3, <2>4, <2>5, StartCounts
  <2> QED BY <1>0, <1>g, <2>1, <2>3, <2>4, <2>6, <2>7
<1>13. CASE TokenArrives
  <2> DEFINE t == Head(worker)
  <2>1. /\ worker # <<>> /\ t.kind = "token" /\ worker' = Tail(worker)
        /\ UNCHANGED <<workQueue, fetching, mainQueue>>
    BY <1>13 DEF TokenArrives, Operating, auth
  <2>n. worker' \in Seq(Operation) /\ \A k : Arriving(worker', k) \in Nat
    <3>1. worker' \in Seq(Operation)
      BY DEF TypeOK
    <3> QED BY <3>1, PlacesFinite DEF Arriving
  <2>2. \A k : Arriving(worker, k) = Arriving(worker', k) + IF t.close = k THEN 1 ELSE 0
    BY <1>t, <2>1, ArrivingChanges
  <2>3. CASE t.close # closeCount
    <3>1. UNCHANGED <<stream, closeCount, assertFailed>>
      BY <1>13, <2>3 DEF TokenArrives, IsCurrent
    <3>2. Arriving(worker', c) = Arriving(worker, c)
      BY <2>2, <2>3, <2>n
    <3> QED BY <1>0, <1>s, <1>g, <2>1, <3>1, <3>2
  <2>4. CASE t.close = closeCount
    <3>1. Arriving(worker, c) = Arriving(worker', c) + 1
      BY <2>2, <2>4
    <3>2. /\ stream = "starting"
          /\ Asked(workQueue, c) = 0 /\ Fetched(fetching, c) = 0
          /\ Returned(mainQueue, c) = 0 /\ Arriving(worker', c) = 0
      <4>1. Arriving(worker', c) \in Nat
        BY <2>n
      <4> QED BY <1>n, <1>s, <3>1, <4>1
    <3>3. /\ assertFailed' = (stream # "starting")
          /\ \/ stream' = "open" /\ closeCount' = closeCount
             \/ stream' = "backoff" /\ closeCount' = closeCount + 1
      BY <1>13, <2>4 DEF TokenArrives, IsCurrent
    <3>4. CASE stream' = "open" /\ closeCount' = closeCount
      <4>1. ~assertFailed' /\ stream' # "starting" /\ IsFiniteSet(fetching')
        BY <1>0, <2>1, <3>2, <3>3, <3>4
      <4>2. Asked(workQueue', closeCount') + Fetched(fetching', closeCount')
            + Returned(mainQueue', closeCount') + Arriving(worker', closeCount') = 0
        BY <2>1, <3>2, <3>4
      <4> QED BY <1>g, <4>1, <4>2
    <3>5. CASE stream' = "backoff" /\ closeCount' = closeCount + 1
      <4>1. c + 1 \in Nat /\ c + 1 > closeCount
        BY <1>t
      <4>2. /\ Asked(workQueue, c + 1) = 0 /\ Fetched(fetching, c + 1) = 0
            /\ Returned(mainQueue, c + 1) = 0 /\ Arriving(worker, c + 1) = 0
        BY <4>1, NoneToCome
      <4>3. Arriving(worker', c + 1) = 0
        <5>1. Arriving(worker', c + 1) \in Nat
          BY <2>n
        <5> QED BY <2>2, <4>2, <5>1
      <4>4. ~assertFailed' /\ stream' # "starting" /\ IsFiniteSet(fetching')
        BY <1>0, <2>1, <3>2, <3>3, <3>5
      <4>5. Asked(workQueue', closeCount') + Fetched(fetching', closeCount')
            + Returned(mainQueue', closeCount') + Arriving(worker', closeCount') = 0
        BY <2>1, <3>5, <4>2, <4>3
      <4> QED BY <1>g, <4>4, <4>5
    <3> QED BY <3>3, <3>4, <3>5
  <2> QED BY <2>3, <2>4
<1>14. CASE BackoffElapsed
  <2>1. /\ stream = "backoff"
        /\ StartIfNeeded(queue[user], "initial", closeCount)
        /\ UNCHANGED <<fetching, mainQueue, worker, closeCount, assertFailed>>
    BY <1>14 DEF BackoffElapsed
  <2>2. /\ Asked(workQueue, c) = 0 /\ Fetched(fetching, c) = 0
        /\ Returned(mainQueue, c) = 0 /\ Arriving(worker, c) = 0
    BY <1>n, <1>s, <2>1
  <2>3. Asked(workQueue', c) = IF stream' = "starting" THEN 1 ELSE 0
    BY <1>t, <2>1, <2>2, StartCounts
  <2> QED BY <1>0, <1>g, <2>1, <2>2, <2>3
<1>15. CASE CallFails
  <2>1. /\ stream' \in {"backoff", "error"} /\ closeCount' = closeCount + 1
        /\ UNCHANGED <<workQueue, fetching, mainQueue, worker, assertFailed>>
    BY <1>15 DEF CallFails, auth
  <2>2. c + 1 \in Nat /\ c + 1 > closeCount
    BY <1>t
  <2>3. /\ Asked(workQueue, c + 1) = 0 /\ Fetched(fetching, c + 1) = 0
        /\ Returned(mainQueue, c + 1) = 0 /\ Arriving(worker, c + 1) = 0
    BY <2>2, NoneToCome
  <2> QED BY <1>0, <1>g, <2>1, <2>3
<1>16. CASE Relaunch
  <2> DEFINE r == [counter |-> 0, close |-> 0]
             n == Notify(authUser)
  <2>1. /\ worker' = <<>> /\ fetching' = {} /\ closeCount' = 0 /\ assertFailed' = assertFailed
        /\ mainQueue' = <<>> \/ mainQueue' = <<n>>
        /\ \/ stream' = "starting" /\ workQueue' = <<r>>
           \/ stream' = "initial" /\ workQueue' = <<>>
    BY <1>16 DEF Relaunch
  <2>2. /\ r \in Request /\ r.close = 0 /\ n \in Block /\ n.kind = "notify"
    BY <1>t, ElementTypes DEF Request, Notify
  <2> HIDE DEF r, n
  <2>3. /\ <<>> \in Seq(Request) /\ <<>> \in Seq(Block)
        /\ Append(<<>>, r) = <<r>> /\ Append(<<>>, n) = <<n>>
    <3>1. <<>> \in Seq(Request) /\ <<>> \in Seq(Block)
      BY EmptySeq
    <3> QED BY <3>1, <2>2
  <2>4. Asked(<<>>, 0) = 0 /\ Returned(<<>>, 0) = 0 /\ Arriving(<<>>, 0) = 0
    <3>1. \A S : Places(<<>>, S) = {}
      BY DEF Places
    <3> QED BY <3>1, FS_EmptySet DEF Asked, Returned, Arriving
  <2>5. Fetched({}, 0) = 0 /\ IsFiniteSet({})
    <3>1. {f \in {} : f.request.close = 0} = {}
      OBVIOUS
    <3> QED BY <3>1, FS_EmptySet DEF Fetched
  <2>6. Asked(<<r>>, 0) = 1
    <3>1. Asked(Append(<<>>, r), 0) = Asked(<<>>, 0) + IF r.close = 0 THEN 1 ELSE 0
      BY <2>2, <2>3, AskedChanges
    <3>2. Asked(Append(<<>>, r), 0) = 1
      BY <2>2, <2>4, <3>1
    <3> QED BY <2>3, <3>2
  <2>7. Returned(<<n>>, 0) = 0
    <3>1. Returned(Append(<<>>, n), 0) =
            Returned(<<>>, 0) + IF n.kind = "token" /\ n.request.close = 0 THEN 1 ELSE 0
      <4>1. <<>> \in Seq(Block) /\ n \in Block
        BY <2>2, <2>3
      <4> QED BY <4>1, ReturnedChanges, Zenon
    <3>2. Returned(Append(<<>>, n), 0) = 0
      BY <2>2, <2>4, <3>1
    <3> QED BY <2>3, <3>2
  <2>8. Asked(workQueue', closeCount') = IF stream' = "starting" THEN 1 ELSE 0
    BY <2>1, <2>4, <2>6
  <2>9. Returned(mainQueue', closeCount') = 0
    BY <2>1, <2>4, <2>7
  <2>10. Fetched(fetching', closeCount') = 0 /\ Arriving(worker', closeCount') = 0
         /\ IsFiniteSet(fetching')
    BY <2>1, <2>4, <2>5
  <2> QED BY <1>0, <1>g, <2>1, <2>8, <2>9, <2>10
<1> QED
  BY <1>1, <1>3, <1>4, <1>6, <1>7, <1>8, <1>9, <1>10, <1>11, <1>12, <1>13, <1>14, <1>15, <1>16
     DEF Next, WorkStep, MainStep, WorkerStep

LEMMA StutterCount == TypeOK /\ TypeOK' /\ CountInv /\ UNCHANGED vars => CountInv'
<1> SUFFICES ASSUME TypeOK, TypeOK', CountInv, UNCHANGED vars
             PROVE  CountInv'
  OBVIOUS
<1>1. UNCHANGED <<workQueue, fetching, mainQueue, worker, stream, closeCount, assertFailed>>
  BY DEF vars, auth, firestore
<1>2. Awaited' = Awaited /\ Expected' = Expected
  BY <1>1 DEF Awaited, Expected
<1> QED BY <1>1, <1>2, AwaitedIs, AwaitedNext DEF CountInv

\* While a stream is starting exactly one token is on its way to it, and to no
\* other stream of the process: it neither starts twice nor waits for ever.
THEOREM OneToken == Spec => []OneTokenAwaited
<1>1. TypeOK /\ TypeOK' /\ Bounds /\ CountInv /\ [Next]_vars => CountInv'
  BY NextCount, StutterCount
<1>2. CountInv => OneTokenAwaited
  BY DEF CountInv
<1> QED BY <1>1, <1>2, InitCount, TypeCorrect, BoundsHold, PTL DEF Spec

=============================================================================

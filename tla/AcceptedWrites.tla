--------------------------- MODULE AcceptedWrites ---------------------------
(***************************************************************************)
(* What the Firestore client promises an app about its writes, without the *)
(* streams, pipelines and restarts that keep the promise.                  *)
(*                                                                         *)
(* A write that was accepted waits in the queue of the user who made it,   *)
(* whatever becomes of the network or the process.  The backend commits    *)
(* the writes of a queue in order, some of them more than once.  The write *)
(* at the head leaves the queue, acknowledged if the backend committed it, *)
(* or rejected; no write overtakes another or leaves in any other way.     *)
(***************************************************************************)
EXTENDS Naturals, Sequences, SequencesExt

CONSTANTS User, Write

VARIABLES
    pending,    \* the writes that wait, of each user
    outcome,    \* what became of each write
    log         \* the commits of the backend

vars == <<pending, outcome, log>>

Init ==
    /\ pending = [u \in User |-> <<>>]
    /\ outcome = [w \in Write |-> "none"]
    /\ log = <<>>

\* a write is accepted once
Accept(u, w) ==
    /\ outcome[w] = "none"
    /\ outcome' = [outcome EXCEPT ![w] = "accepted"]
    /\ pending' = [pending EXCEPT ![u] = Append(@, w)]
    /\ UNCHANGED log

\* a write is committed, for the first time or again, after those before it
Commit(u, i) ==
    /\ \A j \in 1 .. i - 1 : pending[u][j] \in ToSet(log)
    /\ log' = Append(log, pending[u][i])
    /\ UNCHANGED <<pending, outcome>>

Leave(u, how) ==
    /\ pending[u] # <<>>
    /\ pending' = [pending EXCEPT ![u] = Tail(@)]
    /\ outcome' = [outcome EXCEPT ![Head(pending[u])] = how]
    /\ UNCHANGED log

Acknowledge(u) == Leave(u, "acknowledged") /\ Head(pending[u]) \in ToSet(log)

Reject(u) == Leave(u, "rejected")

Next ==
    \E u \in User :
        \/ \E w \in Write : Accept(u, w)
        \/ \E i \in DOMAIN pending[u] : Commit(u, i)
        \/ Acknowledge(u)
        \/ Reject(u)

Spec == Init /\ [][Next]_vars

=============================================================================

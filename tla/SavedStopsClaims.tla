-------------------------- MODULE SavedStopsClaims --------------------------
(***************************************************************************)
(* What comments, log lines and answers to UIKit in HomePage.swift say of  *)
(* the saved stops, and the code does not do: TLC finds each violated.     *)
(***************************************************************************)
EXTENDS SavedStops

\* canMoveItemAt answers true for every row, so a drag between two rows of an
\* up-to-date screen must not trap.
DragNeverTraps ==
    [][shown = finalTableArray /\ (\E i, j \in DOMAIN shown : MoveItemAt(i, j))
          => app' = "running"]_vars

\* The block of getTimes logs "updating times for" its document: after it, the
\* row of that document finds the new times at its index (cellForItemAt).
NewTimesShown ==
    [][AppendTimes =>
          \A i \in DOMAIN finalTableArray :
             finalTableArray[i] = Head(mainQueue).doc =>
                /\ i \in DOMAIN timeArray'
                /\ timeArray'[i] = [doc |-> Head(mainQueue).doc,
                                    reading |-> Head(mainQueue).reading]]_vars

\* The callback of getSavedStops logs the number of "saved stops": once nothing
\* is under way, that many rows are on the screen.
SavedStopsCounted ==
    Quiet /\ stopsListeners > 0 => Len(shown) = Cardinality(docs)

=============================================================================

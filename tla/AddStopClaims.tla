--------------------------- MODULE AddStopClaims ---------------------------
(***************************************************************************)
(* What the alerts of addStop ask of the user, and the form does not make  *)
(* sure of: TLC finds each violated.                                       *)
(***************************************************************************)
EXTENDS MCAddStop

\* "A station is needed": the stop that TfL is asked for is a station that the
\* picker shows for the chosen line.
AddedStationOnLine == \A r \in stopRequests : r.station \in StationsOf[r.line]

\* "Pick a direction": the direction to be saved is a platform, which is what
\* updateTubeTimes compares it with.
AddedDirectionIsPlatform == \A r \in stopRequests : r.direction \in Platform

=============================================================================

---------------------------- MODULE MCSavedStops ----------------------------
(***************************************************************************)
(* SavedStops for TLC.  Each configuration gives the constants small       *)
(* values; the contents of an arrival-times document are interchangeable.  *)
(***************************************************************************)
EXTENDS SavedStops

ReadingSymmetry == Permutations(Reading)

=============================================================================

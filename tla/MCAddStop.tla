----------------------------- MODULE MCAddStop -----------------------------
(***************************************************************************)
(* AddStop for TLC: two lines with a station each, trains in two           *)
(* directions at the first and in one at the second.                       *)
(***************************************************************************)
EXTENDS AddStop

CONSTANTS l1, l2, angel, bank, east, west, north

MCLine       == {l1, l2}
MCSupported  == {angel, bank}
MCStation    == {PickALine, angel, bank}
MCPlatform   == {east, west, north}
MCStationsOf == [l \in MCLine |-> IF l = l1 THEN {angel} ELSE {bank}]

\* no train of a line stops at the other's station
MCPlatformsOf ==
    [l \in MCLine |-> [s \in MCSupported |->
        CASE l = l1 /\ s = angel -> {east, west}
          [] l = l2 /\ s = bank -> {north}
          [] OTHER -> {}]]

\* removeDuplicates as it is written, a loop over the array
Loop(s) ==
    FoldLeft(LAMBDA result, v : IF v \in ToSet(result) THEN result ELSE Append(result, v),
             <<>>, s)

ASSUME LoopAssumption == \A s \in BoundedSeq(1 .. 4, 5) : FirstValues(s) = Loop(s)

PlatformSymmetry == Permutations({east, west})

=============================================================================

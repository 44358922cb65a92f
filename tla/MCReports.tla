------------------------------ MODULE MCReports ------------------------------
(* Two events alike, one later that day, one on the next day.  Their costs    *)
(* are 40, 50 or 60 units above a multiple of the rollups' last place, so that *)
(* two increments can be off by one unit of it exactly, and three by more.    *)
EXTENDS Reports

CONSTANTS e1, e2, e3, e4, u1, u2

MCUserOf     == e1 :> u1 @@ e2 :> u1 @@ e3 :> u2 @@ e4 :> u1
MCOccurredAt == e1 :> 0 @@ e2 :> 0 @@ e3 :> 3 @@ e4 :> 4
MCCostUsd    == e1 :> 50 @@ e2 :> 50 @@ e3 :> 260 @@ e4 :> 240
Symmetry     == Permutations(Team) \cup Permutations({e1, e2})
=============================================================================

--------------------------- MODULE MCControlPlane ---------------------------
(* A small instance of ControlPlane for TLC: three credentials of two        *)
(* providers, two users, and two of whatever may overlap.  A behaviour is of *)
(* one area, so the areas share their model values and with them a small     *)
(* symmetry: r1 and r2 are the requests, x1 and x2 the rows or users.        *)
EXTENDS ControlPlane, TLC

CONSTANTS x1, x2, x3, p1, p2

MCProviderOf == [c \in Credential |-> IF c = x3 THEN p2 ELSE p1]

Symmetry == Permutations(CredRequest) \cup Permutations({x1, x2})
=============================================================================

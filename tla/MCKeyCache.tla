---------------------------- MODULE MCKeyCache -----------------------------
(* Small instances of KeyCache for TLC. *)
EXTENDS KeyCache

CONSTANTS g1, g2, r1, r2

MCGatewayOf == [r \in Lookup |-> IF r = r1 THEN g1 ELSE g2]
=============================================================================

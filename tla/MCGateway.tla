----------------------------- MODULE MCGateway -----------------------------
(* Two requests of one key, and the payloads of MCMetering.                   *)
EXTENDS Gateway, MCMetering
=============================================================================

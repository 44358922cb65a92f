----------------------------- MODULE MCAccounts -----------------------------
(* Small instances of Members and Sessions for TLC.                           *)
EXTENDS Accounts, TLC

Symmetry == Permutations(Request)
=============================================================================

------------------------------ MODULE Accounts ------------------------------
(***************************************************************************)
(* The people of a workspace: how they become and stay its members           *)
(* (Members), and the sessions of their logins (Sessions).  A session says   *)
(* nothing about memberships and a membership nothing about sessions, so a   *)
(* behaviour is of one of the two.                                           *)
(***************************************************************************)
EXTENDS Members, Sessions

VARIABLE about

accountVars == <<about, vars, sessionVars>>

AccountInit == about \in {"members", "sessions"} /\ Init /\ SessionInit

AccountNext ==
  /\ UNCHANGED about
  /\ \/ about = "members" /\ Next /\ UNCHANGED sessionVars
     \/ about = "sessions" /\ SessionNext /\ UNCHANGED vars

AccountSpec == AccountInit /\ [][AccountNext]_accountVars
=============================================================================

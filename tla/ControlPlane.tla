---------------------------- MODULE ControlPlane ----------------------------
(***************************************************************************)
(* The administration of a workspace: its credentials and keys, its teams    *)
(* and projects, its prices, and the console that shows them.  The four      *)
(* areas share no state, and steps of one commute with steps of another, so  *)
(* a behaviour is of one area: the interleavings that matter are those of    *)
(* the requests within it.                                                   *)
(***************************************************************************)
EXTENDS Credentials, Teams, Prices, Console

VARIABLE area

vars == <<area, credVars, teamVars, priceVars, consoleVars>>

Init ==
  /\ area \in {"credentials", "teams", "prices", "console"}
  /\ CredInit /\ TeamInit /\ PriceInit /\ ConsoleInit
  /\ area # "teams" => \A u \in User : Admin(u)
  /\ area # "console" => watched = "keys"

Next ==
  /\ UNCHANGED area
  /\ \/ area = "credentials" /\ CredNext /\ UNCHANGED <<teamVars, priceVars, consoleVars>>
     \/ area = "teams" /\ TeamNext /\ UNCHANGED <<credVars, priceVars, consoleVars>>
     \/ area = "prices" /\ PriceNext /\ UNCHANGED <<credVars, teamVars, consoleVars>>
     \/ area = "console" /\ ConsoleNext /\ UNCHANGED <<credVars, teamVars, priceVars>>

Spec == Init /\ [][Next]_vars

\* Every variable of every area keeps its type.
TypeOK == CredTypeOK /\ TeamTypeOK /\ PriceTypeOK /\ ConsoleTypeOK
=============================================================================

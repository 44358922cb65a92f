------------------------------ MODULE Gateway ------------------------------
(***************************************************************************)
(* The gateway's proxy: the stages that requests of one key go through side  *)
(* by side (GatewayRequest), and what happens to the payload of one of them  *)
(* (Metering).  The payload of a request depends on no other request and no  *)
(* stage depends on a payload, so a behaviour is of one of the two.          *)
(***************************************************************************)
EXTENDS GatewayRequest, Metering

VARIABLE followed

gatewayVars == <<followed, vars, meterVars>>

AnyCall   == CHOOSE c \in Calls : TRUE
AnyPrices == CHOOSE p \in [catalog : Catalogs, overrides : Overrides] : TRUE

GatewayInit ==
  /\ Init /\ MeterInit
  /\ followed \in {"stages", "payload"}
  /\ followed = "stages" => call = AnyCall /\ prices = AnyPrices

GatewayNext ==
  /\ UNCHANGED followed
  /\ \/ followed = "stages" /\ Next /\ UNCHANGED meterVars
     \/ followed = "payload" /\ MeterNext /\ UNCHANGED vars

GatewaySpec == GatewayInit /\ [][GatewayNext]_gatewayVars /\ Fairness
=============================================================================

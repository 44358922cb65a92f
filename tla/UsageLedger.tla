---------------------------- MODULE UsageLedger ----------------------------
(***************************************************************************)
(* What the usage ledger promises (docs/03, ADR-4): an event that was       *)
(* published may be recorded, recording adds exactly one raw row and        *)
(* exactly one rollup increment in the same step, a row that is present is  *)
(* never recorded again, and pruning a raw row leaves the rollups alone.    *)
(* Nothing here says how events travel: Ingest implements this module.      *)
(***************************************************************************)
EXTENDS Naturals

CONSTANT Event

VARIABLES published,   \* events handed to the ledger
          usage_event, \* raw rows
          charged      \* how often each event was added to the rollups

vars == <<published, usage_event, charged>>

Init == /\ published = {}
        /\ usage_event = {}
        /\ charged = [e \in Event |-> 0]

Publish == /\ \E e \in Event : published' = published \cup {e}
           /\ UNCHANGED <<usage_event, charged>>

Record(S) == /\ S # {}
             /\ S \subseteq published \ usage_event
             /\ usage_event' = usage_event \cup S
             /\ charged' = [e \in Event |-> IF e \in S THEN charged[e] + 1
                                                       ELSE charged[e]]
             /\ UNCHANGED published

Prune(S) == /\ S \subseteq usage_event
            /\ usage_event' = usage_event \ S
            /\ UNCHANGED <<published, charged>>

Next == Publish \/ \E S \in SUBSET Event : Record(S) \/ Prune(S)

Spec == Init /\ [][Next]_vars
=============================================================================

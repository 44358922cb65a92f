------------------------------ MODULE MCIngest ------------------------------
(* Small instances of Ingest for TLC. *)
EXTENDS Ingest, TLC

CONSTANTS e1, e2, project, credential

MCParent == {project, credential}
MCTime == 0..3
MCKeyOf == [e \in Event |-> CHOOSE k \in VirtualKey : TRUE]
MCOccurredAt == [e \in Event |-> IF e = e1 THEN 1 ELSE 2]
\* e2 was refused by the rate limiter: no credential was used.
MCParentsOf == [e \in Event |-> IF e = e1 THEN {project, credential} ELSE {project}]

Symmetry == Permutations(Worker)
=============================================================================

----------------------------- MODULE MCRuntime ------------------------------
(* Instances, dependencies and bounds for model checking Runtime.           *)
EXTENDS Runtime

CONSTANTS app, db, c1, c2, u1

NoDeps    == [n \in Inst |-> {}]
AppOnDb   == [n \in Inst |-> IF n = app THEN {db} ELSE {}]
AppThenDb == {<<app, db>>}
NoRetry   == [n \in Inst |-> 0]
Retry1    == [n \in Inst |-> IF n = app THEN 1 ELSE 0]

=============================================================================

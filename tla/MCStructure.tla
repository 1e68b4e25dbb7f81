---------------------------- MODULE MCStructure ----------------------------
(* Instances of Structure for TLC. *)
EXTENDS Structure, TLC

CONSTANTS db, a, b

\* The second configuration no longer declares b.
DropsB == <<[n \in {db} |-> {a, b}], [n \in {db} |-> {a}]>>

AlikeSyncs == Permutations(Syncer)
=============================================================================

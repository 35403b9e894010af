---------------------------- MODULE MCDeltaIngest ----------------------------
(* Instances of DeltaIngest for TLC. *)
EXTENDS DeltaIngest, TLC

\* DAG runs are interchangeable, and so are the files that any loader accepts;
\* only safety is checked here.
Symmetry == Permutations(Runs) \union Permutations(Files \ (OffSchema \union Unreadable))
=============================================================================

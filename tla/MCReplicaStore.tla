--------------------------- MODULE MCReplicaStore ---------------------------
(***************************************************************************)
(* ReplicaStore for TLC: origins are interchangeable.                      *)
(***************************************************************************)
EXTENDS ReplicaStore, TLC

CONSTANTS o1, o2

Symmetry == Permutations(Origins)
=============================================================================

---------------------------- MODULE MCVectorIndex ----------------------------
(* Two models, one of them at two lengths.                                  *)
EXTENDS VectorIndex, TLC

Small     == [model |-> "nomic", length |-> 1]
Large     == [model |-> "nomic", length |-> 2]
Other     == [model |-> "e5", length |-> 1]
MCSetting == {Small, Large, Other}

Alike == Permutations(Runner) \cup Permutations(Builder)
==============================================================================

---------------------------- MODULE MCNodesPage ----------------------------
(* A small instance of NodesPage for TLC: files with keys are interchangeable. *)
EXTENDS NodesPage, TLC

Symmetry == Permutations(Keys \ {EmptyFile})
=============================================================================

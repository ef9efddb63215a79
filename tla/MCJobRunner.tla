----------------------------- MODULE MCJobRunner -----------------------------
(***************************************************************************)
(* Instances of JobRunner for TLC.                                         *)
(***************************************************************************)
EXTENDS JobRunner, TLC

CONSTANTS a, b, t1, t2, t3, copyAB, moveAB, copyA, deleteA, deleteB

MCOp == [j \in Jobs |-> CASE j \in {copyAB, copyA} -> "copy"
                          [] j = moveAB -> "move"
                          [] OTHER -> "delete"]
MCSource == [j \in Jobs |-> CASE j \in {copyAB, moveAB, copyA, deleteA} -> a
                              [] OTHER -> NoNode]
MCDest == [j \in Jobs |-> CASE j \in {copyAB, moveAB, deleteB} -> b
                            [] OTHER -> NoNode]
OnePath == [j \in Jobs |-> 1]
TwoPaths == [j \in Jobs |-> 2]

AllDelete == [t \in Tasks |-> deleteA]
CopyAndMove == [t \in Tasks |-> IF t = t1 THEN copyAB ELSE moveAB]
\* one job lacks the destination it needs
CopyAndBroken == [t \in Tasks |-> IF t = t1 THEN copyAB ELSE copyA]

TaskSymmetry == Permutations(Tasks)
=============================================================================

---------------------------- MODULE MCNodeMonitor ----------------------------
(***************************************************************************)
(* Instances of NodeMonitor for TLC.                                       *)
(***************************************************************************)
EXTENDS NodeMonitor

CONSTANTS a, b, t1, t2, copyAB, deleteB

MCOp == [j \in Jobs |-> IF j = copyAB THEN "copy" ELSE "delete"]
MCSource == [j \in Jobs |-> IF j = copyAB THEN a ELSE NoNode]
MCDest == [j \in Jobs |-> b]
MCPaths == [j \in Jobs |-> 1]
MCJobOf == [t \in Tasks |-> IF copyAB \in Jobs THEN copyAB ELSE deleteB]
=============================================================================

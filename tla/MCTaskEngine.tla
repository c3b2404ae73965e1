---------------------------- MODULE MCTaskEngine ----------------------------
(* Instances of TaskEngine for TLC. *)
EXTENDS TaskEngine

CONSTANTS t1, t2, w1, w2

\* t1 goes before t2.
MCPriority == [t \in Tasks |-> IF t = t1 THEN 1 ELSE 0]
MCAllCapable == Workers \X Tasks
=============================================================================

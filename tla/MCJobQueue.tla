----------------------------- MODULE MCJobQueue -----------------------------
(* Small instances of JobQueue for TLC. *)
EXTENDS JobQueue, TLC

\* The jobs of a scan share one priority.
MCPriority == [j \in Jobs |-> 1]
=============================================================================

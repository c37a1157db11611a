----------------------------- MODULE MCTaskManager -----------------------------
(* Instances of TaskManager for TLC.                                       *)
EXTENDS TaskManager

\* Two tasks: a slow one, and one with a period shorter than a loop round.
MCPeriods == <<5, 2>>

=============================================================================

------------------------------ MODULE SwarmNames ------------------------------
(***************************************************************************)
(* The names the task store and SkyPilot share.  executor_name derives a   *)
(* distinct job name from every task_id, so a task stands for its name.    *)
(***************************************************************************)
EXTENDS Integers, FiniteSets

CONSTANTS
    Tasks,     \* task_id
    JobId,     \* managed job ids SkyPilot can give: a bounded pool, in order
    NoJob      \* job_id NULL

ASSUME NamesAssumption ==
    /\ IsFiniteSet(Tasks)
    /\ JobId \subseteq Nat
    /\ NoJob \notin JobId
=============================================================================

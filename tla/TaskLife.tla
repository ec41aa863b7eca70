------------------------------ MODULE TaskLife ------------------------------
(***************************************************************************)
(* The life of a task as one leader at a time leads it: what its status    *)
(* may become, without jobs, times or processes.  SwarmController          *)
(* implements it as long as passes are shorter than the lease; Workflow    *)
(* builds on it.                                                           *)
(***************************************************************************)
CONSTANT Tasks    \* task_id

VARIABLE status   \* the status column, or "ABSENT"

Ended == {"SUCCEEDED", "FAILED", "CANCELLED"}
Observed == {"SUBMITTED", "RUNNING"} \cup Ended
Statuses == {"ABSENT", "PENDING", "SUBMITTING"} \cup Observed

\* What observe_job may make of a status; a recovering job counts as running.
Follows(s) ==
    CASE s = "SUBMITTED" -> {"RUNNING"} \cup Ended
      [] s = "RUNNING" -> Ended
      [] OTHER -> {}

Become(t, s) == status' = [status EXCEPT ![t] = s]

LifeInit == status = [t \in Tasks |-> "ABSENT"]

\* submit_workflow inserts the rows of its components; submit_task and replace_component
\* insert one.
EnterTasks(S) ==
    /\ \A t \in S : status[t] = "ABSENT"
    /\ status' = [t \in Tasks |-> IF t \in S THEN "PENDING" ELSE status[t]]

EnterTask(t) == EnterTasks({t})

\* reserve_submissions admits some of the waiting tasks.
AdmitTasks(S) ==
    /\ \A t \in S : status[t] = "PENDING"
    /\ status' = [t \in Tasks |-> IF t \in S THEN "SUBMITTING" ELSE status[t]]

\* bind_job.
BindTask(t) == status[t] = "SUBMITTING" /\ Become(t, "SUBMITTED")

\* reset_submission.
ResetTask(t) == status[t] = "SUBMITTING" /\ Become(t, "PENDING")

\* Mutant: a job is observed again after its end.
ObserveAlways(t, s) == status[t] \in Observed \ {s} /\ Become(t, s)

\* observe_job.
ObserveTask(t, s) == s \in Follows(status[t]) /\ Become(t, s)

\* fail_task: the handler cannot build the job.
FailTask(t) == status[t] = "SUBMITTING" /\ Become(t, "FAILED")

LifeNext ==
    \/ \E S \in SUBSET Tasks : EnterTasks(S) \/ AdmitTasks(S)
    \/ \E t \in Tasks : BindTask(t) \/ ResetTask(t) \/ FailTask(t)
    \/ \E t \in Tasks, s \in Observed : ObserveTask(t, s)

LifeSpec == LifeInit /\ [][LifeNext]_status
=============================================================================

----------------------------- MODULE ManagedJobs -----------------------------
(***************************************************************************)
(* SkyPilot Managed Jobs as backend.py uses it: a launch request that      *)
(* becomes a job some time later or is refused, jobs that run, recover,    *)
(* finish or are cancelled by a user, and a queue that lists every job     *)
(* with its name and status.  Finished jobs stay listed (skip_finished is  *)
(* False).  SkyPilot itself is not part of the repository.                 *)
(***************************************************************************)
EXTENDS SwarmNames

CONSTANTS
    NoTask,      \* name of a job id not in use
    MaxDelay     \* seconds from a launch request to its acceptance or refusal

ASSUME JobsAssumption ==
    /\ NoTask \notin Tasks
    /\ MaxDelay \in Nat

VARIABLES
    jobs         \* each job's name, status and, while requested, its wait

FreeSlot == [name |-> NoTask, status |-> "NONE", wait |-> 0]

Finished == {"SUCCEEDED", "FAILED", "CANCELLED"}
Running == {"PENDING", "RUNNING", "RECOVERING"}
Listed == Running \cup {"CANCELLING"} \cup Finished

JobsInit == jobs = [j \in JobId |-> FreeSlot]

\* jobs.launch is called: the request reaches the API server.
Request(t, j) ==
    /\ jobs[j] = FreeSlot
    /\ jobs' = [jobs EXCEPT ![j] = [name |-> t, status |-> "REQUESTED", wait |-> 0]]

\* The job is written to SkyPilot's database and is listed from now on.
Accept(j) ==
    /\ jobs[j].status = "REQUESTED"
    /\ jobs' = [jobs EXCEPT ![j].status = "PENDING", ![j].wait = 0]

\* The request ends in an error and no job exists.
Refuse(j) ==
    /\ jobs[j].status = "REQUESTED"
    /\ jobs' = [jobs EXCEPT ![j] = FreeSlot]

\* What a job may do next; recovery is SkyPilot's own.
Moves(s) ==
    CASE s = "PENDING" -> {"RUNNING", "FAILED", "CANCELLING"}
      [] s = "RUNNING" -> {"RECOVERING", "SUCCEEDED", "FAILED", "CANCELLING"}
      [] s = "RECOVERING" -> {"RUNNING", "FAILED", "CANCELLING"}
      [] s = "CANCELLING" -> {"CANCELLED"}
      [] OTHER -> {}

Move(j, s) ==
    /\ s \in Moves(jobs[j].status)
    /\ jobs' = [jobs EXCEPT ![j].status = s]

\* A second passes; no request waits longer than MaxDelay.
JobsTick ==
    /\ \A j \in JobId : jobs[j].status = "REQUESTED" => jobs[j].wait < MaxDelay
    /\ jobs' = [j \in JobId |->
                  IF jobs[j].status = "REQUESTED"
                    THEN [jobs[j] EXCEPT !.wait = @ + 1] ELSE jobs[j]]

JobsTypeOK ==
    jobs \in [JobId -> [name : Tasks \cup {NoTask},
                        status : Listed \cup {"NONE", "REQUESTED"},
                        wait : 0..MaxDelay]]
=============================================================================

------------------------------ MODULE TaskStore ------------------------------
(***************************************************************************)
(* The tables tasks and resource_policies of SwarmStore, for standalone    *)
(* tasks (workflow_id NULL): one operator per BEGIN IMMEDIATE transaction, *)
(* an atomic step of whoever calls it.  submission_started_at is kept as   *)
(* age, the seconds since it, and only while it is read, that is in        *)
(* SUBMITTING.                                                             *)
(***************************************************************************)
EXTENDS SwarmNames

CONSTANTS
    Classes,        \* resource_class
    ClassOf,        \* the resource_class of each task
    PriorityOf,     \* the priority of each task
    Recovery,       \* Priority.ORDINARY_RECOVERY
    Policies,       \* the policies an operator may set: [target, reserve]
    NoPolicy,       \* no row in resource_policies
    BatchSize,      \* submission_batch_size
    MaxAge          \* ages are cut off here

ASSUME StoreAssumption ==
    /\ ClassOf \in [Tasks -> Classes]
    /\ PriorityOf \in [Tasks -> -1000..1000]
    /\ Recovery \in -1000..1000
    /\ Policies \subseteq [target : Nat, reserve : Nat]
    /\ \A p \in Policies : p.reserve < p.target
    /\ NoPolicy \notin Policies
    /\ BatchSize \in Nat \ {0}
    /\ MaxAge \in Nat

VARIABLES
    status,    \* the status column, or "ABSENT"
    jobOf,     \* the job_id column
    age,       \* seconds since submission_started_at, 0 unless SUBMITTING
    created,   \* rank of the task by created_at, task_id; 0 if absent
    policy     \* resource_policies

storeVars == <<status, jobOf, age, created, policy>>

Terminal == {"SUCCEEDED", "FAILED", "CANCELLED"}
Occupying == {"SUBMITTING", "SUBMITTED", "RUNNING"}
TaskStatus == {"PENDING"} \cup Occupying \cup Terminal

StoreInit ==
    /\ status = [t \in Tasks |-> "ABSENT"]
    /\ jobOf = [t \in Tasks |-> NoJob]
    /\ age = [t \in Tasks |-> 0]
    /\ created = [t \in Tasks |-> 0]
    /\ policy = [k \in Classes |-> NoPolicy]

Present == {t \in Tasks : status[t] # "ABSENT"}

\* submit_task of a new task_id; a second submission of it changes nothing.  created_at is
\* read before the transaction waits for its turn, so that the new row may come before
\* rows that are already there.
Submit(t) ==
    /\ status[t] = "ABSENT"
    /\ status' = [status EXCEPT ![t] = "PENDING"]
    /\ \E rank \in 1..Cardinality(Present) + 1 :
         created' = [u \in Tasks |-> IF u = t THEN rank
                                    ELSE IF created[u] >= rank THEN created[u] + 1
                                    ELSE created[u]]
    /\ UNCHANGED <<jobOf, age, policy>>

\* set_resource_policy.
SetPolicy(k, p) ==
    /\ policy[k] # p
    /\ policy' = [policy EXCEPT ![k] = p]
    /\ UNCHANGED <<status, jobOf, age, created>>

-----------------------------------------------------------------------------
(* reserve_submissions                                                     *)

Pending == {t \in Tasks : status[t] = "PENDING"}

\* Mutant: every task that was ever admitted is counted, ended or not.
ActiveEver(k) == Cardinality({t \in Tasks : ClassOf[t] = k /\ status[t] \in Occupying \cup Terminal})

\* Number of the tasks of a class that occupy a slot.
Active(k) == Cardinality({t \in Tasks : ClassOf[t] = k /\ status[t] \in Occupying})

IsRecovery(t) == PriorityOf[t] >= Recovery

\* Mutant: every priority may use the recovery reserve.
CapacityNoReserve(t) == policy[ClassOf[t]].target

\* Slots of the class that t may use; an ordinary task leaves the reserve alone.
Capacity(t) ==
    LET p == policy[ClassOf[t]] IN
    IF IsRecovery(t) THEN p.target ELSE p.target - p.reserve

\* ORDER BY priority DESC, created_at, task_id.
Before(t, u) ==
    \/ PriorityOf[t] > PriorityOf[u]
    \/ PriorityOf[t] = PriorityOf[u] /\ created[t] < created[u]

\* The loop reaches t with room for it, when S is what the loop admits.
Fits(t, S) ==
    LET earlier == {u \in S : Before(u, t)}
        count == Active(ClassOf[t])
                   + Cardinality({u \in earlier : ClassOf[u] = ClassOf[t]})
    IN  /\ Cardinality(earlier) < BatchSize
        /\ policy[ClassOf[t]] = NoPolicy \/ count < Capacity(t)

\* S is what one call admits: walking the pending tasks in order, each that fits.
Admits(S) == \A t \in Pending : t \in S <=> Fits(t, S)

\* reserve_submissions admits S; the caller read the clock elapsed seconds ago.
Reserve(S, elapsed) ==
    /\ S \subseteq Pending
    /\ Admits(S)
    /\ status' = [t \in Tasks |-> IF t \in S THEN "SUBMITTING" ELSE status[t]]
    /\ age' = [t \in Tasks |-> IF t \in S THEN elapsed ELSE age[t]]
    /\ UNCHANGED <<jobOf, created, policy>>

-----------------------------------------------------------------------------
\* The UNIQUE constraint on tasks.job_id.
FreeFor(t, j) == \A u \in Tasks : u # t => jobOf[u] # j

\* bind_job finds its row and no other task has the job.
MayBind(t, j) == status[t] \in {"SUBMITTING", "SUBMITTED"} /\ FreeFor(t, j)

Bind(t, j) ==
    /\ MayBind(t, j)
    /\ status' = [status EXCEPT ![t] = "SUBMITTED"]
    /\ jobOf' = [jobOf EXCEPT ![t] = j]
    /\ age' = [age EXCEPT ![t] = 0]
    /\ UNCHANGED <<created, policy>>

\* Mutant: the WHERE clause of reset_submission lacks the status.
MayResetAny(t) == TRUE

\* reset_submission finds its row.
MayReset(t) == status[t] = "SUBMITTING"

Reset(t) ==
    /\ MayReset(t)
    /\ status' = [status EXCEPT ![t] = "PENDING"]
    /\ age' = [age EXCEPT ![t] = 0]
    /\ UNCHANGED <<jobOf, created, policy>>

\* fail_task, whatever the status was.
Fail(t) ==
    /\ status' = [status EXCEPT ![t] = "FAILED"]
    /\ age' = [age EXCEPT ![t] = 0]
    /\ UNCHANGED <<jobOf, created, policy>>

\* Mutant: the job's status is taken over as it is.
TaskStatusRaw(executor) == executor

\* Mutant: every job that is gone from the queue counts as a success.
TaskStatusFinished(executor) ==
    CASE executor = "FAILED" -> "FAILED"
      [] executor \in {"SUCCEEDED", "CANCELLED", "CANCELLING"} -> "SUCCEEDED"
      [] executor \in {"RUNNING", "RECOVERING"} -> "RUNNING"
      [] OTHER -> "SUBMITTED"

\* _task_status: what a managed job's status means for its task.
TaskStatusOf(executor) ==
    CASE executor = "SUCCEEDED" -> "SUCCEEDED"
      [] executor = "FAILED" -> "FAILED"
      [] executor \in {"CANCELLED", "CANCELLING"} -> "CANCELLED"
      [] executor \in {"RUNNING", "RECOVERING"} -> "RUNNING"
      [] OTHER -> "SUBMITTED"

\* observe_job, whatever the status was.
Observe(t, j, executor) ==
    /\ FreeFor(t, j)
    /\ status' = [status EXCEPT ![t] = TaskStatusOf(executor)]
    /\ jobOf' = [jobOf EXCEPT ![t] = j]
    /\ age' = [age EXCEPT ![t] = 0]
    /\ UNCHANGED <<created, policy>>

\* A second passes.
StoreTick ==
    /\ age' = [t \in Tasks |->
                 IF status[t] = "SUBMITTING" /\ age[t] < MaxAge THEN age[t] + 1
                                                                ELSE age[t]]
    /\ UNCHANGED <<status, jobOf, created, policy>>

StoreTypeOK ==
    /\ status \in [Tasks -> TaskStatus \cup {"ABSENT"}]
    /\ jobOf \in [Tasks -> JobId \cup {NoJob}]
    /\ age \in [Tasks -> 0..MaxAge]
    /\ created \in [Tasks -> Nat]
    /\ policy \in [Classes -> Policies \cup {NoPolicy}]
=============================================================================

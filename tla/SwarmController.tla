--------------------------- MODULE SwarmController ---------------------------
(***************************************************************************)
(* Reconciliation: the processes that run reconcile_once over one task     *)
(* store, SkyPilot's queue and the lease.  Every transaction, every await  *)
(* of the backend and every read of the store is a step of its own, so     *)
(* that processes, submitters, SkyPilot and crashes interleave as they can *)
(* in the program.                                                         *)
(*                                                                         *)
(* A pass reads the clock once (now); passAge is the time since.  With     *)
(* standalone tasks there is no ACTIVE workflow, so the workflow phase of  *)
(* the pass changes nothing.                                               *)
(***************************************************************************)
EXTENDS TaskStore, ManagedJobs, LeaseTimer

CONSTANTS
    Grace,         \* submission_grace_seconds
    MaxPass,       \* bound on the length of a pass: the code sets none
    MaxUp,         \* processes the deployment runs at a time
    MaxCrashes,    \* bound on crashes
    LostReplies    \* whether a launch can raise although SkyPilot has the request

ASSUME ControllerAssumption ==
    /\ Grace \in Nat
    /\ MaxPass \in Nat
    /\ MaxUp \in Nat
    /\ MaxCrashes \in Nat
    /\ LostReplies \in BOOLEAN
    /\ MaxAge >= Grace + MaxPass

VARIABLES
    pc,         \* where reconcile_once is
    passAge,    \* seconds since the pass read the clock
    seen,       \* the listing (by_id, by_name): status of each job listed
    todo,       \* rows of list_tasks still to handle, with what to do for each
    batch,      \* rows of reserve_submissions not yet launched
    call,       \* the job the awaited launch asked for
    crashes     \* crashes so far

localVars == <<pc, passAge, seen, todo, batch, call>>
vars == <<storeVars, jobs, leaseVars, localVars, crashes>>

Unseen == [j \in JobId |-> "NONE"]

Init ==
    /\ StoreInit
    /\ JobsInit
    /\ LeaseInit
    /\ pc = [c \in Controllers |-> "down"]
    /\ passAge = [c \in Controllers |-> 0]
    /\ seen = [c \in Controllers |-> Unseen]
    /\ todo = [c \in Controllers |-> {}]
    /\ batch = [c \in Controllers |-> {}]
    /\ call = [c \in Controllers |-> NoJob]
    /\ crashes = 0

\* Everything but the store, the jobs, the lease or the local state changes.
OnlyStore == UNCHANGED <<jobs, leaseVars, crashes>>
NoStore == UNCHANGED <<storeVars, jobs, crashes>>

\* c goes on at the given place, with its other local variables.
Goto(c, place) == pc' = [pc EXCEPT ![c] = place]

\* c leaves the pass: its local variables are gone.
Leave(c, place) ==
    /\ Goto(c, place)
    /\ passAge' = [passAge EXCEPT ![c] = 0]
    /\ seen' = [seen EXCEPT ![c] = Unseen]
    /\ todo' = [todo EXCEPT ![c] = {}]
    /\ batch' = [batch EXCEPT ![c] = {}]
    /\ call' = [call EXCEPT ![c] = NoJob]

\* An exception leaves reconcile_once and ends the task that runs run_forever.
Die(c) == Leave(c, "dead") /\ UNCHANGED <<storeVars, jobs, leaseVars, crashes>>

InPass(c) == pc[c] \notin {"down", "idle", "dead"}

-----------------------------------------------------------------------------
(* Leadership: the head of the pass.  now is the present.                  *)

\* acquire_leadership if there is no lease, then renew_leadership: c leads.
Lead(c) ==
    /\ pc[c] = "idle"
    /\ \/ TakeLease(c, LeaseSeconds)
       \/ KeepLease(c, LeaseSeconds) /\ leaseLeft >= 0
    /\ Goto(c, "leading")
    /\ UNCHANGED <<passAge, seen, todo, batch, call>>
    /\ NoStore

\* renew_leadership raises LeadershipLostError: the pass ends, the lease is dropped.
\* A refused acquire_leadership changes nothing at all.
LoseLead(c) ==
    /\ pc[c] = "idle"
    /\ LoseLease(c)
    /\ UNCHANGED localVars
    /\ NoStore

-----------------------------------------------------------------------------
(* The listing and the scan.                                               *)

\* list_jobs answers: what the queue holds now is what this pass knows of it.
ListJobs(c) ==
    /\ pc[c] = "leading"
    /\ seen' = [seen EXCEPT ![c] =
                  [j \in JobId |->
                     IF jobs[j].status \in Listed THEN jobs[j].status ELSE "NONE"]]
    /\ Goto(c, "listed")
    /\ UNCHANGED <<passAge, todo, batch, call, leaseVars>>
    /\ NoStore

\* list_jobs raises BackendUnavailableError: the pass ends.
ListFails(c) ==
    /\ pc[c] = "leading"
    /\ Leave(c, "idle")
    /\ UNCHANGED leaseVars
    /\ NoStore

\* Mutant: names are compared after truncation, and any listed job matches.
NamedTruncated(c, t) == {j \in JobId : seen[c][j] # "NONE"}

\* by_name: the listed jobs of the task's name.
Named(c, t) == {j \in JobId : seen[c][j] # "NONE" /\ jobs[j].name = t}

\* by_id.get(task.job_id) or by_name.get(task.job_name).
JobsFor(c, t) ==
    IF jobOf[t] # NoJob /\ seen[c][jobOf[t]] # "NONE" THEN {jobOf[t]} ELSE Named(c, t)

\* Mutant: the grace window is taken to be over one second early.
GraceOverEarly(c, t) == age[t] - passAge[c] >= Grace - 1

\* Mutant: the two times are subtracted the wrong way round.
GraceOverSwapped(c, t) == passAge[c] - age[t] >= Grace

\* The submission of t has waited for submission_grace_seconds when the pass began.
GraceOver(c, t) == age[t] - passAge[c] >= Grace

\* What the scan does for t, given the row as it is now; nothing for most rows.
Duty(c, t) ==
    IF status[t] = "SUBMITTING" THEN
        IF Named(c, t) # {} THEN {[task |-> t, do |-> "adopt", job |-> j] : j \in Named(c, t)}
        ELSE IF GraceOver(c, t) THEN {[task |-> t, do |-> "expire", job |-> NoJob]}
        ELSE {}
    ELSE IF jobOf[t] # NoJob /\ status[t] \notin Terminal THEN
        {[task |-> t, do |-> "observe", job |-> j] : j \in JobsFor(c, t)}
    ELSE {}

\* list_tasks: one row for every task, kept when the scan will do something with it.
ListTasks(c) ==
    /\ pc[c] = "listed"
    /\ \E rows \in SUBSET UNION {Duty(c, t) : t \in Tasks} :
         /\ \A t \in Tasks : Duty(c, t) # {} => \E r \in rows : r.task = t
         /\ \A q, r \in rows : q.task = r.task => q = r
         /\ todo' = [todo EXCEPT ![c] = rows]
    /\ Goto(c, "scan")
    /\ UNCHANGED <<passAge, seen, batch, call, leaseVars>>
    /\ NoStore

\* The row the scan is at: rows come ORDER BY created_at, task_id.
AtRow(c, r) ==
    /\ pc[c] = "scan"
    /\ r \in todo[c]
    /\ \A q \in todo[c] : created[r.task] <= created[q.task]

NextRows(c, r, more) == todo' = [todo EXCEPT ![c] = (@ \ {r}) \cup more]

\* bind_job of a SUBMITTING row to the job of its name.
Adopt(c, r) ==
    /\ AtRow(c, r) /\ r.do = "adopt"
    /\ IF MayBind(r.task, r.job)
         THEN /\ Bind(r.task, r.job)
              /\ NextRows(c, r, {[r EXCEPT !.do = "reread"]})
              /\ UNCHANGED <<pc, passAge, seen, batch, call>>
              /\ OnlyStore
         ELSE Die(c)

\* get_task after an adoption; the row is then observed like the others.
Reread(c, r) ==
    /\ AtRow(c, r) /\ r.do = "reread"
    /\ IF jobOf[r.task] # NoJob /\ status[r.task] \notin Terminal
         THEN \E j \in JobsFor(c, r.task) :
                NextRows(c, r, {[r EXCEPT !.do = "observe", !.job = j]})
         ELSE NextRows(c, r, {})
    /\ UNCHANGED <<pc, passAge, seen, batch, call, leaseVars>>
    /\ NoStore

\* reset_submission after the grace window.
Expire(c, r) ==
    /\ AtRow(c, r) /\ r.do = "expire"
    /\ IF MayReset(r.task)
         THEN /\ Reset(r.task)
              /\ NextRows(c, r, {})
              /\ UNCHANGED <<pc, passAge, seen, batch, call>>
              /\ OnlyStore
         ELSE Die(c)

\* observe_job with the status the listing gave.
ObserveRow(c, r) ==
    /\ AtRow(c, r) /\ r.do = "observe"
    /\ IF FreeFor(r.task, r.job)
         THEN /\ Observe(r.task, r.job, seen[c][r.job])
              /\ NextRows(c, r, {})
              /\ UNCHANGED <<pc, passAge, seen, batch, call>>
              /\ OnlyStore
         ELSE Die(c)

-----------------------------------------------------------------------------
(* Admission and launches.                                                 *)

\* reserve_submissions; with nothing admitted the pass ends.
ReserveBatch(c) ==
    /\ pc[c] = "scan" /\ todo[c] = {}
    /\ \E S \in SUBSET Pending :
         /\ Reserve(S, passAge[c])
         /\ IF S = {} THEN Leave(c, "idle")
            ELSE /\ batch' = [batch EXCEPT ![c] = S]
                 /\ seen' = [seen EXCEPT ![c] = Unseen]
                 /\ Goto(c, "launch")
                 /\ UNCHANGED <<passAge, todo, call>>
    /\ OnlyStore

\* The task the launch loop is at.
AtTask(c, t) == t \in batch[c] /\ \A u \in batch[c] \ {t} : Before(t, u)

\* The launch loop goes on after t.
NextTask(c, t) ==
    IF batch[c] = {t} THEN Leave(c, "idle")
    ELSE /\ batch' = [batch EXCEPT ![c] = @ \ {t}]
         /\ call' = [call EXCEPT ![c] = NoJob]
         /\ Goto(c, "launch")
         /\ UNCHANGED <<passAge, seen, todo>>

\* managed_job raises: fail_task, and the loop continues.
BuildFails(c, t) ==
    /\ pc[c] = "launch" /\ AtTask(c, t)
    /\ Fail(t)
    /\ NextTask(c, t)
    /\ OnlyStore

\* backend.launch is called and awaited.
Launch(c, t) ==
    /\ pc[c] = "launch" /\ AtTask(c, t)
    /\ \E j \in JobId :
         /\ \A i \in JobId : jobs[i] = FreeSlot => j <= i
         /\ Request(t, j)
         /\ call' = [call EXCEPT ![c] = j]
    /\ Goto(c, "await")
    /\ UNCHANGED <<passAge, seen, todo, batch, storeVars, leaseVars, crashes>>

\* The launch returns its job id: bind_job.
LaunchReturns(c, t) ==
    /\ pc[c] = "await" /\ AtTask(c, t)
    /\ jobs[call[c]].status \in Listed
    /\ IF MayBind(t, call[c])
         THEN Bind(t, call[c]) /\ NextTask(c, t) /\ OnlyStore
         ELSE Die(c)

\* reset_submission after a failed launch, and the rest of the batch is left alone.
GiveUp(c, t) == Reset(t) /\ Leave(c, "idle")

\* SkyPilot refuses the launch: BackendUnavailableError.
LaunchRefused(c, t) ==
    /\ pc[c] = "await" /\ AtTask(c, t)
    /\ Refuse(call[c])
    /\ IF MayReset(t)
         THEN GiveUp(c, t)
         ELSE Leave(c, "dead") /\ UNCHANGED storeVars
    /\ UNCHANGED <<leaseVars, crashes>>

\* The answer is lost: BackendUnavailableError although SkyPilot has the request.
LaunchLost(c, t) ==
    /\ LostReplies
    /\ pc[c] = "await" /\ AtTask(c, t)
    /\ IF MayReset(t)
         THEN GiveUp(c, t) /\ OnlyStore
         ELSE Die(c)

-----------------------------------------------------------------------------
(* Processes and the rest of the world.                                    *)

Start(c) ==
    /\ pc[c] = "down"
    /\ Cardinality({d \in Controllers : pc[d] # "down"}) < MaxUp
    /\ Goto(c, "idle")
    /\ UNCHANGED <<passAge, seen, todo, batch, call, leaseVars>>
    /\ NoStore

\* The process dies; a launch it was waiting for goes on in SkyPilot.
Crash(c) ==
    /\ pc[c] # "down" /\ crashes < MaxCrashes
    /\ crashes' = crashes + 1
    /\ DropLease(c)
    /\ Leave(c, "down")
    /\ UNCHANGED <<storeVars, jobs>>

\* POST /v1/tasks.
SubmitTask(t) ==
    /\ Submit(t)
    /\ UNCHANGED <<jobs, leaseVars, localVars, crashes>>

\* PUT /v1/resources/{resource_class}.
ChangePolicy(k, p) ==
    /\ SetPolicy(k, p)
    /\ UNCHANGED <<jobs, leaseVars, localVars, crashes>>

\* SkyPilot takes up a request, or drops one nobody waits for, or runs a job.
AcceptJob(j) ==
    /\ Accept(j)
    /\ UNCHANGED <<storeVars, leaseVars, localVars, crashes>>

RefuseJob(j) ==
    /\ \A c \in Controllers : call[c] # j
    /\ Refuse(j)
    /\ UNCHANGED <<storeVars, leaseVars, localVars, crashes>>

MoveJob(j, s) ==
    /\ Move(j, s)
    /\ UNCHANGED <<storeVars, leaseVars, localVars, crashes>>

\* A second passes for everyone; a pass lasts at most MaxPass.
Tick ==
    /\ \A c \in Controllers : InPass(c) => passAge[c] < MaxPass
    /\ passAge' = [c \in Controllers |->
                     IF InPass(c) THEN passAge[c] + 1 ELSE passAge[c]]
    /\ StoreTick
    /\ JobsTick
    /\ LeaseTick
    /\ UNCHANGED <<pc, seen, todo, batch, call, crashes>>

ScanStep(c) ==
    \E r \in todo[c] : Adopt(c, r) \/ Reread(c, r) \/ Expire(c, r) \/ ObserveRow(c, r)

\* The steps the process takes by itself.
Run(c) ==
    \/ Lead(c) \/ LoseLead(c) \/ ListTasks(c) \/ ScanStep(c) \/ ReserveBatch(c)
    \/ \E t \in Tasks : BuildFails(c, t) \/ Launch(c, t)

Next ==
    \/ \E c \in Controllers :
         \/ Run(c)
         \/ ListJobs(c) \/ ListFails(c)
         \/ \E t \in Tasks :
              LaunchReturns(c, t) \/ LaunchRefused(c, t) \/ LaunchLost(c, t)
         \/ Start(c) \/ Crash(c)
    \/ \E t \in Tasks : SubmitTask(t)
    \/ \E k \in Classes, p \in Policies : ChangePolicy(k, p)
    \/ \E j \in JobId : AcceptJob(j) \/ RefuseJob(j)
    \/ \E j \in JobId, s \in Listed : MoveJob(j, s)
    \/ Tick

Spec == Init /\ [][Next]_vars

-----------------------------------------------------------------------------
PassTypeOK ==
    /\ pc \in [Controllers -> {"down", "idle", "leading", "listed", "scan",
                               "launch", "await", "dead"}]
    /\ passAge \in [Controllers -> 0..MaxPass]
    /\ seen \in [Controllers -> [JobId -> Listed \cup {"NONE"}]]
    /\ todo \in [Controllers -> SUBSET [task : Tasks, job : JobId \cup {NoJob},
                                        do : {"adopt", "reread", "expire", "observe"}]]
    /\ batch \in [Controllers -> SUBSET Tasks]
    /\ call \in [Controllers -> JobId \cup {NoJob}]
    /\ crashes \in 0..MaxCrashes

TypeOK == StoreTypeOK /\ JobsTypeOK /\ LeaseTypeOK /\ PassTypeOK

\* No task is ever launched twice: whatever crashes between the launch request and the
\* recording of its job id, the grace window and adoption by name keep reconcile_once
\* from asking for a second job of the same name.
NoDuplicateJob ==
    \A i, j \in JobId :
        jobs[i].name = jobs[j].name /\ jobs[i].name # NoTask => i = j

Live(j) == jobs[j].status \in Running \cup {"REQUESTED"}

\* Workers the class has to provide: its live jobs, and its admitted tasks without one.
Load(k) ==
    Cardinality({j \in JobId : Live(j) /\ ClassOf[jobs[j].name] = k})
    + Cardinality({t \in Tasks : /\ ClassOf[t] = k /\ status[t] = "SUBMITTING"
                                 /\ \A j \in JobId : jobs[j].name = t => ~Live(j)})

\* When an ordinary task is admitted, the jobs SkyPilot really runs for its class, the
\* new task included, leave the recovery reserve of the pool idle, although
\* reserve_submissions counts rows of its own table and not jobs.
AdmissionKeepsReserve ==
    [][\A t \in Tasks :
         LET p == policy[ClassOf[t]] IN
         (/\ status[t] = "PENDING" /\ status'[t] = "SUBMITTING"
          /\ ~IsRecovery(t) /\ p # NoPolicy)
           => Load(ClassOf[t])' <= p.target - p.reserve]_vars

Life == INSTANCE TaskLife

\* With passes shorter than the lease every task lives the plain life of TaskLife, on which
\* Workflow builds: through listings, adoptions, expiries and refusals no status is
\* skipped, repeated or taken back (observe_job and fail_task overwrite any status, a
\* terminal one included).
ImplementsTaskLife == Life!LifeSpec

\* No pass ends in a conflict (bind_job, reset_submission and observe_job raise when the
\* row is not as they expect, and run_forever catches nothing).
ControllerSurvives == \A c \in Controllers : pc[c] # "dead"

\* Only SkyPilot's word makes a task succeed, and it names the job that did: even with
\* overlapping leaders and stale listings a SUCCEEDED row points to a job of the task's
\* own name that SUCCEEDED (observe_job writes status and job_id together).
SucceededIsTrue ==
    \A t \in Tasks : status[t] = "SUCCEEDED" =>
        /\ jobOf[t] # NoJob
        /\ jobs[jobOf[t]].name = t /\ jobs[jobOf[t]].status = "SUCCEEDED"

\* A row names only a job launched under the task's own name (adoption by name, binding
\* by the awaited launch, the fallback from by_id to by_name), and never before
\* SkyPilot has that job.
BoundToOwnJob ==
    \A t \in Tasks : jobOf[t] # NoJob =>
        jobs[jobOf[t]].name = t /\ jobs[jobOf[t]].status \in Listed

\* A task that waits for admission or for its launch has no job id, whoever reset it: a
\* later pass would otherwise observe a job that is not the one it launches.
UnlaunchedHasNoJob ==
    \A t \in Tasks :
        status[t] \in {"ABSENT", "PENDING", "SUBMITTING"} => jobOf[t] = NoJob

\* A listing may be old, but what it lists stays listed, and success is final.
SeenIsListed ==
    \A c \in Controllers, j \in JobId : seen[c][j] # "NONE" =>
        /\ jobs[j].status \in Listed
        /\ seen[c][j] = "SUCCEEDED" => jobs[j].status = "SUCCEEDED"

\* A row still to be adopted or observed goes with a listed job of the task's name.
RowsNameOwnJob ==
    \A c \in Controllers : \A r \in todo[c] : r.do \in {"adopt", "observe"} =>
        /\ r.job \in JobId
        /\ jobs[r.job].name = r.task /\ jobs[r.job].status \in Listed

\* An awaited launch asked for a job of its own, under the name of the task at hand.
CallIsOwn ==
    /\ \A c \in Controllers : call[c] # NoJob => jobs[call[c]].status # "NONE"
    /\ \A c, d \in Controllers : call[c] = call[d] /\ call[c] # NoJob => c = d
    /\ \A c \in Controllers, t \in Tasks :
         pc[c] = "await" /\ AtTask(c, t) => call[c] # NoJob /\ jobs[call[c]].name = t

BatchPresent == \A c \in Controllers : batch[c] \subseteq Present

\* The inductive invariant behind BoundToOwnJob and SucceededIsTrue: whatever a process
\* still has in its local variables, however old, agrees with SkyPilot's jobs.
IInv ==
    /\ TypeOK
    /\ UnlaunchedHasNoJob /\ BoundToOwnJob /\ SucceededIsTrue
    /\ SeenIsListed /\ RowsNameOwnJob /\ CallIsOwn /\ BatchPresent

-----------------------------------------------------------------------------
(* One leader at a time, and a grace window longer than a pass and the     *)
(* delay of a request.                                                     *)

Timely ==
    /\ MaxPass < LeaseSeconds
    /\ MaxPass + MaxDelay < Grace
    /\ LostReplies = FALSE

\* A pass is over before its lease is.
LeadsAlone ==
    \A c \in Controllers :
        InPass(c) => holder = c /\ leaseLeft + passAge[c] >= LeaseSeconds

\* Each place has the local variables of its own.
InPlace ==
    \A c \in Controllers :
        /\ ~InPass(c) => passAge[c] = 0
        /\ pc[c] \notin {"listed", "scan"} => seen[c] = Unseen
        /\ pc[c] # "scan" => todo[c] = {}
        /\ pc[c] \notin {"launch", "await"} => batch[c] = {}
        /\ pc[c] # "await" => call[c] = NoJob

JobsOf(t) == {j \in JobId : jobs[j].name = t}

\* A task that waits for admission has no job, and one of a batch has at most the job
\* that its launch has just asked for.
WaitingHasNoJob ==
    /\ \A j \in JobId : jobs[j].status = "NONE" => jobs[j].name = NoTask
    /\ \A t \in Tasks : status[t] \in {"ABSENT", "PENDING"} => JobsOf(t) = {}
    /\ \A c \in Controllers : \A t \in batch[c] :
         status[t] = "SUBMITTING" /\ JobsOf(t) \subseteq {call[c]}

\* The rows of a scan, one per task, are as the scan found them.
RowsCurrent ==
    \A c \in Controllers :
        /\ \A q, r \in todo[c] : q.task = r.task => q = r
        /\ \A r \in todo[c] :
             /\ r.do \in {"adopt", "expire"} => status[r.task] = "SUBMITTING"
             /\ r.do = "expire" => JobsOf(r.task) = {}
             /\ r.do \in {"reread", "observe"} => status[r.task] \in {"SUBMITTED", "RUNNING"}
             /\ r.do = "observe" => seen[c][r.job] # "NONE"

\* The grace window of a task is not over while its request may still wait, nor in the
\* pass whose listing came too early for the job.
WindowOpen ==
    /\ \A c \in Controllers : \A t \in batch[c] : age[t] <= passAge[c]
    /\ \A t \in Tasks : \A j \in JobsOf(t) : status[t] = "SUBMITTING" =>
         /\ jobs[j].status = "REQUESTED" => age[t] <= MaxPass + jobs[j].wait
         /\ \A c \in Controllers :
              pc[c] = "listed" /\ seen[c][j] = "NONE" => age[t] - passAge[c] < Grace

\* A task is RUNNING only when its job has been seen past PENDING, also by the listing
\* that the task will be compared with.
RunningSeen ==
    \A j \in JobId :
        /\ \A t \in Tasks : jobs[j].name = t /\ status[t] = "RUNNING" =>
             /\ jobs[j].status \notin {"REQUESTED", "PENDING"}
             /\ \A c \in Controllers : seen[c][j] # "PENDING"
        /\ \A c \in Controllers :
             seen[c][j] \notin {"NONE", "PENDING"} => jobs[j].status # "PENDING"

\* The inductive invariant behind NoDuplicateJob, ControllerSurvives and
\* ImplementsTaskLife: what one leader at a time knows is still so when it acts on it,
\* and no task's window closes before its job can be seen (reconcile_once).
TimelyInv ==
    /\ LeadsAlone /\ InPlace
    /\ WaitingHasNoJob /\ NoDuplicateJob
    /\ RowsCurrent /\ WindowOpen /\ RunningSeen
    /\ ControllerSurvives

\* No two rows are at the same place of the order.
CreatedInOrder ==
    /\ \A t \in Present : created[t] \in 1..Cardinality(Present)
    /\ \A t, u \in Present : created[t] = created[u] => t = u

\* Every live job has its slot: its task occupies one, and a listing that says the job is
\* over, which frees the slot, is right.
LiveOccupies ==
    /\ \A j \in JobId : jobs[j].status # "NONE" => jobs[j].name # NoTask
    /\ \A j \in JobId : Live(j) => status[jobs[j].name] \in Occupying
    /\ \A c \in Controllers, j \in JobId :
         seen[c][j] \in {"CANCELLING"} \cup Finished => ~Live(j)

\* What reserve_submissions rests on when it counts rows instead of jobs: the rows that
\* occupy a slot include those of all jobs that do, and the order in which it walks the
\* pending rows is strict.
CountsJobs == CreatedInOrder /\ LiveOccupies

-----------------------------------------------------------------------------
(* What the documentation says and the code does not do; see README.md.    *)

\* "adopts them by managed job ID or the stable name derived from task_id"
\* (README.md:147): once a pass has scanned the tasks, every job it found listed under
\* a task's name is that task's job.
AdoptsByName ==
    \A c \in Controllers, t \in Tasks :
        pc[c] = "scan" /\ todo[c] = {} /\ Named(c, t) # {} => jobOf[t] # NoJob

Cancelling(k) ==
    Cardinality({j \in JobId : jobs[j].status = "CANCELLING"
                              /\ ClassOf[jobs[j].name] = k})

\* "At most eight ordinary jobs are admitted. The ninth worker stays ready"
\* (README.md:117): admission leaves the reserve idle, counting also the jobs that are
\* being cancelled and still have their worker.
ReserveStaysReady ==
    [][\A t \in Tasks :
         LET p == policy[ClassOf[t]] IN
         (/\ status[t] = "PENDING" /\ status'[t] = "SUBMITTING"
          /\ ~IsRecovery(t) /\ p # NoPolicy)
           => Load(ClassOf[t])' + Cancelling(ClassOf[t])' <= p.target - p.reserve]_vars

-----------------------------------------------------------------------------
(* Progress: the process is restarted, time passes, and SkyPilot, asked    *)
(* often enough, answers, accepts and brings its jobs to an end.           *)

Fairness ==
    /\ SF_vars(Tick)
    /\ \A c \in Controllers :
         /\ WF_vars(Start(c)) /\ WF_vars(Run(c)) /\ SF_vars(ListJobs(c))
         /\ WF_vars(\E t \in Tasks : LaunchReturns(c, t))
    /\ \A t \in Tasks : SF_vars(\E j \in JobId : jobs[j].name = t /\ AcceptJob(j))
    /\ \A j \in JobId :
         /\ WF_vars(\E s \in Listed : MoveJob(j, s))
         /\ SF_vars(MoveJob(j, "SUCCEEDED"))

FairSpec == Spec /\ Fairness

\* Every submitted task ends: no crash, outage, refused launch or batch cut short leaves
\* it in SUBMITTING for good, and no other task keeps it from being admitted.  Tasks
\* being finitely many, from some time on all that were submitted have ended.
EveryTaskFinishes ==
    <>[](\A t \in Tasks : status[t] \in {"ABSENT"} \cup Terminal)
=============================================================================

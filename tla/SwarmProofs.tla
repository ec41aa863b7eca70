----------------------------- MODULE SwarmProofs -----------------------------
(***************************************************************************)
(* What a row of the task table may say of its job, for every set of       *)
(* tasks, jobs and controllers and for every length of leases, passes and  *)
(* the grace window: two leaders at once, lost answers and crashes         *)
(* included.                                                               *)
(***************************************************************************)
EXTENDS SwarmController, FiniteSetTheorems, TLAPS

-----------------------------------------------------------------------------
(* Type correctness.                                                       *)

\* _task_status gives a task status, and never one of a task not yet launched.
LEMMA TaskStatusType ==
  ASSUME NEW s
  PROVE  /\ TaskStatusOf(s) \in TaskStatus
         /\ TaskStatusOf(s) \notin {"ABSENT", "PENDING", "SUBMITTING"}
         /\ TaskStatusOf(s) = "SUCCEEDED" => s = "SUCCEEDED"
  BY DEF TaskStatusOf, TaskStatus, Occupying, Terminal

\* The initial state is typed.
LEMMA InitType == Init => TypeOK
  BY NamesAssumption, StoreAssumption, JobsAssumption, LeaseAssumption,
     ControllerAssumption
  DEF Init, TypeOK, StoreInit, StoreTypeOK, JobsInit, JobsTypeOK, FreeSlot, LeaseInit,
      LeaseTypeOK, Left, PassTypeOK, Unseen

\* Leaving a pass keeps the types of the local variables.
LEMMA LeaveType ==
  ASSUME PassTypeOK, NEW c \in Controllers, NEW place \in {"down", "idle", "dead"},
         Leave(c, place), crashes' \in 0..MaxCrashes
  PROVE  PassTypeOK'
<1>1. Unseen \in [JobId -> Listed \cup {"NONE"}]
  BY DEF Unseen
<1>2. 0 \in 0..MaxPass
  BY ControllerAssumption
<1> QED
  BY <1>1, <1>2 DEF PassTypeOK, Leave, Goto

\* The transactions on the task table keep its type.
LEMMA StoreType ==
  ASSUME StoreTypeOK, NEW t \in Tasks
  PROVE  /\ Submit(t) => StoreTypeOK'
         /\ \A j \in JobId \cup {NoJob} : Bind(t, j) => StoreTypeOK'
         /\ Reset(t) => StoreTypeOK'
         /\ Fail(t) => StoreTypeOK'
         /\ \A j \in JobId \cup {NoJob} : \A s : Observe(t, j, s) => StoreTypeOK'
<1>0. 0 \in 0..MaxAge
  BY StoreAssumption
<1>1. ASSUME Submit(t) PROVE StoreTypeOK'
  <2>1. Cardinality(Present) \in Nat
    <3>1. IsFiniteSet(Present)
      BY NamesAssumption, FS_Subset DEF Present
    <3> QED
      BY <3>1, FS_CardinalityType
  <2>2. PICK rank \in 1..Cardinality(Present) + 1 :
          created' = [u \in Tasks |-> IF u = t THEN rank
                                     ELSE IF created[u] >= rank THEN created[u] + 1
                                     ELSE created[u]]
    BY <1>1 DEF Submit
  <2>3. created' \in [Tasks -> Nat]
    BY <2>1, <2>2 DEF StoreTypeOK
  <2> QED
    BY <1>1, <2>3 DEF Submit, StoreTypeOK, TaskStatus
<1>2. ASSUME NEW j \in JobId \cup {NoJob}, Bind(t, j) PROVE StoreTypeOK'
  BY <1>0, <1>2 DEF Bind, StoreTypeOK, TaskStatus, Occupying
<1>3. ASSUME Reset(t) PROVE StoreTypeOK'
  BY <1>0, <1>3 DEF Reset, StoreTypeOK, TaskStatus
<1>4. ASSUME Fail(t) PROVE StoreTypeOK'
  BY <1>0, <1>4 DEF Fail, StoreTypeOK, TaskStatus, Terminal
<1>5. ASSUME NEW j \in JobId \cup {NoJob}, NEW s, Observe(t, j, s) PROVE StoreTypeOK'
  BY <1>0, <1>5, TaskStatusType DEF Observe, StoreTypeOK
<1> QED
  BY <1>1, <1>2, <1>3, <1>4, <1>5

\* SkyPilot keeps the type of its jobs.
LEMMA JobsType ==
  ASSUME JobsTypeOK, NEW j \in JobId
  PROVE  /\ \A t \in Tasks : Request(t, j) => JobsTypeOK'
         /\ Accept(j) => JobsTypeOK'
         /\ Refuse(j) => JobsTypeOK'
         /\ \A s \in Listed : Move(j, s) => JobsTypeOK'
<1>0. 0 \in 0..MaxDelay
  BY JobsAssumption
<1>1. ASSUME NEW t \in Tasks, Request(t, j) PROVE JobsTypeOK'
  BY <1>0, <1>1 DEF Request, JobsTypeOK
<1>2. ASSUME Accept(j) PROVE JobsTypeOK'
  BY <1>0, <1>2 DEF Accept, JobsTypeOK, Listed, Running
<1>3. ASSUME Refuse(j) PROVE JobsTypeOK'
  BY <1>0, <1>3 DEF Refuse, JobsTypeOK, FreeSlot
<1>4. ASSUME NEW s \in Listed, Move(j, s) PROVE JobsTypeOK'
  BY <1>4 DEF Move, JobsTypeOK
<1> QED
  BY <1>1, <1>2, <1>3, <1>4

\* A second keeps the types of the three clocks: ages, waits and the lease.
LEMMA TickType ==
  ASSUME TypeOK, Tick
  PROVE  TypeOK'
<1> USE DEF TypeOK
<1>1. StoreTypeOK'
  <2> SUFFICES ASSUME NEW t \in Tasks PROVE age'[t] \in 0..MaxAge
    BY DEF Tick, StoreTick, StoreTypeOK
  <2> QED
    BY StoreAssumption DEF Tick, StoreTick, StoreTypeOK
<1>2. JobsTypeOK'
  <2> SUFFICES ASSUME NEW j \in JobId
               PROVE  jobs'[j] \in [name : Tasks \cup {NoTask},
                                    status : Listed \cup {"NONE", "REQUESTED"},
                                    wait : 0..MaxDelay]
    BY DEF Tick, JobsTick, JobsTypeOK
  <2>1. CASE jobs[j].status = "REQUESTED"
    <3>1. jobs[j].wait + 1 \in 0..MaxDelay
      BY <2>1, JobsAssumption DEF Tick, JobsTick, JobsTypeOK
    <3>2. jobs'[j] = [jobs[j] EXCEPT !.wait = jobs[j].wait + 1]
      BY <2>1 DEF Tick, JobsTick
    <3> QED
      BY <3>1, <3>2 DEF JobsTypeOK
  <2>2. CASE jobs[j].status # "REQUESTED"
    BY <2>2 DEF Tick, JobsTick, JobsTypeOK
  <2> QED
    BY <2>1, <2>2
<1>3. LeaseTypeOK'
  BY LeaseAssumption DEF Tick, LeaseTick, LeaseTypeOK, Left
<1>4. PassTypeOK'
  <2> SUFFICES ASSUME NEW c \in Controllers PROVE passAge'[c] \in 0..MaxPass
    BY DEF Tick, PassTypeOK
  <2> QED
    BY ControllerAssumption DEF Tick, PassTypeOK
<1> QED
  BY <1>1, <1>2, <1>3, <1>4

\* The scan of the queue and of the tasks fills the local variables with what it reads.
LEMMA ScanType ==
  ASSUME TypeOK, NEW c \in Controllers,
         \/ ListJobs(c) \/ ListFails(c) \/ ListTasks(c) \/ ScanStep(c)
  PROVE  TypeOK'
<1> USE DEF TypeOK
<1>0. \A t \in Tasks : JobsFor(c, t) \subseteq JobId
  BY DEF JobsFor, Named, StoreTypeOK
<1>1. ASSUME ListJobs(c) PROVE TypeOK'
  BY <1>1 DEF ListJobs, Goto, NoStore, storeVars, leaseVars, StoreTypeOK, JobsTypeOK,
              LeaseTypeOK, PassTypeOK
<1>2. ASSUME ListFails(c) PROVE TypeOK'
  BY <1>2, LeaveType DEF ListFails, NoStore, storeVars, leaseVars, StoreTypeOK,
                         JobsTypeOK, LeaseTypeOK, PassTypeOK
<1>3. ASSUME ListTasks(c) PROVE TypeOK'
  <2>1. \A t \in Tasks : Duty(c, t) \subseteq
          [task : Tasks, job : JobId \cup {NoJob},
           do : {"adopt", "reread", "expire", "observe"}]
    BY <1>0 DEF Duty, Named
  <2>2. \A rows \in SUBSET UNION {Duty(c, t) : t \in Tasks} :
          rows \subseteq [task : Tasks, job : JobId \cup {NoJob},
                         do : {"adopt", "reread", "expire", "observe"}]
    BY <2>1
  <2>3. PassTypeOK'
    BY <1>3, <2>2 DEF ListTasks, Goto, NoStore, PassTypeOK
  <2> QED
    BY <1>3, <2>3 DEF ListTasks, NoStore, storeVars, leaseVars, StoreTypeOK, JobsTypeOK,
                      LeaseTypeOK
<1>4. ASSUME NEW r \in todo[c], Adopt(c, r) PROVE TypeOK'
  <2>1. r \in [task : Tasks, job : JobId \cup {NoJob},
              do : {"adopt", "reread", "expire", "observe"}]
    BY DEF PassTypeOK
  <2>2. CASE MayBind(r.task, r.job)
    <3>1. StoreTypeOK'
      BY <1>4, <2>1, <2>2, StoreType DEF Adopt
    <3>2. [r EXCEPT !.do = "reread"] \in [task : Tasks, job : JobId \cup {NoJob},
              do : {"adopt", "reread", "expire", "observe"}]
      BY <2>1
    <3>3. PassTypeOK'
      BY <1>4, <2>2, <3>2 DEF Adopt, NextRows, OnlyStore, PassTypeOK
    <3> QED
      BY <1>4, <2>2, <3>1, <3>3 DEF Adopt, OnlyStore, leaseVars, JobsTypeOK, LeaseTypeOK
  <2>3. CASE ~MayBind(r.task, r.job)
    BY <1>4, <2>3, LeaveType DEF Adopt, Die, storeVars, leaseVars, StoreTypeOK,
                                 JobsTypeOK, LeaseTypeOK, PassTypeOK
  <2> QED
    BY <2>2, <2>3
<1>5. ASSUME NEW r \in todo[c], Reread(c, r) PROVE TypeOK'
  <2>1. r \in [task : Tasks, job : JobId \cup {NoJob},
              do : {"adopt", "reread", "expire", "observe"}]
    BY DEF PassTypeOK
  <2>2. \A j \in JobsFor(c, r.task) : [r EXCEPT !.do = "observe", !.job = j] \in
          [task : Tasks, job : JobId \cup {NoJob},
           do : {"adopt", "reread", "expire", "observe"}]
    BY <1>0, <2>1
  <2>3. PICK more \in SUBSET [task : Tasks, job : JobId \cup {NoJob},
                            do : {"adopt", "reread", "expire", "observe"}] :
          NextRows(c, r, more)
    BY <1>5, <2>2 DEF Reread
  <2>4. PassTypeOK'
    BY <1>5, <2>3 DEF Reread, NextRows, NoStore, PassTypeOK
  <2> QED
    BY <1>5, <2>4 DEF Reread, NoStore, storeVars, leaseVars, StoreTypeOK, JobsTypeOK,
                      LeaseTypeOK
<1>6. ASSUME NEW r \in todo[c], Expire(c, r) \/ ObserveRow(c, r) PROVE TypeOK'
  <2>1. r.task \in Tasks /\ r.job \in JobId \cup {NoJob}
    BY DEF PassTypeOK
  <2>2. CASE Die(c)
    BY <2>2, LeaveType DEF Die, storeVars, leaseVars, StoreTypeOK, JobsTypeOK,
                           LeaseTypeOK, PassTypeOK
  <2>3. CASE /\ \/ Reset(r.task)
                \/ Observe(r.task, r.job, seen[c][r.job])
             /\ NextRows(c, r, {})
             /\ UNCHANGED <<pc, passAge, seen, batch, call>>
             /\ OnlyStore
    <3>1. StoreTypeOK'
      BY <2>1, <2>3, StoreType
    <3> QED
      BY <2>3, <3>1 DEF NextRows, OnlyStore, leaseVars, JobsTypeOK, LeaseTypeOK,
                        PassTypeOK
  <2> QED
    BY <1>6, <2>2, <2>3 DEF Expire, ObserveRow
<1> QED
  BY <1>1, <1>2, <1>3, <1>4, <1>5, <1>6 DEF ScanStep

\* The lease, the start and the end of processes.
LEMMA LeadType ==
  ASSUME TypeOK, NEW c \in Controllers,
         \/ Lead(c) \/ LoseLead(c) \/ Start(c) \/ Crash(c)
  PROVE  TypeOK'
<1> USE DEF TypeOK
<1>1. ASSUME Lead(c) PROVE TypeOK'
  <2>1. LeaseTypeOK'
    <3>1. LeaseSeconds \in Left
      BY LeaseAssumption DEF Left
    <3>2. CASE TakeLease(c, LeaseSeconds)
      BY <3>1, <3>2 DEF TakeLease, LeaseTypeOK
    <3>3. CASE KeepLease(c, LeaseSeconds)
      BY <3>1, <3>3 DEF KeepLease, LeaseTypeOK
    <3> QED
      BY <1>1, <3>2, <3>3 DEF Lead
  <2>2. PassTypeOK'
    BY <1>1 DEF Lead, Goto, NoStore, PassTypeOK
  <2> QED
    BY <1>1, <2>1, <2>2 DEF Lead, NoStore, storeVars, StoreTypeOK, JobsTypeOK
<1>2. ASSUME LoseLead(c) PROVE TypeOK'
  BY <1>2 DEF LoseLead, LoseLease, NoStore, storeVars, localVars, StoreTypeOK,
              JobsTypeOK, LeaseTypeOK, PassTypeOK
<1>3. ASSUME Start(c) PROVE TypeOK'
  BY <1>3 DEF Start, Goto, NoStore, storeVars, leaseVars, StoreTypeOK, JobsTypeOK,
              LeaseTypeOK, PassTypeOK
<1>4. ASSUME Crash(c) PROVE TypeOK'
  <2>1. crashes' \in 0..MaxCrashes
    BY <1>4, ControllerAssumption DEF Crash, PassTypeOK
  <2>2. PassTypeOK'
    BY <1>4, <2>1, LeaveType DEF Crash
  <2> QED
    BY <1>4, <2>2 DEF Crash, DropLease, storeVars, StoreTypeOK, JobsTypeOK, LeaseTypeOK
<1> QED
  BY <1>1, <1>2, <1>3, <1>4

\* Going on with the batch keeps the types of the local variables.
LEMMA NextTaskType ==
  ASSUME PassTypeOK, NEW c \in Controllers, NEW t \in Tasks, NextTask(c, t),
         crashes' = crashes
  PROVE  PassTypeOK'
<1>1. CASE batch[c] = {t}
  BY <1>1, LeaveType DEF NextTask, PassTypeOK
<1>2. CASE batch[c] # {t}
  <2>1. batch' \in [Controllers -> SUBSET Tasks]
    BY <1>2 DEF NextTask, PassTypeOK
  <2>2. call' \in [Controllers -> JobId \cup {NoJob}]
    BY <1>2 DEF NextTask, PassTypeOK
  <2>3. pc' = [pc EXCEPT ![c] = "launch"] /\ UNCHANGED <<passAge, seen, todo>>
    BY <1>2 DEF NextTask, Goto
  <2> QED
    BY <2>1, <2>2, <2>3 DEF PassTypeOK
<1> QED
  BY <1>1, <1>2

\* Admission and launches.
LEMMA LaunchType ==
  ASSUME TypeOK, NEW c \in Controllers,
         \/ ReserveBatch(c)
         \/ \E t \in Tasks : \/ BuildFails(c, t) \/ Launch(c, t) \/ LaunchReturns(c, t)
                             \/ LaunchRefused(c, t) \/ LaunchLost(c, t)
  PROVE  TypeOK'
<1> USE DEF TypeOK
<1>0. call[c] \in JobId \cup {NoJob}
  BY DEF PassTypeOK
<1>1. ASSUME ReserveBatch(c) PROVE TypeOK'
  <2>1. PICK S \in SUBSET Pending :
          /\ Reserve(S, passAge[c])
          /\ IF S = {} THEN Leave(c, "idle")
             ELSE /\ batch' = [batch EXCEPT ![c] = S]
                  /\ seen' = [seen EXCEPT ![c] = Unseen]
                  /\ Goto(c, "launch")
                  /\ UNCHANGED <<passAge, todo, call>>
    BY <1>1 DEF ReserveBatch
  <2>2. StoreTypeOK'
    <3>1. passAge[c] \in 0..MaxAge
      BY StoreAssumption, ControllerAssumption DEF PassTypeOK
    <3> QED
      BY <2>1, <3>1 DEF Reserve, StoreTypeOK, TaskStatus, Occupying
  <2>3. PassTypeOK'
    <3>1. S \subseteq Tasks
      BY DEF Pending
    <3>2. Unseen \in [JobId -> Listed \cup {"NONE"}]
      BY DEF Unseen
    <3>3. CASE S = {}
      BY <1>1, <2>1, <3>3, LeaveType DEF ReserveBatch, OnlyStore, PassTypeOK
    <3>4. CASE S # {}
      <4>1. batch' \in [Controllers -> SUBSET Tasks]
        BY <2>1, <3>1, <3>4 DEF PassTypeOK
      <4>2. seen' \in [Controllers -> [JobId -> Listed \cup {"NONE"}]]
        BY <2>1, <3>2, <3>4 DEF PassTypeOK
      <4>3. pc' = [pc EXCEPT ![c] = "launch"] /\ UNCHANGED <<passAge, todo, call, crashes>>
        BY <1>1, <2>1, <3>4 DEF ReserveBatch, OnlyStore, Goto
      <4> QED
        BY <4>1, <4>2, <4>3 DEF PassTypeOK
    <3> QED
      BY <3>3, <3>4
  <2> QED
    BY <1>1, <2>2, <2>3 DEF ReserveBatch, OnlyStore, leaseVars, JobsTypeOK, LeaseTypeOK
<1>2. ASSUME NEW t \in Tasks, BuildFails(c, t) PROVE TypeOK'
  BY <1>2, StoreType, NextTaskType
  DEF BuildFails, OnlyStore, leaseVars, JobsTypeOK, LeaseTypeOK
<1>3. ASSUME NEW t \in Tasks, Launch(c, t) PROVE TypeOK'
  <2>1. PICK j \in JobId : Request(t, j) /\ call' = [call EXCEPT ![c] = j]
    BY <1>3 DEF Launch
  <2>2. JobsTypeOK'
    BY <2>1, JobsType
  <2>3. PassTypeOK'
    BY <1>3, <2>1 DEF Launch, Goto, PassTypeOK
  <2> QED
    BY <1>3, <2>2, <2>3 DEF Launch, storeVars, leaseVars, StoreTypeOK, LeaseTypeOK
<1>4. ASSUME Die(c) PROVE TypeOK'
  BY <1>4, LeaveType DEF Die, storeVars, leaseVars, StoreTypeOK, JobsTypeOK, LeaseTypeOK,
                         PassTypeOK
<1>5. ASSUME NEW t \in Tasks, LaunchReturns(c, t) PROVE TypeOK'
  <2>1. CASE MayBind(t, call[c])
    BY <1>0, <1>5, <2>1, StoreType, NextTaskType
    DEF LaunchReturns, OnlyStore, leaseVars, JobsTypeOK, LeaseTypeOK
  <2> QED
    BY <1>4, <1>5, <2>1 DEF LaunchReturns
<1>6. ASSUME NEW t \in Tasks, GiveUp(c, t), crashes' = crashes
      PROVE  StoreTypeOK' /\ PassTypeOK'
  BY <1>6, StoreType, LeaveType DEF GiveUp, PassTypeOK
<1>7. ASSUME NEW t \in Tasks, LaunchRefused(c, t) PROVE TypeOK'
  <2>1. JobsTypeOK'
    <3>1. FreeSlot \in [name : Tasks \cup {NoTask},
                       status : Listed \cup {"NONE", "REQUESTED"}, wait : 0..MaxDelay]
      BY JobsAssumption DEF FreeSlot
    <3>2. jobs' = [jobs EXCEPT ![call[c]] = FreeSlot]
      BY <1>7 DEF LaunchRefused, Refuse
    <3> QED
      BY <3>1, <3>2 DEF JobsTypeOK
  <2>2. LeaseTypeOK'
    BY <1>7 DEF LaunchRefused, leaseVars, LeaseTypeOK
  <2>3. CASE MayReset(t)
    BY <1>6, <1>7, <2>1, <2>2, <2>3 DEF LaunchRefused
  <2>4. CASE ~MayReset(t)
    <3>1. PassTypeOK'
      BY <1>7, <2>4, LeaveType DEF LaunchRefused, PassTypeOK
    <3> QED
      BY <1>7, <2>1, <2>2, <2>4, <3>1 DEF LaunchRefused, storeVars, StoreTypeOK
  <2> QED
    BY <2>3, <2>4
<1>8. ASSUME NEW t \in Tasks, LaunchLost(c, t) PROVE TypeOK'
  <2>1. CASE MayReset(t)
    BY <1>6, <1>8, <2>1 DEF LaunchLost, OnlyStore, leaseVars, JobsTypeOK, LeaseTypeOK
  <2> QED
    BY <1>4, <1>8, <2>1 DEF LaunchLost
<1> QED
  BY <1>1, <1>2, <1>3, <1>5, <1>7, <1>8

\* The API, SkyPilot's jobs.
LEMMA WorldType ==
  ASSUME TypeOK,
         \/ \E t \in Tasks : SubmitTask(t)
         \/ \E k \in Classes, p \in Policies : ChangePolicy(k, p)
         \/ \E j \in JobId : AcceptJob(j) \/ RefuseJob(j)
         \/ \E j \in JobId, s \in Listed : MoveJob(j, s)
  PROVE  TypeOK'
<1> USE DEF TypeOK
<1>1. ASSUME NEW t \in Tasks, SubmitTask(t) PROVE TypeOK'
  BY <1>1, StoreType DEF SubmitTask, localVars, leaseVars, JobsTypeOK, LeaseTypeOK,
                         PassTypeOK
<1>2. ASSUME NEW k \in Classes, NEW p \in Policies, ChangePolicy(k, p) PROVE TypeOK'
  BY <1>2 DEF ChangePolicy, SetPolicy, localVars, leaseVars, StoreTypeOK, JobsTypeOK,
              LeaseTypeOK, PassTypeOK
<1>3. ASSUME NEW j \in JobId, AcceptJob(j) \/ RefuseJob(j) PROVE TypeOK'
  BY <1>3, JobsType DEF AcceptJob, RefuseJob, storeVars, localVars, leaseVars,
                        StoreTypeOK, LeaseTypeOK, PassTypeOK
<1>4. ASSUME NEW j \in JobId, NEW s \in Listed, MoveJob(j, s) PROVE TypeOK'
  BY <1>4, JobsType DEF MoveJob, storeVars, localVars, leaseVars, StoreTypeOK,
                        LeaseTypeOK, PassTypeOK
<1> QED
  BY <1>1, <1>2, <1>3, <1>4

\* Every step keeps the types.
LEMMA TypeStep == TypeOK /\ [Next]_vars => TypeOK'
<1> SUFFICES ASSUME TypeOK, [Next]_vars PROVE TypeOK'
  OBVIOUS
<1>1. CASE UNCHANGED vars
  BY <1>1 DEF vars, storeVars, leaseVars, localVars, TypeOK, StoreTypeOK, JobsTypeOK,
              LeaseTypeOK, PassTypeOK
<1>2. CASE Next
  BY <1>2, LeadType, ScanType, LaunchType, WorldType, TickType DEF Next, Run
<1> QED
  BY <1>1, <1>2

\* Every variable keeps to its type, for every value of the constants (columns, listing,
\* rows, batch, times).
THEOREM Types == Spec => []TypeOK
  BY InitType, TypeStep, PTL DEF Spec

-----------------------------------------------------------------------------
(* Rows and their jobs.  A step is described by what it keeps.             *)

\* Listed jobs stay listed under their names, and success is final.
JobsKept ==
  \A j \in JobId : jobs[j].status \in Listed =>
    /\ jobs'[j].name = jobs[j].name
    /\ jobs'[j].status \in Listed
    /\ jobs[j].status = "SUCCEEDED" => jobs'[j].status = "SUCCEEDED"

\* No process learns of a job, and no row is added that is to be adopted or observed.
PassesKept ==
  \A c \in Controllers :
    /\ seen'[c] \in {seen[c], Unseen}
    /\ \A r \in todo'[c] : r.do \in {"adopt", "observe"} => r \in todo[c]

\* Tasks present stay so, in their order.
PresentKept ==
  \A t \in Present :
    /\ t \in Present'
    /\ \A u \in Present : created'[t] < created'[u] <=> created[t] < created[u]

\* The calls that are still awaited are the same, and so are the jobs they asked for.
CallsKept ==
  \A c \in Controllers :
    \/ call'[c] = NoJob /\ pc'[c] # "await" /\ batch'[c] \subseteq Present'
    \/ /\ call'[c] = call[c] /\ batch'[c] = batch[c]
       /\ pc'[c] = "await" => pc[c] = "await"
       /\ call[c] # NoJob => /\ jobs'[call[c]].name = jobs[call[c]].name
                             /\ jobs'[call[c]].status # "NONE"

RowsInv == UnlaunchedHasNoJob /\ BoundToOwnJob /\ SucceededIsTrue
PassInv == SeenIsListed /\ RowsNameOwnJob
CallInv == CallIsOwn /\ BatchPresent

\* Rows that do not change go on agreeing with jobs that are kept.
LEMMA RowsStep ==
  ASSUME IInv, JobsKept, UNCHANGED <<status, jobOf>>
  PROVE  RowsInv'
<1> USE DEF IInv, RowsInv
<1>1. UnlaunchedHasNoJob'
  BY DEF UnlaunchedHasNoJob
<1>2. \A t \in Tasks : jobOf[t] \in JobId \cup {NoJob}
  BY DEF TypeOK, StoreTypeOK
<1>3. BoundToOwnJob'
  BY <1>2 DEF BoundToOwnJob, JobsKept
<1>4. SucceededIsTrue'
  BY <1>2 DEF SucceededIsTrue, BoundToOwnJob, JobsKept
<1> QED
  BY <1>1, <1>3, <1>4

\* Old listings and the rows still to handle go on agreeing with jobs that are kept.
LEMMA PassStep ==
  ASSUME IInv, JobsKept, PassesKept
  PROVE  PassInv'
<1> USE DEF IInv, PassInv
<1>1. SeenIsListed'
  <2> SUFFICES ASSUME NEW c \in Controllers, NEW j \in JobId, seen'[c][j] # "NONE"
               PROVE  /\ jobs'[j].status \in Listed
                      /\ seen'[c][j] = "SUCCEEDED" => jobs'[j].status = "SUCCEEDED"
    BY DEF SeenIsListed
  <2>1. seen'[c] = seen[c]
    BY DEF PassesKept, Unseen
  <2> QED
    BY <2>1 DEF SeenIsListed, JobsKept
<1>2. RowsNameOwnJob'
  BY DEF RowsNameOwnJob, PassesKept, JobsKept
<1> QED
  BY <1>1, <1>2

\* The tasks at hand and the calls they wait for go on agreeing.
LEMMA CallStep ==
  ASSUME IInv, PresentKept, CallsKept
  PROVE  CallInv'
<1> USE DEF IInv, CallInv
<1>1. BatchPresent'
  BY DEF BatchPresent, PresentKept, CallsKept
<1>2. \A c \in Controllers : call'[c] # NoJob => jobs'[call'[c]].status # "NONE"
  BY DEF CallIsOwn, CallsKept
<1>3. \A c, d \in Controllers : call'[c] = call'[d] /\ call'[c] # NoJob => c = d
  BY DEF CallIsOwn, CallsKept
<1>4. ASSUME NEW c \in Controllers, NEW t \in Tasks, pc'[c] = "await", AtTask(c, t)'
      PROVE  call'[c] # NoJob /\ jobs'[call'[c]].name = t
  <2>1. /\ call'[c] = call[c] /\ pc[c] = "await" /\ batch'[c] = batch[c]
        /\ call[c] # NoJob => jobs'[call[c]].name = jobs[call[c]].name
    BY <1>4 DEF CallsKept
  <2>2. \A u \in batch[c] : created'[t] < created'[u] <=> created[t] < created[u]
    BY <1>4, <2>1 DEF AtTask, BatchPresent, PresentKept
  <2>3. AtTask(c, t)
    BY <1>4, <2>1, <2>2 DEF AtTask, Before
  <2> QED
    BY <2>1, <2>3 DEF CallIsOwn
<1> QED
  BY <1>1, <1>2, <1>3, <1>4 DEF CallIsOwn

\* The transactions keep what a row says of its job.
LEMMA StoreSteps ==
  ASSUME IInv, JobsKept, NEW t \in Tasks
  PROVE  /\ Submit(t) => RowsInv' /\ PresentKept
         /\ Reset(t) => RowsInv' /\ PresentKept
         /\ Fail(t) => RowsInv' /\ PresentKept
         /\ \A j \in JobId :
              jobs[j].name = t /\ jobs[j].status \in Listed =>
                /\ Bind(t, j) => RowsInv' /\ PresentKept
                /\ \A s : Observe(t, j, s) /\ (s = "SUCCEEDED" => jobs[j].status = s)
                          => RowsInv' /\ PresentKept
<1> USE DEF IInv
<1>0. /\ \A u \in Tasks : jobOf[u] \in JobId \cup {NoJob}
      /\ status \in [Tasks -> TaskStatus \cup {"ABSENT"}]
      /\ jobOf \in [Tasks -> JobId \cup {NoJob}]
      /\ created \in [Tasks -> Nat]
  BY DEF TypeOK, StoreTypeOK
<1>1. ASSUME NEW u \in Tasks, status'[u] = status[u], jobOf'[u] = jobOf[u]
      PROVE  /\ status'[u] \in {"ABSENT", "PENDING", "SUBMITTING"} => jobOf'[u] = NoJob
             /\ jobOf'[u] # NoJob => /\ jobs'[jobOf'[u]].name = u
                                     /\ jobs'[jobOf'[u]].status \in Listed
             /\ status'[u] = "SUCCEEDED" =>
                  /\ jobOf'[u] # NoJob
                  /\ jobs'[jobOf'[u]].name = u /\ jobs'[jobOf'[u]].status = "SUCCEEDED"
  BY <1>0, <1>1 DEF UnlaunchedHasNoJob, BoundToOwnJob, SucceededIsTrue, JobsKept
<1>2. ASSUME NEW s, NEW b, status' = [status EXCEPT ![t] = s],
             jobOf' = [jobOf EXCEPT ![t] = b],
             s \in {"ABSENT", "PENDING", "SUBMITTING"} => b = NoJob,
             b # NoJob => jobs'[b].name = t /\ jobs'[b].status \in Listed,
             s = "SUCCEEDED" => b # NoJob /\ jobs'[b].status = "SUCCEEDED"
      PROVE  RowsInv'
  <2>1. status'[t] = s /\ jobOf'[t] = b
    BY <1>0, <1>2
  <2>2. \A u \in Tasks \ {t} : status'[u] = status[u] /\ jobOf'[u] = jobOf[u]
    BY <1>0, <1>2
  <2>3. UnlaunchedHasNoJob'
    BY <1>1, <1>2, <2>1, <2>2 DEF UnlaunchedHasNoJob
  <2>4. BoundToOwnJob'
    BY <1>1, <1>2, <2>1, <2>2 DEF BoundToOwnJob
  <2>5. SucceededIsTrue'
    BY <1>1, <1>2, <2>1, <2>2 DEF SucceededIsTrue
  <2> QED
    BY <2>3, <2>4, <2>5 DEF RowsInv
<1>3. ASSUME NEW s, s # "ABSENT", status' = [status EXCEPT ![t] = s], created' = created
      PROVE  PresentKept
  BY <1>0, <1>3 DEF PresentKept, Present
<1>4. jobOf = [jobOf EXCEPT ![t] = jobOf[t]]
  BY <1>0
<1>5. jobOf[t] # NoJob => jobs'[jobOf[t]].name = t /\ jobs'[jobOf[t]].status \in Listed
  BY <1>0 DEF BoundToOwnJob, JobsKept
<1>6. ASSUME Submit(t) PROVE RowsInv' /\ PresentKept
  <2>1. jobOf[t] = NoJob
    BY <1>6 DEF Submit, UnlaunchedHasNoJob
  <2>2. PresentKept
    <3>1. PICK rank \in 1..Cardinality(Present) + 1 :
            created' = [u \in Tasks |-> IF u = t THEN rank
                                       ELSE IF created[u] >= rank THEN created[u] + 1
                                       ELSE created[u]]
      BY <1>6 DEF Submit
    <3>2. Cardinality(Present) \in Nat
      BY NamesAssumption, FS_Subset, FS_CardinalityType DEF Present
    <3>3. \A u, v \in Tasks \ {t} : created'[u] < created'[v] <=> created[u] < created[v]
      BY <1>0, <3>1, <3>2
    <3>4. Present \subseteq Tasks \ {t} /\ Present \subseteq Present'
      BY <1>0, <1>6 DEF Submit, Present
    <3> QED
      BY <3>3, <3>4 DEF PresentKept
  <2> QED
    BY <1>2, <1>4, <1>6, <2>1, <2>2 DEF Submit
<1>7. ASSUME Reset(t) PROVE RowsInv' /\ PresentKept
  <2>1. jobOf[t] = NoJob
    BY <1>7 DEF Reset, MayReset, UnlaunchedHasNoJob
  <2> QED
    BY <1>2, <1>3, <1>4, <1>7, <2>1 DEF Reset
<1>8. ASSUME Fail(t) PROVE RowsInv' /\ PresentKept
  BY <1>2, <1>3, <1>4, <1>5, <1>8 DEF Fail
<1>9. ASSUME NEW j \in JobId, jobs[j].name = t, jobs[j].status \in Listed
      PROVE  /\ Bind(t, j) => RowsInv' /\ PresentKept
             /\ \A s : Observe(t, j, s) /\ (s = "SUCCEEDED" => jobs[j].status = s)
                       => RowsInv' /\ PresentKept
  <2>1. j # NoJob /\ jobs'[j].name = t /\ jobs'[j].status \in Listed
    BY <1>9, NamesAssumption DEF JobsKept
  <2>2. ASSUME Bind(t, j) PROVE RowsInv' /\ PresentKept
    BY <1>2, <1>3, <2>1, <2>2 DEF Bind
  <2>3. ASSUME NEW s, Observe(t, j, s), s = "SUCCEEDED" => jobs[j].status = s
        PROVE  RowsInv' /\ PresentKept
    <3>1. TaskStatusOf(s) = "SUCCEEDED" => jobs'[j].status = "SUCCEEDED"
      BY <1>9, <2>3, TaskStatusType DEF JobsKept
    <3>2. TaskStatusOf(s) \notin {"ABSENT", "PENDING", "SUBMITTING"}
      BY TaskStatusType
    <3> QED
      BY <1>2, <1>3, <2>1, <2>3, <3>1, <3>2 DEF Observe
  <2> QED
    BY <2>2, <2>3
<1> QED
  BY <1>6, <1>7, <1>8, <1>9

\* A process that leaves its pass forgets everything it knew of jobs.
LEMMA LeaveStep ==
  ASSUME IInv, NEW c \in Controllers, NEW place \in {"down", "idle", "dead"},
         Leave(c, place)
  PROVE  /\ PassesKept
         /\ PresentKept /\ (\A d \in Controllers \ {c} : call[d] # NoJob =>
              /\ jobs'[call[d]].name = jobs[call[d]].name
              /\ jobs'[call[d]].status # "NONE") => CallsKept
<1>1. /\ seen' = [seen EXCEPT ![c] = Unseen] /\ todo' = [todo EXCEPT ![c] = {}]
      /\ batch' = [batch EXCEPT ![c] = {}] /\ call' = [call EXCEPT ![c] = NoJob]
      /\ pc' = [pc EXCEPT ![c] = place]
  BY DEF Leave, Goto
<1>2. PassesKept
  BY <1>1 DEF PassesKept, IInv, TypeOK, PassTypeOK
<1>3. ASSUME PresentKept, \A d \in Controllers \ {c} : call[d] # NoJob =>
               /\ jobs'[call[d]].name = jobs[call[d]].name
               /\ jobs'[call[d]].status # "NONE"
      PROVE  CallsKept
  <2>1. call'[c] = NoJob /\ pc'[c] # "await" /\ batch'[c] \subseteq Present'
    BY <1>1 DEF IInv, TypeOK, PassTypeOK
  <2>2. \A d \in Controllers \ {c} :
          call'[d] = call[d] /\ pc'[d] = pc[d] /\ batch'[d] = batch[d]
    BY <1>1 DEF IInv, TypeOK, PassTypeOK
  <2> QED
    BY <1>3, <2>1, <2>2 DEF CallsKept
<1> QED
  BY <1>2, <1>3

\* When the jobs do not change, they are kept, and so are the calls.
LEMMA SameJobs ==
  ASSUME IInv, jobs' = jobs
  PROVE  /\ JobsKept
         /\ \A d \in Controllers : call[d] # NoJob =>
              jobs'[call[d]].name = jobs[call[d]].name /\ jobs'[call[d]].status # "NONE"
         /\ UNCHANGED <<pc, batch, call>> => CallsKept
         /\ UNCHANGED <<status, created>> => PresentKept
  BY DEF IInv, JobsKept, CallIsOwn, CallsKept, PresentKept, Present

\* A process that leaves its pass, with store and jobs as they were, keeps the invariant.
LEMMA LeaveOnly ==
  ASSUME IInv, NEW c \in Controllers, NEW place \in {"down", "idle", "dead"},
         Leave(c, place), UNCHANGED <<status, jobOf, created, jobs>>
  PROVE  RowsInv' /\ PassInv' /\ CallInv'
  BY SameJobs, LeaveStep, RowsStep, PassStep, CallStep

\* The head of the pass and the life of processes do not touch rows and jobs.
LEMMA LeadStep ==
  ASSUME IInv, NEW c \in Controllers,
         Lead(c) \/ LoseLead(c) \/ Start(c) \/ Crash(c)
  PROVE  RowsInv' /\ PassInv' /\ CallInv'
<1>1. CASE Crash(c)
  BY <1>1, LeaveOnly DEF Crash, storeVars
<1>2. CASE Lead(c) \/ LoseLead(c) \/ Start(c)
  <2>1. /\ UNCHANGED <<status, jobOf, created, jobs, seen, todo, batch, call>>
        /\ \/ pc' = pc
           \/ pc' = [pc EXCEPT ![c] = "leading"] /\ pc[c] = "idle"
           \/ pc' = [pc EXCEPT ![c] = "idle"] /\ pc[c] = "down"
    BY <1>2 DEF Lead, LoseLead, Start, Goto, NoStore, storeVars, localVars
  <2>2. PassesKept
    BY <2>1 DEF PassesKept
  <2>3. CallsKept
    <3>1. \A d \in Controllers : pc'[d] = "await" => pc[d] = "await"
      BY <2>1 DEF IInv, TypeOK, PassTypeOK
    <3> QED
      BY <2>1, <3>1, SameJobs DEF CallsKept
  <2> QED
    BY <2>1, <2>2, <2>3, SameJobs, RowsStep, PassStep, CallStep
<1> QED
  BY <1>1, <1>2

\* The scan learns of jobs only from the listing and goes by the tasks' own names.
LEMMA ScanKeeps ==
  ASSUME IInv, NEW c \in Controllers,
         \/ ListJobs(c) \/ ListFails(c) \/ ListTasks(c) \/ ScanStep(c)
  PROVE  RowsInv' /\ PassInv' /\ CallInv'
<1>0. /\ \A t \in Tasks : \A j \in JobsFor(c, t) \cup Named(c, t) :
           j \in JobId /\ jobs[j].name = t /\ jobs[j].status \in Listed
      /\ todo[c] \subseteq [task : Tasks, job : JobId \cup {NoJob},
                            do : {"adopt", "reread", "expire", "observe"}]
  <2>1. \A t \in Tasks : jobOf[t] \in JobId \cup {NoJob}
    BY DEF IInv, TypeOK, StoreTypeOK
  <2>2. \A t \in Tasks : \A j \in Named(c, t) :
          j \in JobId /\ jobs[j].name = t /\ jobs[j].status \in Listed
    BY DEF IInv, SeenIsListed, Named
  <2>3. \A t \in Tasks : \A j \in JobsFor(c, t) :
          j \in JobId /\ jobs[j].name = t /\ jobs[j].status \in Listed
    BY <2>1, <2>2 DEF IInv, BoundToOwnJob, JobsFor
  <2> QED
    BY <2>2, <2>3 DEF IInv, TypeOK, PassTypeOK
<1>1. ASSUME ListJobs(c) PROVE RowsInv' /\ PassInv' /\ CallInv'
  <2>1. /\ UNCHANGED <<status, jobOf, created, jobs, todo, batch, call>>
        /\ seen' = [seen EXCEPT ![c] =
             [j \in JobId |-> IF jobs[j].status \in Listed THEN jobs[j].status ELSE "NONE"]]
        /\ \A d \in Controllers : pc'[d] = "await" => pc[d] = "await"
    BY <1>1 DEF ListJobs, Goto, NoStore, storeVars, IInv, TypeOK, PassTypeOK
  <2>2. SeenIsListed'
    <3> SUFFICES ASSUME NEW d \in Controllers, NEW j \in JobId, seen'[d][j] # "NONE"
                 PROVE  /\ jobs[j].status \in Listed
                        /\ seen'[d][j] = "SUCCEEDED" => jobs[j].status = "SUCCEEDED"
      BY <2>1 DEF SeenIsListed
    <3>1. CASE d = c
      BY <2>1, <3>1 DEF IInv, TypeOK, PassTypeOK
    <3>2. CASE d # c
      BY <2>1, <3>2 DEF IInv, TypeOK, PassTypeOK, SeenIsListed
    <3> QED
      BY <3>1, <3>2
  <2>3. RowsNameOwnJob'
    BY <2>1 DEF IInv, RowsNameOwnJob
  <2>4. CallsKept
    BY <2>1, SameJobs DEF CallsKept
  <2> QED
    BY <2>1, <2>2, <2>3, <2>4, SameJobs, RowsStep, CallStep DEF PassInv
<1>2. ASSUME ListFails(c) PROVE RowsInv' /\ PassInv' /\ CallInv'
  BY <1>2, LeaveOnly DEF ListFails, NoStore, storeVars
<1>3. ASSUME ListTasks(c) PROVE RowsInv' /\ PassInv' /\ CallInv'
  <2>1. PICK rows \in SUBSET UNION {Duty(c, t) : t \in Tasks} :
          todo' = [todo EXCEPT ![c] = rows]
    BY <1>3 DEF ListTasks
  <2>2. /\ UNCHANGED <<status, jobOf, created, jobs, seen, batch, call>>
        /\ \A d \in Controllers : pc'[d] = "await" => pc[d] = "await"
    BY <1>3 DEF ListTasks, Goto, NoStore, storeVars, IInv, TypeOK, PassTypeOK
  <2>3. \A t \in Tasks : \A r \in Duty(c, t) : r.do \in {"adopt", "observe"} =>
          r.job \in JobId /\ jobs[r.job].name = r.task /\ jobs[r.job].status \in Listed
    BY <1>0 DEF Duty
  <2>4. RowsNameOwnJob'
    <3> SUFFICES ASSUME NEW d \in Controllers, NEW r \in todo'[d],
                        r.do \in {"adopt", "observe"}
                 PROVE  /\ r.job \in JobId /\ jobs[r.job].name = r.task
                        /\ jobs[r.job].status \in Listed
      BY <2>2 DEF RowsNameOwnJob
    <3>1. CASE d = c
      BY <2>1, <2>3, <3>1 DEF IInv, TypeOK, PassTypeOK
    <3>2. CASE d # c
      BY <2>1, <3>2 DEF IInv, TypeOK, PassTypeOK, RowsNameOwnJob
    <3> QED
      BY <3>1, <3>2
  <2>5. SeenIsListed'
    BY <2>2 DEF IInv, SeenIsListed
  <2>6. CallsKept
    BY <2>2, SameJobs DEF CallsKept
  <2> QED
    BY <2>2, <2>4, <2>5, <2>6, SameJobs, RowsStep, CallStep DEF PassInv
<1>4. ASSUME NEW r \in todo[c], NEW more, NextRows(c, r, more),
             \A q \in more : q.do \in {"adopt", "observe"} =>
               q.job \in JobId /\ jobs[q.job].name = q.task /\ jobs[q.job].status \in Listed,
             UNCHANGED <<pc, seen, batch, call, jobs>>, PresentKept
      PROVE  PassInv' /\ CallInv'
  <2>1. SeenIsListed'
    BY <1>4 DEF IInv, SeenIsListed
  <2>2. RowsNameOwnJob'
    <3> SUFFICES ASSUME NEW d \in Controllers, NEW q \in todo'[d],
                        q.do \in {"adopt", "observe"}
                 PROVE  /\ q.job \in JobId /\ jobs[q.job].name = q.task
                        /\ jobs[q.job].status \in Listed
      BY <1>4 DEF RowsNameOwnJob
    <3>1. q \in todo[d] \/ q \in more
      BY <1>4 DEF NextRows, IInv, TypeOK, PassTypeOK
    <3> QED
      BY <1>4, <3>1 DEF IInv, RowsNameOwnJob
  <2>3. CallInv'
    BY <1>4, SameJobs, CallStep
  <2> QED
    BY <2>1, <2>2, <2>3 DEF PassInv
<1>5. ASSUME Die(c) PROVE RowsInv' /\ PassInv' /\ CallInv'
  BY <1>5, LeaveOnly DEF Die, storeVars
<1>6. ASSUME NEW r \in todo[c], Adopt(c, r) PROVE RowsInv' /\ PassInv' /\ CallInv'
  <2>1. CASE MayBind(r.task, r.job)
    <3>1. /\ r.task \in Tasks /\ r.job \in JobId
          /\ jobs[r.job].name = r.task /\ jobs[r.job].status \in Listed
      BY <1>0, <1>6 DEF IInv, RowsNameOwnJob, Adopt
    <3>2. /\ Bind(r.task, r.job) /\ NextRows(c, r, {[r EXCEPT !.do = "reread"]})
          /\ UNCHANGED <<pc, seen, batch, call, jobs>>
      BY <1>6, <2>1 DEF Adopt, OnlyStore
    <3>3. [r EXCEPT !.do = "reread"].do = "reread"
      BY <1>0
    <3>4. RowsInv' /\ PresentKept
      BY <3>1, <3>2, SameJobs, StoreSteps
    <3> QED
      BY <1>4, <3>2, <3>3, <3>4
  <2> QED
    BY <1>5, <1>6, <2>1 DEF Adopt
<1>7. ASSUME NEW r \in todo[c], Reread(c, r) PROVE RowsInv' /\ PassInv' /\ CallInv'
  <2>1. /\ r.task \in Tasks
        /\ UNCHANGED <<status, jobOf, created, pc, seen, batch, call, jobs>>
    BY <1>0, <1>7 DEF Reread, NoStore, storeVars
  <2>2. \A j \in JobsFor(c, r.task) :
          /\ [r EXCEPT !.do = "observe", !.job = j].job = j
          /\ [r EXCEPT !.do = "observe", !.job = j].task = r.task
    BY <1>0
  <2>3. PICK more : /\ NextRows(c, r, more)
                    /\ \A q \in more : /\ q.job \in JobId /\ jobs[q.job].name = q.task
                                       /\ jobs[q.job].status \in Listed
    <3>1. CASE NextRows(c, r, {})
      BY <3>1
    <3>2. CASE \E j \in JobsFor(c, r.task) :
                 NextRows(c, r, {[r EXCEPT !.do = "observe", !.job = j]})
      <4>1. PICK j \in JobsFor(c, r.task) :
              NextRows(c, r, {[r EXCEPT !.do = "observe", !.job = j]})
        BY <3>2
      <4> DEFINE more == {[r EXCEPT !.do = "observe", !.job = j]}
      <4>2. \A q \in more : /\ q.job \in JobId /\ jobs[q.job].name = q.task
                            /\ jobs[q.job].status \in Listed
        <5>1. j \in JobId /\ jobs[j].name = r.task /\ jobs[j].status \in Listed
          BY <1>0, <2>1
        <5> QED
          BY <2>2, <5>1
      <4>3. NextRows(c, r, more)
        BY <4>1
      <4> HIDE DEF more
      <4> QED
        BY <4>2, <4>3
    <3> QED
      BY <1>7, <3>1, <3>2 DEF Reread
  <2> QED
    BY <1>4, <2>1, <2>3, SameJobs, RowsStep
<1>8. ASSUME NEW r \in todo[c], Expire(c, r) PROVE RowsInv' /\ PassInv' /\ CallInv'
  <2>1. CASE MayReset(r.task)
    <3>1. /\ r.task \in Tasks /\ Reset(r.task) /\ NextRows(c, r, {})
          /\ UNCHANGED <<pc, seen, batch, call, jobs>>
      BY <1>0, <1>8, <2>1 DEF Expire, OnlyStore
    <3>2. RowsInv' /\ PresentKept
      BY <3>1, SameJobs, StoreSteps
    <3> QED
      BY <1>4, <3>1, <3>2
  <2> QED
    BY <1>5, <1>8, <2>1 DEF Expire
<1>9. ASSUME NEW r \in todo[c], ObserveRow(c, r) PROVE RowsInv' /\ PassInv' /\ CallInv'
  <2>1. CASE FreeFor(r.task, r.job)
    <3>1. /\ r.task \in Tasks /\ r.job \in JobId
          /\ jobs[r.job].name = r.task /\ jobs[r.job].status \in Listed
      BY <1>0, <1>9 DEF IInv, RowsNameOwnJob, ObserveRow
    <3>2. /\ Observe(r.task, r.job, seen[c][r.job]) /\ NextRows(c, r, {})
          /\ UNCHANGED <<pc, seen, batch, call, jobs>>
      BY <1>9, <2>1 DEF ObserveRow, OnlyStore
    <3>3. seen[c][r.job] = "SUCCEEDED" => jobs[r.job].status = "SUCCEEDED"
      BY <3>1 DEF IInv, SeenIsListed
    <3>4. RowsInv' /\ PresentKept
      BY <3>1, <3>2, <3>3, SameJobs, StoreSteps
    <3> QED
      BY <1>4, <3>2, <3>4
  <2> QED
    BY <1>5, <1>9, <2>1 DEF ObserveRow
<1> QED
  BY <1>1, <1>2, <1>3, <1>6, <1>7, <1>8, <1>9 DEF ScanStep

\* Going on with the batch drops a task and the call it waited for.
LEMMA NextTaskStep ==
  ASSUME IInv, NEW c \in Controllers, NEW t \in Tasks, NextTask(c, t),
         PresentKept, jobs' = jobs
  PROVE  PassesKept /\ CallsKept
<1>1. CASE batch[c] = {t}
  BY <1>1, LeaveStep, SameJobs DEF NextTask
<1>2. CASE batch[c] # {t}
  <2>1. /\ UNCHANGED <<seen, todo>>
        /\ batch' = [batch EXCEPT ![c] = batch[c] \ {t}]
        /\ call' = [call EXCEPT ![c] = NoJob]
        /\ pc' = [pc EXCEPT ![c] = "launch"]
    BY <1>2 DEF NextTask, Goto
  <2>2. call'[c] = NoJob /\ pc'[c] # "await" /\ batch'[c] \subseteq Present'
    BY <2>1 DEF IInv, TypeOK, PassTypeOK, BatchPresent, PresentKept
  <2>3. \A d \in Controllers \ {c} :
          call'[d] = call[d] /\ batch'[d] = batch[d] /\ pc'[d] = pc[d]
    BY <2>1 DEF IInv, TypeOK, PassTypeOK
  <2> QED
    BY <2>1, <2>2, <2>3, SameJobs DEF PassesKept, CallsKept
<1> QED
  BY <1>1, <1>2

\* Two tasks of a batch are never both the one at hand.
LEMMA OneAtHand ==
  ASSUME TypeOK, NEW c \in Controllers, NEW t \in Tasks, NEW u \in Tasks,
         AtTask(c, t), AtTask(c, u)
  PROVE  t = u
<1>1. /\ PriorityOf[t] \in Int /\ PriorityOf[u] \in Int
      /\ created[t] \in Int /\ created[u] \in Int
  <2>1. PriorityOf \in [Tasks -> -1000..1000]
    BY StoreAssumption
  <2>2. PriorityOf[t] \in Int
    BY <2>1
  <2>3. PriorityOf[u] \in Int
    BY <2>1
  <2>4. created[t] \in Int /\ created[u] \in Int
    BY DEF TypeOK, StoreTypeOK
  <2> QED
    BY <2>2, <2>3, <2>4
<1>2. CASE t # u
  <2>1. Before(t, u) /\ Before(u, t)
    BY <1>2 DEF AtTask
  <2> QED
    BY <1>1, <2>1 DEF Before
<1> QED
  BY <1>2

\* Admission and launches bind a task only to the job asked for under its name.
LEMMA LaunchKeeps ==
  ASSUME IInv, NEW c \in Controllers,
         \/ ReserveBatch(c)
         \/ \E t \in Tasks : \/ BuildFails(c, t) \/ Launch(c, t) \/ LaunchReturns(c, t)
                             \/ LaunchRefused(c, t) \/ LaunchLost(c, t)
  PROVE  RowsInv' /\ PassInv' /\ CallInv'
<1>0. /\ jobs \in [JobId -> [name : Tasks \cup {NoTask},
                            status : Listed \cup {"NONE", "REQUESTED"}, wait : 0..MaxDelay]]
      /\ \A d \in Controllers : call[d] \in JobId \cup {NoJob}
  BY DEF IInv, TypeOK, JobsTypeOK, PassTypeOK
<1>1. ASSUME ReserveBatch(c) PROVE RowsInv' /\ PassInv' /\ CallInv'
  <2>1. PICK S \in SUBSET Pending :
          /\ Reserve(S, passAge[c])
          /\ IF S = {} THEN Leave(c, "idle")
             ELSE /\ batch' = [batch EXCEPT ![c] = S]
                  /\ seen' = [seen EXCEPT ![c] = Unseen]
                  /\ Goto(c, "launch")
                  /\ UNCHANGED <<passAge, todo, call>>
    BY <1>1 DEF ReserveBatch
  <2>2. /\ UNCHANGED <<jobOf, created, jobs>>
        /\ pc[c] = "scan"
        /\ status' = [t \in Tasks |-> IF t \in S THEN "SUBMITTING" ELSE status[t]]
    BY <1>1, <2>1 DEF ReserveBatch, Reserve, OnlyStore
  <2>3. \A t \in S : t \in Tasks /\ jobOf[t] = NoJob
    BY DEF Pending, IInv, UnlaunchedHasNoJob
  <2>4. RowsInv'
    <3>1. UnlaunchedHasNoJob'
      BY <2>2, <2>3 DEF IInv, UnlaunchedHasNoJob
    <3>2. BoundToOwnJob'
      BY <2>2 DEF IInv, BoundToOwnJob
    <3>3. SucceededIsTrue'
      BY <2>2 DEF IInv, SucceededIsTrue
    <3> QED
      BY <3>1, <3>2, <3>3 DEF RowsInv
  <2>5. PresentKept /\ S \subseteq Present'
    BY <2>2, <2>3 DEF PresentKept, Present
  <2>6. CASE S = {}
    BY <2>1, <2>2, <2>4, <2>5, <2>6, SameJobs, LeaveStep, PassStep, CallStep
  <2>7. CASE S # {}
    <3>1. PassesKept
      BY <2>1, <2>7 DEF PassesKept, IInv, TypeOK, PassTypeOK
    <3>2. /\ UNCHANGED call
          /\ pc' = [pc EXCEPT ![c] = "launch"]
          /\ batch' = [batch EXCEPT ![c] = S]
      BY <2>1, <2>7 DEF Goto
    <3>3. BatchPresent'
      BY <2>5, <3>2 DEF BatchPresent, PresentKept, IInv, TypeOK, PassTypeOK
    <3>4. ASSUME NEW d \in Controllers, NEW t \in Tasks, pc'[d] = "await", AtTask(d, t)'
          PROVE  call[d] # NoJob /\ jobs[call[d]].name = t
      <4>1. pc[d] = "await" /\ batch'[d] = batch[d]
        BY <3>2, <3>4 DEF IInv, TypeOK, PassTypeOK
      <4>2. AtTask(d, t)
        BY <2>2, <3>4, <4>1 DEF AtTask, Before
      <4> QED
        BY <4>1, <4>2 DEF IInv, CallIsOwn
    <3>5. CallIsOwn'
      BY <2>2, <3>2, <3>4 DEF IInv, CallIsOwn
    <3> QED
      BY <2>2, <2>4, <3>1, <3>3, <3>5, SameJobs, PassStep DEF CallInv
  <2> QED
    BY <2>6, <2>7
<1>2. ASSUME NEW t \in Tasks, BuildFails(c, t) PROVE RowsInv' /\ PassInv' /\ CallInv'
  <2>1. Fail(t) /\ NextTask(c, t) /\ jobs' = jobs
    BY <1>2 DEF BuildFails, OnlyStore
  <2>2. RowsInv' /\ PresentKept
    BY <2>1, SameJobs, StoreSteps
  <2> QED
    BY <2>1, <2>2, SameJobs, NextTaskStep, PassStep, CallStep
<1>3. ASSUME NEW t \in Tasks, Launch(c, t) PROVE RowsInv' /\ PassInv' /\ CallInv'
  <2>1. PICK j \in JobId : Request(t, j) /\ call' = [call EXCEPT ![c] = j]
    BY <1>3 DEF Launch
  <2>2. /\ UNCHANGED <<status, jobOf, created, seen, todo, batch>>
        /\ pc' = [pc EXCEPT ![c] = "await"] /\ AtTask(c, t)
    BY <1>3 DEF Launch, Goto, storeVars
  <2>3. /\ jobs[j].status = "NONE"
        /\ jobs'[j].name = t /\ jobs'[j].status = "REQUESTED"
        /\ \A i \in JobId \ {j} : jobs'[i] = jobs[i]
    BY <1>0, <2>1 DEF Request, FreeSlot
  <2>4. JobsKept /\ PassesKept
    BY <2>2, <2>3 DEF JobsKept, PassesKept, Listed, Running, Finished
  <2>5. /\ call'[c] = j /\ j # NoJob
        /\ \A d \in Controllers \ {c} : call'[d] = call[d] /\ pc'[d] = pc[d]
        /\ \A d \in Controllers : call[d] # j
    BY <1>0, <2>1, <2>2, <2>3, NamesAssumption DEF IInv, TypeOK, PassTypeOK, CallIsOwn
  <2>6. CallIsOwn'
    <3>1. \A d \in Controllers : call'[d] # NoJob => jobs'[call'[d]].status # "NONE"
      BY <1>0, <2>3, <2>5 DEF IInv, CallIsOwn
    <3>2. \A d, e \in Controllers : call'[d] = call'[e] /\ call'[d] # NoJob => d = e
      BY <2>5 DEF IInv, CallIsOwn
    <3>3. ASSUME NEW d \in Controllers, NEW u \in Tasks, pc'[d] = "await", AtTask(d, u)'
          PROVE  call'[d] # NoJob /\ jobs'[call'[d]].name = u
      <4>1. AtTask(d, u)
        BY <2>2, <3>3 DEF AtTask, Before
      <4>2. CASE d = c
        BY <2>2, <2>3, <2>5, <4>1, <4>2, OneAtHand DEF IInv
      <4>3. CASE d # c
        BY <1>0, <2>3, <2>5, <3>3, <4>1, <4>3 DEF IInv, CallIsOwn
      <4> QED
        BY <4>2, <4>3
    <3> QED
      BY <3>1, <3>2, <3>3 DEF CallIsOwn
  <2>7. BatchPresent'
    BY <2>2 DEF IInv, BatchPresent, Present
  <2> QED
    BY <2>2, <2>4, <2>6, <2>7, RowsStep, PassStep DEF CallInv
<1>4. ASSUME Die(c) PROVE RowsInv' /\ PassInv' /\ CallInv'
  BY <1>4, LeaveOnly DEF Die, storeVars
<1>5. ASSUME NEW t \in Tasks, LaunchReturns(c, t) PROVE RowsInv' /\ PassInv' /\ CallInv'
  <2>1. CASE MayBind(t, call[c])
    <3>1. /\ call[c] \in JobId /\ jobs[call[c]].name = t
          /\ jobs[call[c]].status \in Listed
      BY <1>0, <1>5 DEF LaunchReturns, IInv, CallIsOwn
    <3>2. Bind(t, call[c]) /\ NextTask(c, t) /\ jobs' = jobs
      BY <1>5, <2>1 DEF LaunchReturns, OnlyStore
    <3>3. RowsInv' /\ PresentKept
      BY <3>1, <3>2, SameJobs, StoreSteps
    <3> QED
      BY <3>2, <3>3, SameJobs, NextTaskStep, PassStep, CallStep
  <2> QED
    BY <1>4, <1>5, <2>1 DEF LaunchReturns
<1>6. ASSUME NEW t \in Tasks, LaunchLost(c, t) PROVE RowsInv' /\ PassInv' /\ CallInv'
  <2>1. CASE MayReset(t)
    <3>1. Reset(t) /\ Leave(c, "idle") /\ jobs' = jobs
      BY <1>6, <2>1 DEF LaunchLost, GiveUp, OnlyStore
    <3>2. RowsInv' /\ PresentKept
      BY <3>1, SameJobs, StoreSteps
    <3> QED
      BY <3>1, <3>2, SameJobs, LeaveStep, PassStep, CallStep
  <2> QED
    BY <1>4, <1>6, <2>1 DEF LaunchLost
<1>7. ASSUME NEW t \in Tasks, LaunchRefused(c, t) PROVE RowsInv' /\ PassInv' /\ CallInv'
  <2>1. /\ call[c] \in JobId /\ jobs[call[c]].status = "REQUESTED"
        /\ \A i \in JobId \ {call[c]} : jobs'[i] = jobs[i]
    <3>1. call[c] # NoJob
      BY <1>7 DEF LaunchRefused, IInv, CallIsOwn
    <3> QED
      BY <1>0, <1>7, <3>1 DEF LaunchRefused, Refuse
  <2>2. JobsKept
    BY <2>1 DEF JobsKept, Listed, Running, Finished
  <2>3. \A d \in Controllers \ {c} : call[d] # NoJob =>
          jobs'[call[d]].name = jobs[call[d]].name /\ jobs'[call[d]].status # "NONE"
    BY <1>0, <2>1 DEF IInv, CallIsOwn
  <2>4. CASE MayReset(t)
    <3>1. Reset(t) /\ Leave(c, "idle")
      BY <1>7, <2>4 DEF LaunchRefused, GiveUp
    <3>2. RowsInv' /\ PresentKept
      BY <2>2, <3>1, StoreSteps
    <3> QED
      BY <2>2, <2>3, <3>1, <3>2, LeaveStep, PassStep, CallStep
  <2>5. CASE ~MayReset(t)
    <3>1. Leave(c, "dead") /\ UNCHANGED <<status, jobOf, created>>
      BY <1>7, <2>5 DEF LaunchRefused, storeVars
    <3>2. PresentKept
      BY <3>1 DEF PresentKept, Present
    <3> QED
      BY <2>2, <2>3, <3>1, <3>2, LeaveStep, RowsStep, PassStep, CallStep
  <2> QED
    BY <2>4, <2>5
<1> QED
  BY <1>1, <1>2, <1>3, <1>5, <1>6, <1>7

\* The API touches no job, and SkyPilot keeps listed jobs listed and requests named.
LEMMA WorldKeeps ==
  ASSUME IInv,
         \/ \E t \in Tasks : SubmitTask(t)
         \/ \E k \in Classes, p \in Policies : ChangePolicy(k, p)
         \/ \E j \in JobId : AcceptJob(j) \/ RefuseJob(j)
         \/ \E j \in JobId, s \in Listed : MoveJob(j, s)
         \/ Tick
  PROVE  RowsInv' /\ PassInv' /\ CallInv'
<1>0. /\ jobs \in [JobId -> [name : Tasks \cup {NoTask},
                            status : Listed \cup {"NONE", "REQUESTED"}, wait : 0..MaxDelay]]
      /\ \A d \in Controllers : call[d] \in JobId \cup {NoJob}
      /\ \A d \in Controllers : call[d] # NoJob => jobs[call[d]].status # "NONE"
  BY DEF IInv, TypeOK, JobsTypeOK, PassTypeOK, CallIsOwn
<1>1. ASSUME NEW t \in Tasks, SubmitTask(t) PROVE RowsInv' /\ PassInv' /\ CallInv'
  <2>1. Submit(t) /\ UNCHANGED <<jobs, pc, seen, todo, batch, call>>
    BY <1>1 DEF SubmitTask, localVars
  <2>2. RowsInv' /\ PresentKept
    BY <2>1, SameJobs, StoreSteps
  <2>3. PassesKept
    BY <2>1 DEF PassesKept
  <2> QED
    BY <2>1, <2>2, <2>3, SameJobs, PassStep, CallStep
<1>2. ASSUME JobsKept, UNCHANGED <<status, jobOf, created, pc, seen, todo, batch, call>>,
             \A d \in Controllers : call[d] # NoJob =>
               jobs'[call[d]].name = jobs[call[d]].name /\ jobs'[call[d]].status # "NONE"
      PROVE  RowsInv' /\ PassInv' /\ CallInv'
  <2>1. PassesKept /\ PresentKept /\ CallsKept
    BY <1>2 DEF PassesKept, PresentKept, Present, CallsKept
  <2> QED
    BY <1>2, <2>1, RowsStep, PassStep, CallStep
<1>3. ASSUME NEW k \in Classes, NEW p \in Policies, ChangePolicy(k, p)
      PROVE  RowsInv' /\ PassInv' /\ CallInv'
  BY <1>2, <1>3, SameJobs DEF ChangePolicy, SetPolicy, localVars
<1>4. ASSUME NEW j \in JobId, AcceptJob(j) \/ RefuseJob(j)
      PROVE  RowsInv' /\ PassInv' /\ CallInv'
  <2>1. /\ jobs[j].status = "REQUESTED"
        /\ \A i \in JobId \ {j} : jobs'[i] = jobs[i]
        /\ UNCHANGED <<status, jobOf, created, pc, seen, todo, batch, call>>
    BY <1>0, <1>4 DEF AcceptJob, RefuseJob, Accept, Refuse, storeVars, localVars
  <2>2. \/ jobs'[j].name = jobs[j].name /\ jobs'[j].status # "NONE"
        \/ \A d \in Controllers : call[d] # j
    BY <1>0, <1>4 DEF AcceptJob, RefuseJob, Accept
  <2>3. JobsKept
    BY <2>1 DEF JobsKept, Listed, Running, Finished
  <2>4. \A d \in Controllers : call[d] # NoJob =>
          jobs'[call[d]].name = jobs[call[d]].name /\ jobs'[call[d]].status # "NONE"
    BY <1>0, <2>1, <2>2
  <2> QED
    BY <1>2, <2>1, <2>3, <2>4
<1>5. ASSUME NEW j \in JobId, NEW s \in Listed, MoveJob(j, s)
      PROVE  RowsInv' /\ PassInv' /\ CallInv'
  <2>1. /\ s \in Moves(jobs[j].status)
        /\ jobs'[j].name = jobs[j].name /\ jobs'[j].status = s
        /\ \A i \in JobId \ {j} : jobs'[i] = jobs[i]
        /\ UNCHANGED <<status, jobOf, created, pc, seen, todo, batch, call>>
    BY <1>0, <1>5 DEF MoveJob, Move, storeVars, localVars
  <2>2. s # "NONE" /\ jobs[j].status # "SUCCEEDED"
    BY <2>1 DEF Moves, Listed, Running, Finished
  <2>3. JobsKept
    BY <2>1, <2>2 DEF JobsKept
  <2> QED
    BY <1>0, <1>2, <2>1, <2>2, <2>3
<1>6. ASSUME Tick PROVE RowsInv' /\ PassInv' /\ CallInv'
  <2>1. UNCHANGED <<status, jobOf, created, pc, seen, todo, batch, call>>
    BY <1>6 DEF Tick, StoreTick
  <2>2. \A j \in JobId : jobs'[j].name = jobs[j].name /\ jobs'[j].status = jobs[j].status
    <3> SUFFICES ASSUME NEW j \in JobId
                 PROVE  jobs'[j].name = jobs[j].name /\ jobs'[j].status = jobs[j].status
      OBVIOUS
    <3>1. jobs'[j] = IF jobs[j].status = "REQUESTED"
                       THEN [jobs[j] EXCEPT !.wait = jobs[j].wait + 1] ELSE jobs[j]
      BY <1>6 DEF Tick, JobsTick
    <3> QED
      BY <1>0, <3>1
  <2>3. JobsKept
    BY <2>2 DEF JobsKept
  <2> QED
    BY <1>0, <1>2, <2>1, <2>2, <2>3
<1> QED
  BY <1>1, <1>3, <1>4, <1>5, <1>6

\* Nothing is known, bound or awaited at the start.
LEMMA InitIInv == Init => IInv
  BY InitType
  DEF Init, IInv, StoreInit, UnlaunchedHasNoJob, BoundToOwnJob, SucceededIsTrue,
      SeenIsListed, Unseen, RowsNameOwnJob, CallIsOwn, BatchPresent

\* Every step keeps the inductive invariant.
LEMMA IInvStep == IInv /\ [Next]_vars => IInv'
<1> SUFFICES ASSUME IInv, [Next]_vars PROVE IInv'
  OBVIOUS
<1>1. TypeOK'
  BY TypeStep DEF IInv
<1>2. CASE UNCHANGED vars
  <2>1. /\ UNCHANGED <<status, jobOf, created, jobs, pc, seen, todo, batch, call>>
        /\ PassesKept
    BY <1>2 DEF vars, storeVars, localVars, PassesKept
  <2> QED
    BY <1>1, <2>1, SameJobs, RowsStep, PassStep, CallStep
    DEF IInv, RowsInv, PassInv, CallInv
<1>3. CASE Next
  <2>1. RowsInv' /\ PassInv' /\ CallInv'
    BY <1>3, LeadStep, ScanKeeps, LaunchKeeps, WorldKeeps DEF Next, Run
  <2> QED
    BY <1>1, <2>1 DEF IInv, RowsInv, PassInv, CallInv
<1> QED
  BY <1>2, <1>3

\* What any process still has in its local variables, however old, agrees with SkyPilot's
\* jobs (the listing, the rows to handle, the awaited launch).
THEOREM ReconcileInvariant == Spec => []IInv
  BY InitIInv, IInvStep, PTL DEF Spec

\* A task that waits for admission or for its launch has no job id, whoever reset it.
THEOREM WaitingTasksHaveNoJob == Spec => []UnlaunchedHasNoJob
<1>1. IInv => UnlaunchedHasNoJob
  BY DEF IInv
<1> QED
  BY <1>1, ReconcileInvariant, PTL

\* A row names only a job launched under the task's own name.
THEOREM RowsNameTheirJob == Spec => []BoundToOwnJob
<1>1. IInv => BoundToOwnJob
  BY DEF IInv
<1> QED
  BY <1>1, ReconcileInvariant, PTL

\* A task is SUCCEEDED only when a job of its name has SUCCEEDED, even with two leaders
\* and listings of any age.
THEOREM SuccessIsReal == Spec => []SucceededIsTrue
<1>1. IInv => SucceededIsTrue
  BY DEF IInv
<1> QED
  BY <1>1, ReconcileInvariant, PTL
=============================================================================

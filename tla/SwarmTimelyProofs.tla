-------------------------- MODULE SwarmTimelyProofs --------------------------
(***************************************************************************)
(* What holds of reconciliation when a pass is shorter than the lease, and *)
(* a pass and the delay of a request together are shorter than the grace   *)
(* window: no duplicate job, no pass that ends in an exception, and every  *)
(* task living the life of TaskLife, for every set of tasks, jobs and      *)
(* controllers, every such lengths, and crashes wherever they happen.      *)
(***************************************************************************)
EXTENDS SwarmProofs

\* While a process is in a pass, its lease has not run out and no other process has
\* anything in its local variables.
LEMMA Alone ==
  ASSUME IInv, TimelyInv, Timely, NEW c \in Controllers, InPass(c)
  PROVE  /\ holder = c /\ leaseLeft >= 1
         /\ \A d \in Controllers \ {c} :
              /\ ~InPass(d) /\ passAge[d] = 0 /\ seen[d] = Unseen
              /\ todo[d] = {} /\ batch[d] = {} /\ call[d] = NoJob
<1>1. passAge[c] \in 0..MaxPass /\ leaseLeft \in Int
  BY DEF IInv, TypeOK, PassTypeOK, LeaseTypeOK, Left
<1>2. holder = c /\ leaseLeft >= 1
  BY <1>1, ControllerAssumption, LeaseAssumption DEF TimelyInv, LeadsAlone, Timely
<1>3. \A d \in Controllers \ {c} : ~InPass(d)
  BY <1>2 DEF TimelyInv, LeadsAlone
<1> QED
  BY <1>2, <1>3 DEF TimelyInv, InPlace, InPass

-----------------------------------------------------------------------------
(* The API, SkyPilot and time.                                             *)

\* Steps of the world leave the passes where they are.
LEMMA PassesStay ==
  ASSUME TimelyInv, UNCHANGED <<localVars, holder, leaseLeft>>
  PROVE  LeadsAlone' /\ InPlace' /\ ControllerSurvives'
  BY DEF TimelyInv, localVars, LeadsAlone, InPass, InPlace, Unseen, ControllerSurvives

\* A new task has no job and no process knows it.
LEMMA SubmitTimely ==
  ASSUME IInv, TimelyInv, NEW t \in Tasks, SubmitTask(t)
  PROVE  TimelyInv'
<1>1. /\ UNCHANGED <<jobs, age, pc, passAge, seen, todo, batch, call, holder, leaseLeft>>
      /\ status[t] = "ABSENT" /\ status'[t] = "PENDING"
      /\ \A u \in Tasks \ {t} : status'[u] = status[u]
  BY DEF SubmitTask, Submit, leaseVars, localVars, IInv, TypeOK, StoreTypeOK
<1>2. LeadsAlone' /\ InPlace' /\ ControllerSurvives'
  BY PassesStay DEF SubmitTask, leaseVars
<1>3. \A c \in Controllers : batch[c] \subseteq Tasks /\ \A r \in todo[c] : r.task \in Tasks
  BY DEF IInv, TypeOK, PassTypeOK
<1>4. WaitingHasNoJob'
  BY <1>1, <1>3 DEF TimelyInv, WaitingHasNoJob, JobsOf
<1>5. NoDuplicateJob'
  BY <1>1 DEF TimelyInv, NoDuplicateJob
<1>6. RowsCurrent'
  BY <1>1, <1>3 DEF TimelyInv, RowsCurrent, JobsOf
<1>7. WindowOpen'
  BY <1>1, <1>3 DEF TimelyInv, WindowOpen, JobsOf
<1>8. RunningSeen'
  BY <1>1 DEF TimelyInv, RunningSeen
<1> QED
  BY <1>2, <1>4, <1>5, <1>6, <1>7, <1>8 DEF TimelyInv

\* A job keeps its name or frees its slot; it never becomes PENDING but by Accept.
LEMMA JobTimely ==
  ASSUME IInv, TimelyInv, Timely, NEW j \in JobId,
         AcceptJob(j) \/ RefuseJob(j) \/ \E s \in Listed : MoveJob(j, s)
  PROVE  TimelyInv'
<1>0. /\ jobs \in [JobId -> [name : Tasks \cup {NoTask},
                            status : Listed \cup {"NONE", "REQUESTED"}, wait : 0..MaxDelay]]
      /\ \A c \in Controllers : batch[c] \subseteq Tasks /\ \A r \in todo[c] : r.task \in Tasks
      /\ \A c \in Controllers : passAge[c] \in 0..MaxPass
      /\ age \in [Tasks -> 0..MaxAge]
  BY DEF IInv, TypeOK, JobsTypeOK, StoreTypeOK, PassTypeOK
<1>1. /\ UNCHANGED <<status, age, pc, passAge, seen, todo, batch, call, holder, leaseLeft>>
      /\ \A i \in JobId \ {j} : jobs'[i] = jobs[i]
  BY <1>0 DEF AcceptJob, RefuseJob, MoveJob, Accept, Refuse, Move, storeVars, leaseVars,
              localVars
<1>2. LeadsAlone' /\ InPlace' /\ ControllerSurvives'
  BY PassesStay DEF AcceptJob, RefuseJob, MoveJob, leaseVars
<1>3. \/ /\ jobs[j].status = "REQUESTED"
         /\ jobs'[j].name = jobs[j].name /\ jobs'[j].status = "PENDING"
      \/ jobs[j].status = "REQUESTED" /\ jobs'[j].name = NoTask /\ jobs'[j].status = "NONE"
      \/ /\ jobs[j].status \in Listed
         /\ jobs'[j].name = jobs[j].name /\ jobs'[j].status \in Listed \ {"PENDING"}
  BY <1>0 DEF AcceptJob, RefuseJob, MoveJob, Accept, Refuse, Move, FreeSlot, Moves, Listed,
              Running, Finished
<1>4. /\ \A t \in Tasks : JobsOf(t)' \subseteq JobsOf(t)
      /\ NoTask \notin Tasks
  BY <1>1, <1>3, JobsAssumption DEF JobsOf
<1>5. WaitingHasNoJob'
  BY <1>0, <1>1, <1>3, <1>4 DEF TimelyInv, WaitingHasNoJob, Listed, Running, Finished
<1>6. NoDuplicateJob'
  BY <1>1, <1>3 DEF TimelyInv, NoDuplicateJob
<1>7. RowsCurrent'
  BY <1>0, <1>1, <1>4 DEF TimelyInv, RowsCurrent
<1>8. WindowOpen'
  <2> SUFFICES ASSUME NEW t \in Tasks, NEW i \in JobsOf(t)', status[t] = "SUBMITTING"
               PROVE  /\ jobs'[i].status = "REQUESTED" => age[t] <= MaxPass + jobs'[i].wait
                      /\ \A c \in Controllers :
                           pc[c] = "listed" /\ seen[c][i] = "NONE" => age[t] - passAge[c] < Grace
    BY <1>1 DEF TimelyInv, WindowOpen
  <2>1. i \in JobsOf(t) /\ i \in JobId
    BY <1>4 DEF JobsOf
  <2>2. CASE i # j
    BY <1>1, <2>1, <2>2 DEF TimelyInv, WindowOpen
  <2>3. CASE i = j
    BY <1>0, <1>3, <2>1, <2>3 DEF TimelyInv, WindowOpen, Listed, Running, Finished
  <2> QED
    BY <2>2, <2>3
<1>9. RunningSeen'
  <2>1. \A c \in Controllers : seen[c][j] # "NONE" => jobs[j].status # "REQUESTED"
    BY DEF IInv, SeenIsListed, Listed, Running, Finished
  <2> QED
    BY <1>1, <1>3, <2>1, JobsAssumption
    DEF TimelyInv, RunningSeen, Listed, Running, Finished
<1> QED
  BY <1>2, <1>5, <1>6, <1>7, <1>8, <1>9 DEF TimelyInv

\* A policy is read by admission only.
LEMMA PolicyTimely ==
  ASSUME IInv, TimelyInv, NEW k \in Classes, NEW p \in Policies, ChangePolicy(k, p)
  PROVE  TimelyInv'
<1>1. UNCHANGED <<status, jobs, age, pc, passAge, seen, todo, batch, call, holder, leaseLeft>>
  BY DEF ChangePolicy, SetPolicy, leaseVars, localVars
<1>2. LeadsAlone' /\ InPlace' /\ ControllerSurvives'
  BY PassesStay DEF ChangePolicy, leaseVars
<1> QED
  BY <1>1, <1>2 DEF TimelyInv, WaitingHasNoJob, NoDuplicateJob, RowsCurrent, WindowOpen,
                    RunningSeen, JobsOf

\* A second counts for the age, the wait, the pass and the lease alike; it never takes a
\* pass beyond MaxPass or a request beyond MaxDelay.
LEMMA TickTimely ==
  ASSUME IInv, TimelyInv, Timely, Tick
  PROVE  TimelyInv'
<1>0. /\ jobs \in [JobId -> [name : Tasks \cup {NoTask},
                            status : Listed \cup {"NONE", "REQUESTED"}, wait : 0..MaxDelay]]
      /\ \A c \in Controllers : batch[c] \subseteq Tasks /\ \A r \in todo[c] : r.task \in Tasks
      /\ \A c \in Controllers : passAge[c] \in 0..MaxPass
      /\ age \in [Tasks -> 0..MaxAge]
      /\ leaseLeft \in Int
      /\ MaxPass \in Nat /\ MaxDelay \in Nat /\ MaxAge \in Nat /\ Grace \in Nat
      /\ LeaseSeconds \in Nat
  BY ControllerAssumption, JobsAssumption, StoreAssumption, LeaseAssumption
  DEF IInv, TypeOK, JobsTypeOK, StoreTypeOK, PassTypeOK, LeaseTypeOK, Left
<1>1. UNCHANGED <<status, pc, seen, todo, batch, call, holder>>
  BY DEF Tick, StoreTick, LeaseTick
<1>2. \A j \in JobId :
        /\ jobs'[j].name = jobs[j].name /\ jobs'[j].status = jobs[j].status
        /\ jobs[j].status = "REQUESTED" => jobs'[j].wait = jobs[j].wait + 1
  <2> SUFFICES ASSUME NEW j \in JobId
               PROVE  /\ jobs'[j].name = jobs[j].name /\ jobs'[j].status = jobs[j].status
                      /\ jobs[j].status = "REQUESTED" => jobs'[j].wait = jobs[j].wait + 1
    OBVIOUS
  <2>1. jobs'[j] = IF jobs[j].status = "REQUESTED"
                     THEN [jobs[j] EXCEPT !.wait = jobs[j].wait + 1] ELSE jobs[j]
    BY DEF Tick, JobsTick
  <2> QED
    BY <1>0, <2>1
<1>3. \A t \in Tasks : age'[t] \in Int /\ age'[t] <= age[t] + 1
  BY <1>0 DEF Tick, StoreTick
<1>4. \A c \in Controllers :
        /\ passAge'[c] = IF InPass(c) THEN passAge[c] + 1 ELSE passAge[c]
        /\ InPass(c)' = InPass(c)
  BY <1>1 DEF Tick, InPass
<1>5. leaseLeft >= 0 => leaseLeft' = leaseLeft - 1
  BY <1>0 DEF Tick, LeaseTick
<1>6. LeadsAlone'
  BY <1>0, <1>1, <1>4, <1>5, Alone DEF TimelyInv, LeadsAlone
<1>7. InPlace' /\ ControllerSurvives'
  BY <1>1, <1>4 DEF TimelyInv, InPlace, ControllerSurvives, Unseen
<1>8. \A t \in Tasks : JobsOf(t)' = JobsOf(t)
  BY <1>2 DEF JobsOf
<1>9. WaitingHasNoJob' /\ NoDuplicateJob' /\ RunningSeen'
  BY <1>0, <1>1, <1>2, <1>8 DEF TimelyInv, WaitingHasNoJob, NoDuplicateJob, RunningSeen
<1>10. RowsCurrent'
  BY <1>0, <1>1, <1>8 DEF TimelyInv, RowsCurrent
<1>11. WindowOpen'
  <2>1. ASSUME NEW c \in Controllers, NEW t \in batch[c] PROVE age'[t] <= passAge'[c]
    <3>1. InPass(c)
      BY <2>1 DEF TimelyInv, InPlace, InPass
    <3>2. age[t] <= passAge[c] /\ t \in Tasks
      BY <1>0, <2>1 DEF TimelyInv, WindowOpen
    <3> QED
      BY <1>0, <1>3, <1>4, <3>1, <3>2
  <2>2. ASSUME NEW t \in Tasks, NEW j \in JobsOf(t), status[t] = "SUBMITTING"
        PROVE  /\ jobs'[j].status = "REQUESTED" => age'[t] <= MaxPass + jobs'[j].wait
               /\ \A c \in Controllers :
                    pc[c] = "listed" /\ seen[c][j] = "NONE" => age'[t] - passAge'[c] < Grace
    <3>1. j \in JobId /\ jobs[j].wait \in Int
      BY <1>0, <2>2 DEF JobsOf
    <3>2. jobs'[j].status = "REQUESTED" => age'[t] <= MaxPass + jobs'[j].wait
      BY <1>0, <1>2, <1>3, <2>2, <3>1 DEF TimelyInv, WindowOpen
    <3>3. ASSUME NEW c \in Controllers, pc[c] = "listed", seen[c][j] = "NONE"
          PROVE  age'[t] - passAge'[c] < Grace
      <4>1. InPass(c) /\ age[t] - passAge[c] < Grace
        BY <2>2, <3>3 DEF TimelyInv, WindowOpen, InPass
      <4> QED
        BY <1>0, <1>3, <1>4, <4>1
    <3> QED
      BY <3>2, <3>3
  <2> QED
    BY <1>1, <1>8, <2>1, <2>2 DEF WindowOpen
<1> QED
  BY <1>6, <1>7, <1>9, <1>10, <1>11 DEF TimelyInv

-----------------------------------------------------------------------------
(* The head of the pass, and the life of processes.                        *)

\* A process that leaves its pass in order has nothing left to act on.
LEMMA LeaveTimely ==
  ASSUME IInv, TimelyInv, NEW c \in Controllers, NEW place \in {"down", "idle"},
         Leave(c, place), UNCHANGED <<holder, leaseLeft>>
  PROVE  /\ LeadsAlone' /\ InPlace' /\ ControllerSurvives'
         /\ todo'[c] = {} /\ batch'[c] = {} /\ call'[c] = NoJob /\ seen'[c] = Unseen
         /\ pc'[c] = place
         /\ \A d \in Controllers \ {c} :
              /\ todo'[d] = todo[d] /\ batch'[d] = batch[d] /\ call'[d] = call[d]
              /\ seen'[d] = seen[d] /\ pc'[d] = pc[d] /\ passAge'[d] = passAge[d]
<1>1. /\ todo'[c] = {} /\ batch'[c] = {} /\ call'[c] = NoJob /\ seen'[c] = Unseen
      /\ pc'[c] = place /\ passAge'[c] = 0
      /\ \A d \in Controllers \ {c} :
           /\ todo'[d] = todo[d] /\ batch'[d] = batch[d] /\ call'[d] = call[d]
           /\ seen'[d] = seen[d] /\ pc'[d] = pc[d] /\ passAge'[d] = passAge[d]
  BY DEF Leave, Goto, IInv, TypeOK, PassTypeOK
<1>2. LeadsAlone'
  BY <1>1 DEF TimelyInv, LeadsAlone, InPass
<1>3. InPlace'
  BY <1>1 DEF TimelyInv, InPlace, InPass, Unseen
<1>4. ControllerSurvives'
  BY <1>1 DEF TimelyInv, ControllerSurvives
<1> QED
  BY <1>1, <1>2, <1>3, <1>4

\* Leaving with the store and the jobs as they are loses no invariant.
LEMMA LeaveOnlyTimely ==
  ASSUME IInv, TimelyInv, NEW c \in Controllers, NEW place \in {"down", "idle"},
         Leave(c, place), UNCHANGED <<holder, leaseLeft, status, age, jobs>>
  PROVE  TimelyInv'
<1>1. \A t \in Tasks : JobsOf(t)' = JobsOf(t)
  BY DEF JobsOf
<1>2. \A d \in Controllers : batch[d] \subseteq Tasks /\ \A r \in todo[d] : r.task \in Tasks
  BY DEF IInv, TypeOK, PassTypeOK
<1>3. WaitingHasNoJob'
  BY <1>1, <1>2, LeaveTimely DEF TimelyInv, WaitingHasNoJob
<1>4. NoDuplicateJob'
  BY DEF TimelyInv, NoDuplicateJob
<1>5. RowsCurrent'
  BY <1>1, <1>2, LeaveTimely DEF TimelyInv, RowsCurrent
<1>6. WindowOpen'
  BY <1>1, <1>2, LeaveTimely DEF TimelyInv, WindowOpen
<1>7. RunningSeen'
  BY LeaveTimely DEF TimelyInv, RunningSeen, Unseen
<1> QED
  BY <1>3, <1>4, <1>5, <1>6, <1>7, LeaveTimely DEF TimelyInv

\* A pass starts with a whole lease, and only when no other pass is going on.
LEMMA LeadTimely ==
  ASSUME IInv, TimelyInv, Timely, NEW c \in Controllers,
         Lead(c) \/ LoseLead(c) \/ Start(c) \/ Crash(c)
  PROVE  TimelyInv'
<1>1. CASE Crash(c)
  BY <1>1, LeaveOnlyTimely DEF Crash, DropLease, storeVars
<1>2. CASE Lead(c) \/ LoseLead(c) \/ Start(c)
  <2>1. /\ UNCHANGED <<status, age, jobs, passAge, seen, todo, batch, call>>
        /\ \/ UNCHANGED <<pc, holder, leaseLeft>>
           \/ /\ pc[c] = "down" /\ pc' = [pc EXCEPT ![c] = "idle"]
              /\ UNCHANGED <<holder, leaseLeft>>
           \/ /\ pc[c] = "idle" /\ pc' = [pc EXCEPT ![c] = "leading"]
              /\ holder' = c /\ leaseLeft' = LeaseSeconds
              /\ holder = c \/ holder = Nobody \/ leaseLeft <= 0
    BY <1>2 DEF Lead, LoseLead, Start, TakeLease, KeepLease, LoseLease, Goto, NoStore,
                storeVars, leaseVars, localVars
  <2>2. /\ \A d \in Controllers \ {c} : pc'[d] = pc[d]
        /\ pc'[c] # "listed" /\ pc'[c] # "dead" /\ ~InPass(c)
        /\ pc'[c] \notin {"listed", "scan", "launch", "await"}
    <3>1. ~InPass(c)
      BY <1>2 DEF Lead, LoseLead, Start, InPass
    <3> QED
      BY <1>2, <2>1, <3>1 DEF IInv, TypeOK, PassTypeOK, InPass, TimelyInv, ControllerSurvives
  <2>3. LeadsAlone'
    <3>1. CASE pc'[c] # "leading"
      <4>1. UNCHANGED <<holder, leaseLeft, passAge>>
        BY <2>1, <3>1 DEF IInv, TypeOK, PassTypeOK
      <4>2. \A d \in Controllers : InPass(d)' => InPass(d)
        BY <2>1, <2>2, <3>1 DEF IInv, TypeOK, PassTypeOK, InPass
      <4> QED
        BY <4>1, <4>2 DEF TimelyInv, LeadsAlone
    <3>2. CASE /\ holder' = c /\ leaseLeft' = LeaseSeconds
               /\ holder = c \/ holder = Nobody \/ leaseLeft <= 0
      <4>1. \A d \in Controllers : ~InPass(d)
        <5> SUFFICES ASSUME NEW d \in Controllers, InPass(d) PROVE FALSE
          OBVIOUS
        <5>1. holder = d /\ leaseLeft >= 1
          BY Alone
        <5>2. leaseLeft \in Int
          BY DEF IInv, TypeOK, LeaseTypeOK, Left
        <5> QED
          BY <2>2, <3>2, <5>1, <5>2, LeaseAssumption
      <4>2. \A d \in Controllers \ {c} : ~InPass(d)'
        BY <2>2, <4>1 DEF InPass
      <4>3. passAge'[c] = 0
        BY <2>1, <2>2 DEF TimelyInv, InPlace
      <4> QED
        BY <3>2, <4>2, <4>3, LeaseAssumption DEF LeadsAlone
    <3>3. pc'[c] = "leading" => pc[c] # "leading"
      BY <1>2, <2>2 DEF InPass
    <3> QED
      BY <2>1, <3>1, <3>2, <3>3 DEF IInv, TypeOK, PassTypeOK
  <2>4. InPlace' /\ ControllerSurvives'
    BY <2>1, <2>2 DEF TimelyInv, InPlace, ControllerSurvives, InPass, Unseen
  <2>5. \A t \in Tasks : JobsOf(t)' = JobsOf(t)
    BY <2>1 DEF JobsOf
  <2>6. \A d \in Controllers : batch[d] \subseteq Tasks /\ \A r \in todo[d] : r.task \in Tasks
    BY DEF IInv, TypeOK, PassTypeOK
  <2>7. WaitingHasNoJob' /\ NoDuplicateJob' /\ RowsCurrent' /\ RunningSeen'
    BY <2>1, <2>5, <2>6
    DEF TimelyInv, WaitingHasNoJob, NoDuplicateJob, RowsCurrent, RunningSeen
  <2>8. WindowOpen'
    BY <2>1, <2>2, <2>5, <2>6 DEF TimelyInv, WindowOpen
  <2> QED
    BY <2>3, <2>4, <2>7, <2>8 DEF TimelyInv
<1> QED
  BY <1>1, <1>2

-----------------------------------------------------------------------------
(* The listing and the scan.                                               *)

\* The listing shows every job that is not still a request, and requests are young.
LEMMA ListTimely ==
  ASSUME IInv, TimelyInv, Timely, NEW c \in Controllers, ListJobs(c)
  PROVE  TimelyInv'
<1>0. /\ jobs \in [JobId -> [name : Tasks \cup {NoTask},
                            status : Listed \cup {"NONE", "REQUESTED"}, wait : 0..MaxDelay]]
      /\ \A d \in Controllers : batch[d] \subseteq Tasks /\ \A r \in todo[d] : r.task \in Tasks
      /\ \A d \in Controllers : passAge[d] \in 0..MaxPass
      /\ age \in [Tasks -> 0..MaxAge]
      /\ MaxPass \in Nat /\ MaxDelay \in Nat /\ Grace \in Nat /\ MaxAge \in Nat
  BY ControllerAssumption, JobsAssumption, StoreAssumption
  DEF IInv, TypeOK, JobsTypeOK, StoreTypeOK, PassTypeOK
<1>1. /\ UNCHANGED <<status, age, jobs, passAge, todo, batch, call, holder, leaseLeft>>
      /\ pc[c] = "leading" /\ pc'[c] = "listed"
      /\ \A d \in Controllers \ {c} : pc'[d] = pc[d] /\ seen'[d] = seen[d]
      /\ \A j \in JobId : seen'[c][j] =
           IF jobs[j].status \in Listed THEN jobs[j].status ELSE "NONE"
  BY DEF ListJobs, Goto, NoStore, storeVars, leaseVars, IInv, TypeOK, PassTypeOK
<1>2. LeadsAlone' /\ InPlace' /\ ControllerSurvives'
  BY <1>1 DEF TimelyInv, LeadsAlone, InPlace, ControllerSurvives, InPass, Unseen
<1>3. \A t \in Tasks : JobsOf(t)' = JobsOf(t)
  BY <1>1 DEF JobsOf
<1>4. WaitingHasNoJob' /\ NoDuplicateJob'
  BY <1>0, <1>1, <1>3 DEF TimelyInv, WaitingHasNoJob, NoDuplicateJob
<1>5. RowsCurrent'
  <2>1. todo[c] = {}
    BY <1>1 DEF TimelyInv, InPlace
  <2> QED
    BY <1>0, <1>1, <1>3, <2>1 DEF TimelyInv, RowsCurrent
<1>6. WindowOpen'
  <2>1. ASSUME NEW t \in Tasks, NEW j \in JobsOf(t), status[t] = "SUBMITTING",
               NEW d \in Controllers, pc'[d] = "listed", seen'[d][j] = "NONE"
        PROVE  age[t] - passAge[d] < Grace
    <3>1. j \in JobId /\ jobs[j].name = t
      BY <2>1 DEF JobsOf
    <3>2. CASE d = c
      <4>1. jobs[j].status # "NONE"
        BY <3>1, JobsAssumption DEF TimelyInv, WaitingHasNoJob
      <4>2. "NONE" \notin Listed
        BY DEF Listed, Running, Finished
      <4>3. jobs[j].status = "REQUESTED"
        BY <1>0, <1>1, <2>1, <3>1, <3>2, <4>1, <4>2
      <4>4. age[t] <= MaxPass + jobs[j].wait /\ jobs[j].wait \in 0..MaxDelay
        BY <1>0, <2>1, <3>1, <4>3 DEF TimelyInv, WindowOpen
      <4> QED
        BY <1>0, <4>4 DEF Timely
    <3>3. CASE d # c
      BY <1>1, <2>1, <3>3 DEF TimelyInv, WindowOpen
    <3> QED
      BY <3>2, <3>3
  <2> QED
    BY <1>0, <1>1, <1>3, <2>1 DEF TimelyInv, WindowOpen
<1>7. RunningSeen'
  <2> SUFFICES ASSUME NEW j \in JobId, NEW d \in Controllers
               PROVE  /\ \A t \in Tasks : jobs[j].name = t /\ status[t] = "RUNNING" =>
                           seen'[d][j] # "PENDING"
                      /\ seen'[d][j] \notin {"NONE", "PENDING"} => jobs[j].status # "PENDING"
    BY <1>1 DEF TimelyInv, RunningSeen
  <2> QED
    BY <1>1 DEF TimelyInv, RunningSeen
<1> QED
  BY <1>2, <1>4, <1>5, <1>6, <1>7 DEF TimelyInv

\* A pass whose listing fails leaves everything as it is.
LEMMA ListFailsTimely ==
  ASSUME IInv, TimelyInv, NEW c \in Controllers, ListFails(c)
  PROVE  TimelyInv'
  BY LeaveOnlyTimely DEF ListFails, NoStore, storeVars, leaseVars

\* What the scan finds to do for a task.
LEMMA DutyTimely ==
  ASSUME IInv, TimelyInv, Timely, NEW c \in Controllers, pc[c] = "listed",
         NEW t \in Tasks, NEW r \in Duty(c, t)
  PROVE  /\ r.task = t /\ r.do \in {"adopt", "expire", "observe"}
         /\ r.do \in {"adopt", "expire"} => status[t] = "SUBMITTING"
         /\ r.do = "expire" => JobsOf(t) = {}
         /\ r.do = "observe" => status[t] \in {"SUBMITTED", "RUNNING"}
                                /\ seen[c][r.job] # "NONE"
<1>1. CASE status[t] = "SUBMITTING"
  <2>1. CASE Named(c, t) # {}
    BY <1>1, <2>1 DEF Duty
  <2>2. CASE Named(c, t) = {}
    <3>1. Duty(c, t) # {} => GraceOver(c, t) /\ r = [task |-> t, do |-> "expire", job |-> NoJob]
      BY <1>1, <2>2 DEF Duty
    <3>2. \A j \in JobsOf(t) : j \in JobId /\ seen[c][j] = "NONE"
      BY <2>2 DEF Named, JobsOf
    <3>3. JobsOf(t) = {}
      <4> SUFFICES ASSUME NEW j \in JobsOf(t) PROVE FALSE
        OBVIOUS
      <4>1. age[t] - passAge[c] < Grace
        BY <1>1, <3>2 DEF TimelyInv, WindowOpen
      <4>2. age[t] - passAge[c] \in Int /\ Grace \in Int
        BY ControllerAssumption, StoreAssumption
        DEF IInv, TypeOK, StoreTypeOK, PassTypeOK
      <4> QED
        BY <3>1, <4>1, <4>2 DEF GraceOver
    <3> QED
      BY <1>1, <3>1, <3>3
  <2> QED
    BY <2>1, <2>2
<1>2. CASE status[t] # "SUBMITTING"
  <2>1. /\ jobOf[t] # NoJob /\ status[t] \notin Terminal
        /\ r.task = t /\ r.do = "observe" /\ r.job \in JobsFor(c, t)
    BY <1>2 DEF Duty
  <2>2. status[t] \in {"SUBMITTED", "RUNNING"}
    BY <1>2, <2>1
    DEF IInv, UnlaunchedHasNoJob, TypeOK, StoreTypeOK, TaskStatus, Occupying, Terminal
  <2>3. seen[c][r.job] # "NONE"
    BY <2>1 DEF JobsFor, Named
  <2> QED
    BY <2>1, <2>2, <2>3
<1> QED
  BY <1>1, <1>2

\* The scan plans one row per task.
LEMMA PlanTimely ==
  ASSUME IInv, TimelyInv, Timely, NEW c \in Controllers, ListTasks(c)
  PROVE  TimelyInv'
<1>0. \A d \in Controllers : batch[d] \subseteq Tasks /\ \A r \in todo[d] : r.task \in Tasks
  BY DEF IInv, TypeOK, PassTypeOK
<1>1. PICK rows \in SUBSET UNION {Duty(c, t) : t \in Tasks} :
        /\ \A q, r \in rows : q.task = r.task => q = r
        /\ todo' = [todo EXCEPT ![c] = rows]
  BY DEF ListTasks
<1>2. /\ UNCHANGED <<status, age, jobs, passAge, seen, batch, call, holder, leaseLeft>>
      /\ pc[c] = "listed" /\ pc'[c] = "scan" /\ todo'[c] = rows
      /\ \A d \in Controllers \ {c} : pc'[d] = pc[d] /\ todo'[d] = todo[d]
  BY <1>1 DEF ListTasks, Goto, NoStore, storeVars, leaseVars, IInv, TypeOK, PassTypeOK
<1>3. LeadsAlone' /\ InPlace' /\ ControllerSurvives'
  BY <1>2 DEF TimelyInv, LeadsAlone, InPlace, ControllerSurvives, InPass, Unseen
<1>4. \A t \in Tasks : JobsOf(t)' = JobsOf(t)
  BY <1>2 DEF JobsOf
<1>5. WaitingHasNoJob' /\ NoDuplicateJob' /\ RunningSeen' /\ WindowOpen'
  BY <1>0, <1>2, <1>4 DEF TimelyInv, WaitingHasNoJob, NoDuplicateJob, RunningSeen, WindowOpen
<1>6. RowsCurrent'
  <2>1. \A r \in rows : r.task \in Tasks /\ r \in Duty(c, r.task)
    BY <1>2, DutyTimely
  <2>2. \A r \in rows :
          /\ r.do \in {"adopt", "expire"} => status[r.task] = "SUBMITTING"
          /\ r.do = "expire" => JobsOf(r.task) = {}
          /\ r.do \in {"reread", "observe"} => status[r.task] \in {"SUBMITTED", "RUNNING"}
          /\ r.do = "observe" => seen[c][r.job] # "NONE"
    BY <1>2, <2>1, DutyTimely
  <2> QED
    BY <1>0, <1>1, <1>2, <1>4, <2>1, <2>2 DEF TimelyInv, RowsCurrent
<1> QED
  BY <1>3, <1>5, <1>6 DEF TimelyInv

\* A step of the scan changes the row of one task and the rows still to handle for it.
LEMMA RowTimely ==
  ASSUME IInv, TimelyInv, Timely, NEW c \in Controllers, pc[c] = "scan",
         NEW r \in todo[c], NEW more, NextRows(c, r, more),
         UNCHANGED <<pc, passAge, seen, batch, call, jobs, holder, leaseLeft>>,
         \A t \in Tasks \ {r.task} : status'[t] = status[t] /\ age'[t] = age[t],
         \A p, q \in more : p = q,
         \A q \in more : /\ q.task = r.task /\ q.do \in {"reread", "observe"}
                         /\ status'[r.task] \in {"SUBMITTED", "RUNNING"}
                         /\ q.do = "observe" => seen[c][q.job] # "NONE",
         status'[r.task] \notin {"ABSENT", "SUBMITTING"},
         status'[r.task] = "PENDING" => JobsOf(r.task) = {},
         status'[r.task] = "RUNNING" => \A j \in JobsOf(r.task) :
           jobs[j].status \notin {"REQUESTED", "PENDING"} /\ seen[c][j] # "PENDING"
  PROVE  TimelyInv'
<1>0. /\ \A d \in Controllers : \A q \in todo[d] : q.task \in Tasks
      /\ todo'[c] = (todo[c] \ {r}) \cup more
  BY DEF IInv, TypeOK, PassTypeOK, NextRows
<1>1. /\ batch[c] = {} /\ InPass(c)
      /\ \A d \in Controllers \ {c} :
           todo'[d] = {} /\ batch[d] = {} /\ ~InPass(d) /\ seen[d] = Unseen
  <2>1. InPass(c)
    BY DEF InPass
  <2>2. \A d \in Controllers \ {c} : todo'[d] = todo[d]
    BY DEF NextRows, IInv, TypeOK, PassTypeOK
  <2> QED
    BY <2>1, <2>2, Alone DEF TimelyInv, InPlace
<1>2. LeadsAlone' /\ InPlace' /\ ControllerSurvives'
  BY <1>1 DEF TimelyInv, LeadsAlone, InPlace, ControllerSurvives, InPass, Unseen
<1>3. \A t \in Tasks : JobsOf(t)' = JobsOf(t)
  BY DEF JobsOf
<1>4. WaitingHasNoJob'
  BY <1>1, <1>3 DEF TimelyInv, WaitingHasNoJob
<1>5. NoDuplicateJob'
  BY DEF TimelyInv, NoDuplicateJob
<1>6. RowsCurrent'
  <2>1. ASSUME NEW q \in todo[c] \ {r}
        PROVE  q.task \in Tasks \ {r.task}
    BY <1>0, <2>1 DEF TimelyInv, RowsCurrent
  <2>2. ASSUME NEW p \in todo'[c], NEW q \in todo'[c], p.task = q.task PROVE p = q
    BY <1>0, <2>1, <2>2 DEF TimelyInv, RowsCurrent
  <2>3. ASSUME NEW q \in todo'[c]
        PROVE  /\ q.do \in {"adopt", "expire"} => status'[q.task] = "SUBMITTING"
               /\ q.do = "expire" => JobsOf(q.task)' = {}
               /\ q.do \in {"reread", "observe"} => status'[q.task] \in {"SUBMITTED", "RUNNING"}
               /\ q.do = "observe" => seen[c][q.job] # "NONE"
    <3>1. CASE q \in todo[c] \ {r}
      BY <1>3, <2>1, <3>1 DEF TimelyInv, RowsCurrent
    <3>2. CASE q \in more
      BY <3>2
    <3> QED
      BY <1>0, <2>3, <3>1, <3>2
  <2> QED
    BY <1>1, <2>2, <2>3 DEF RowsCurrent
<1>7. WindowOpen'
  <2>1. \A d \in Controllers : pc[d] # "listed" /\ batch[d] = {}
    BY <1>1 DEF InPass
  <2> QED
    BY <1>3, <2>1 DEF TimelyInv, WindowOpen
<1>8. RunningSeen'
  <2> SUFFICES ASSUME NEW j \in JobId, NEW t \in Tasks, jobs[j].name = t, status'[t] = "RUNNING"
               PROVE  /\ jobs[j].status \notin {"REQUESTED", "PENDING"}
                      /\ \A d \in Controllers : seen[d][j] # "PENDING"
    BY DEF TimelyInv, RunningSeen
  <2>1. CASE t # r.task
    BY <2>1 DEF TimelyInv, RunningSeen
  <2>2. CASE t = r.task
    BY <1>1, <2>2 DEF JobsOf, Unseen
  <2> QED
    BY <2>1, <2>2
<1> QED
  BY <1>2, <1>4, <1>5, <1>6, <1>7, <1>8 DEF TimelyInv

\* A job listed under a task's name is nobody else's, so that the task may be bound to it.
LEMMA OwnIsFree ==
  ASSUME IInv, NEW t \in Tasks, NEW j \in JobId, jobs[j].name = t
  PROVE  FreeFor(t, j)
  BY NamesAssumption DEF IInv, BoundToOwnJob, FreeFor

\* No step of the scan raises, and each finds its row as it was when the scan began.
LEMMA ScanTimely ==
  ASSUME IInv, TimelyInv, Timely, NEW c \in Controllers, ScanStep(c)
  PROVE  TimelyInv'
<1>1. PICK r \in todo[c] : Adopt(c, r) \/ Reread(c, r) \/ Expire(c, r) \/ ObserveRow(c, r)
  BY DEF ScanStep
<1>2. /\ pc[c] = "scan" /\ r.task \in Tasks
      /\ r \in [task : Tasks, job : JobId \cup {NoJob},
                do : {"adopt", "reread", "expire", "observe"}]
  <2>1. pc[c] = "scan"
    BY <1>1 DEF Adopt, Reread, Expire, ObserveRow, AtRow
  <2>2. todo[c] \in SUBSET [task : Tasks, job : JobId \cup {NoJob},
                           do : {"adopt", "reread", "expire", "observe"}]
    BY DEF IInv, TypeOK, PassTypeOK
  <2> QED
    BY <2>1, <2>2
<1>3. /\ r.do \in {"adopt", "expire"} => status[r.task] = "SUBMITTING"
      /\ r.do = "expire" => JobsOf(r.task) = {}
      /\ r.do \in {"reread", "observe"} => status[r.task] \in {"SUBMITTED", "RUNNING"}
      /\ r.do = "observe" => seen[c][r.job] # "NONE"
  BY DEF TimelyInv, RowsCurrent
<1>4. /\ status \in [Tasks -> TaskStatus \cup {"ABSENT"}]
      /\ age \in [Tasks -> 0..MaxAge]
  BY DEF IInv, TypeOK, StoreTypeOK
<1>5. r.do \in {"adopt", "observe"} => /\ r.job \in JobId /\ FreeFor(r.task, r.job)
                                       /\ jobs[r.job].name = r.task
                                       /\ jobs[r.job].status \in Listed
  BY <1>2, OwnIsFree DEF IInv, RowsNameOwnJob
<1>6. CASE Adopt(c, r)
  <2>1. MayBind(r.task, r.job)
    BY <1>3, <1>5, <1>6 DEF Adopt, MayBind
  <2>2. /\ Bind(r.task, r.job) /\ NextRows(c, r, {[r EXCEPT !.do = "reread"]})
        /\ UNCHANGED <<pc, passAge, seen, batch, call, jobs, holder, leaseLeft>>
    BY <1>6, <2>1 DEF Adopt, OnlyStore, leaseVars
  <2>3. /\ status'[r.task] = "SUBMITTED"
        /\ \A t \in Tasks \ {r.task} : status'[t] = status[t] /\ age'[t] = age[t]
    BY <1>2, <1>4, <2>2 DEF Bind
  <2>4. [r EXCEPT !.do = "reread"].task = r.task /\ [r EXCEPT !.do = "reread"].do = "reread"
    BY <1>2
  <2> QED
    BY <1>2, <2>2, <2>3, <2>4, RowTimely
<1>7. CASE Reread(c, r)
  <2>1. status[r.task] \in {"SUBMITTED", "RUNNING"}
    BY <1>3, <1>7 DEF Reread
  <2>2. /\ UNCHANGED <<pc, passAge, seen, batch, call, jobs, holder, leaseLeft, status, age>>
    BY <1>7 DEF Reread, NoStore, storeVars, leaseVars
  <2>3. PICK more : /\ NextRows(c, r, more)
                    /\ \A p, q \in more : p = q
                    /\ \A q \in more : /\ q.task = r.task /\ q.do = "observe"
                                       /\ seen[c][q.job] # "NONE"
    <3>1. CASE NextRows(c, r, {})
      BY <3>1
    <3>2. CASE \E j \in JobsFor(c, r.task) :
                 NextRows(c, r, {[r EXCEPT !.do = "observe", !.job = j]})
      <4>1. PICK j \in JobsFor(c, r.task) :
              NextRows(c, r, {[r EXCEPT !.do = "observe", !.job = j]})
        BY <3>2
      <4>2. seen[c][j] # "NONE"
        BY <4>1 DEF JobsFor, Named
      <4>3. /\ [r EXCEPT !.do = "observe", !.job = j].task = r.task
            /\ [r EXCEPT !.do = "observe", !.job = j].do = "observe"
            /\ [r EXCEPT !.do = "observe", !.job = j].job = j
        BY <1>2
      <4> DEFINE more == {[r EXCEPT !.do = "observe", !.job = j]}
      <4>4. \A q \in more : /\ q.task = r.task /\ q.do = "observe"
                            /\ seen[c][q.job] # "NONE"
        BY <4>2, <4>3
      <4>5. NextRows(c, r, more) /\ \A p, q \in more : p = q
        BY <4>1
      <4> HIDE DEF more
      <4> QED
        BY <4>4, <4>5
    <3> QED
      BY <1>7, <3>1, <3>2 DEF Reread
  <2>4. status[r.task] = "RUNNING" => \A j \in JobsOf(r.task) :
          jobs[j].status \notin {"REQUESTED", "PENDING"} /\ seen[c][j] # "PENDING"
    BY <1>2 DEF TimelyInv, RunningSeen, JobsOf
  <2> QED
    BY <1>2, <2>1, <2>2, <2>3, <2>4, RowTimely
<1>8. CASE Expire(c, r)
  <2>1. MayReset(r.task) /\ JobsOf(r.task) = {}
    BY <1>3, <1>8 DEF Expire, MayReset
  <2>2. /\ Reset(r.task) /\ NextRows(c, r, {})
        /\ UNCHANGED <<pc, passAge, seen, batch, call, jobs, holder, leaseLeft>>
    BY <1>8, <2>1 DEF Expire, OnlyStore, leaseVars
  <2>3. /\ status'[r.task] = "PENDING"
        /\ \A t \in Tasks \ {r.task} : status'[t] = status[t] /\ age'[t] = age[t]
    BY <1>2, <1>4, <2>2 DEF Reset
  <2> QED
    BY <1>2, <2>1, <2>2, <2>3, RowTimely
<1>9. CASE ObserveRow(c, r)
  <2>1. /\ Observe(r.task, r.job, seen[c][r.job]) /\ NextRows(c, r, {})
        /\ UNCHANGED <<pc, passAge, seen, batch, call, jobs, holder, leaseLeft>>
    BY <1>5, <1>9 DEF ObserveRow, OnlyStore, leaseVars
  <2>2. /\ status'[r.task] = TaskStatusOf(seen[c][r.job])
        /\ \A t \in Tasks \ {r.task} : status'[t] = status[t] /\ age'[t] = age[t]
    BY <1>2, <1>4, <2>1 DEF Observe
  <2>3. JobsOf(r.task) = {r.job} /\ jobs[r.job].status # "REQUESTED"
    <3>1. r.task # NoTask /\ r.do = "observe"
      BY <1>2, <1>9, JobsAssumption DEF ObserveRow
    <3> QED
      BY <1>5, <3>1
      DEF TimelyInv, NoDuplicateJob, JobsOf, Listed, Running, Finished
  <2>4. status'[r.task] = "RUNNING" => seen[c][r.job] \in {"RUNNING", "RECOVERING"}
    BY <2>2 DEF TaskStatusOf
  <2>5. status'[r.task] = "RUNNING" => \A j \in JobsOf(r.task) :
          jobs[j].status \notin {"REQUESTED", "PENDING"} /\ seen[c][j] # "PENDING"
    BY <2>3, <2>4 DEF TimelyInv, RunningSeen, JobsOf
  <2>6. status'[r.task] \notin {"ABSENT", "PENDING", "SUBMITTING"}
    BY <2>2, TaskStatusType
  <2> QED
    BY <1>2, <2>1, <2>2, <2>5, <2>6, RowTimely
<1> QED
  BY <1>1, <1>6, <1>7, <1>8, <1>9

-----------------------------------------------------------------------------
(* Admission and launches.                                                 *)

\* Between the scan and the end of a pass no process has a listing or a row to handle, so
\* that only the batch, its launches and the tasks' status are left to look at.
LEMMA BatchTimely ==
  ASSUME IInv, TimelyInv, Timely, NEW c \in Controllers, InPass(c),
         \/ Leave(c, "idle")
         \/ /\ pc'[c] \in {"launch", "await"} /\ passAge' = passAge
            /\ seen'[c] = Unseen /\ todo'[c] = {}
            /\ pc'[c] = "await" \/ call'[c] = NoJob
            /\ \A d \in Controllers \ {c} :
                 /\ todo'[d] = todo[d] /\ batch'[d] = batch[d] /\ call'[d] = call[d]
                 /\ seen'[d] = seen[d] /\ pc'[d] = pc[d]
            /\ \A t \in batch'[c] : age'[t] <= passAge[c],
         UNCHANGED <<holder, leaseLeft>>,
         WaitingHasNoJob', NoDuplicateJob',
         \A j \in JobId : \A t \in Tasks : jobs'[j].name = t =>
           /\ status'[t] = "SUBMITTING" /\ jobs'[j].status = "REQUESTED" =>
                age'[t] <= MaxPass + jobs'[j].wait
           /\ status'[t] = "RUNNING" => jobs'[j].status \notin {"REQUESTED", "PENDING"}
  PROVE  TimelyInv'
<1>1. /\ todo'[c] = {} /\ seen'[c] = Unseen /\ pc'[c] \notin {"listed", "dead"}
      /\ \A d \in Controllers \ {c} :
           /\ todo'[d] = {} /\ seen'[d] = Unseen /\ batch'[d] = {} /\ call'[d] = NoJob
           /\ pc'[d] = pc[d] /\ passAge'[d] = 0 /\ ~InPass(d)
      /\ \A t \in batch'[c] : age'[t] <= passAge'[c]
      /\ passAge'[c] = passAge[c] \/ pc'[c] = "idle"
      /\ pc'[c] \notin {"launch", "await"} => batch'[c] = {} /\ passAge'[c] = 0
      /\ pc'[c] # "await" => call'[c] = NoJob
      /\ pc'[c] \in {"idle", "launch", "await"}
  BY Alone, LeaveTimely DEF Leave, IInv, TypeOK, PassTypeOK
<1>2. LeadsAlone'
  BY <1>1 DEF TimelyInv, LeadsAlone, InPass
<1>3. InPlace'
  BY <1>1 DEF InPlace, InPass, Unseen
<1>4. ControllerSurvives'
  BY <1>1 DEF TimelyInv, ControllerSurvives
<1>5. RowsCurrent'
  BY <1>1 DEF RowsCurrent
<1>6. WindowOpen'
  BY <1>1 DEF WindowOpen, JobsOf, InPass
<1>7. RunningSeen'
  <2>1. \A d \in Controllers, j \in JobId : seen'[d][j] = "NONE"
    BY <1>1 DEF Unseen
  <2> QED
    BY <2>1 DEF RunningSeen
<1> QED
  BY <1>2, <1>3, <1>4, <1>5, <1>6, <1>7 DEF TimelyInv

\* Only the task at hand has a job yet, the one its launch asked for.
LEMMA RestHasNoJob ==
  ASSUME IInv, TimelyInv, NEW c \in Controllers, NEW t \in Tasks, AtTask(c, t),
         pc[c] \in {"launch", "await"}
  PROVE  /\ t \in batch[c] /\ status[t] = "SUBMITTING" /\ JobsOf(t) \subseteq {call[c]}
         /\ pc[c] = "launch" => JobsOf(t) = {}
         /\ \A u \in batch[c] \ {t} : u \in Tasks /\ JobsOf(u) = {}
<1>1. t \in batch[c] /\ status[t] = "SUBMITTING" /\ JobsOf(t) \subseteq {call[c]}
  BY DEF AtTask, TimelyInv, WaitingHasNoJob
<1>2. \A u \in batch[c] : u \in Tasks /\ JobsOf(u) \subseteq {call[c]}
  BY DEF TimelyInv, WaitingHasNoJob, IInv, TypeOK, PassTypeOK
<1>3. \A u \in Tasks : JobsOf(u) \subseteq JobId
  BY DEF JobsOf
<1>4. CASE pc[c] = "launch"
  <2>1. call[c] = NoJob
    BY <1>4 DEF TimelyInv, InPlace
  <2> QED
    BY <1>1, <1>2, <1>3, <2>1, NamesAssumption
<1>5. CASE pc[c] = "await"
  <2>1. jobs[call[c]].name = t
    BY <1>5 DEF IInv, CallIsOwn
  <2> QED
    BY <1>1, <1>2, <1>5, <2>1 DEF JobsOf
<1> QED
  BY <1>4, <1>5

\* Admission starts the grace window at the pass's own clock.
LEMMA ReserveTimely ==
  ASSUME IInv, TimelyInv, Timely, NEW c \in Controllers, ReserveBatch(c)
  PROVE  TimelyInv'
<1>1. PICK S \in SUBSET Pending :
        /\ Reserve(S, passAge[c])
        /\ IF S = {} THEN Leave(c, "idle")
           ELSE /\ batch' = [batch EXCEPT ![c] = S]
                /\ seen' = [seen EXCEPT ![c] = Unseen]
                /\ Goto(c, "launch")
                /\ UNCHANGED <<passAge, todo, call>>
  BY DEF ReserveBatch
<1>2. /\ pc[c] = "scan" /\ todo[c] = {} /\ UNCHANGED <<jobs, holder, leaseLeft>>
      /\ InPass(c)
  BY DEF ReserveBatch, OnlyStore, leaseVars, InPass
<1>3. /\ \A t \in S : t \in Tasks /\ status[t] = "PENDING"
      /\ \A t \in Tasks : status'[t] = IF t \in S THEN "SUBMITTING" ELSE status[t]
      /\ \A t \in Tasks : age'[t] = IF t \in S THEN passAge[c] ELSE age[t]
  BY <1>1 DEF Reserve, Pending
<1>4. /\ \A t \in Tasks : JobsOf(t)' = JobsOf(t)
      /\ \A t \in S : JobsOf(t) = {}
  BY <1>2, <1>3 DEF JobsOf, TimelyInv, WaitingHasNoJob
<1>5. /\ \A d \in Controllers \ {c} :
           batch[d] = {} /\ batch'[d] = {}
      /\ batch'[c] = S
  BY <1>1, <1>2, Alone DEF Leave, IInv, TypeOK, PassTypeOK
<1>6. WaitingHasNoJob'
  BY <1>2, <1>3, <1>4, <1>5 DEF TimelyInv, WaitingHasNoJob
<1>7. NoDuplicateJob'
  BY <1>2 DEF TimelyInv, NoDuplicateJob
<1>8. ASSUME NEW j \in JobId, NEW t \in Tasks, jobs'[j].name = t
      PROVE  /\ status'[t] = "SUBMITTING" /\ jobs'[j].status = "REQUESTED" =>
                  age'[t] <= MaxPass + jobs'[j].wait
             /\ status'[t] = "RUNNING" => jobs'[j].status \notin {"REQUESTED", "PENDING"}
  <2>1. j \in JobsOf(t) /\ t \notin S
    BY <1>2, <1>4, <1>8 DEF JobsOf
  <2> QED
    BY <1>2, <1>3, <1>8, <2>1 DEF TimelyInv, WindowOpen, RunningSeen
<1>9. \/ Leave(c, "idle")
      \/ /\ pc'[c] = "launch" /\ passAge' = passAge
         /\ seen'[c] = Unseen /\ todo'[c] = {} /\ call'[c] = NoJob
         /\ \A d \in Controllers \ {c} :
              /\ todo'[d] = todo[d] /\ batch'[d] = batch[d] /\ call'[d] = call[d]
              /\ seen'[d] = seen[d] /\ pc'[d] = pc[d]
         /\ \A t \in batch'[c] : age'[t] <= passAge[c]
  <2>1. CASE S = {}
    BY <1>1, <2>1
  <2>2. CASE S # {}
    <3>1. /\ batch' = [batch EXCEPT ![c] = S] /\ seen' = [seen EXCEPT ![c] = Unseen]
          /\ pc' = [pc EXCEPT ![c] = "launch"] /\ UNCHANGED <<passAge, todo, call>>
      BY <1>1, <2>2 DEF Goto
    <3>2. call[c] = NoJob
      BY <1>2 DEF TimelyInv, InPlace
    <3>3. \A t \in S : age'[t] <= passAge[c]
      BY <1>3 DEF IInv, TypeOK, PassTypeOK
    <3> QED
      BY <1>2, <1>5, <3>1, <3>2, <3>3 DEF IInv, TypeOK, PassTypeOK
  <2> QED
    BY <2>1, <2>2
<1> QED
  BY <1>2, <1>6, <1>7, <1>8, <1>9, BatchTimely

\* A launch that is over leaves the rest of the batch as it was, or the pass.
LEMMA AfterTimely ==
  ASSUME IInv, TimelyInv, Timely, NEW c \in Controllers, NEW t \in Tasks, AtTask(c, t),
         pc[c] \in {"launch", "await"}, Leave(c, "idle") \/ NextTask(c, t),
         UNCHANGED <<holder, leaseLeft>>,
         \A u \in Tasks \ {t} : status'[u] = status[u] /\ age'[u] = age[u],
         status'[t] \notin {"ABSENT", "SUBMITTING", "RUNNING"},
         \A j \in JobId : \/ jobs'[j] = jobs[j]
                          \/ jobs'[j] = FreeSlot,
         status'[t] = "PENDING" => JobsOf(t)' = {}
  PROVE  TimelyInv'
<1>1. /\ t \in batch[c] /\ InPass(c)
      /\ \A u \in batch[c] \ {t} : u \in Tasks /\ JobsOf(u) = {} /\ status[u] = "SUBMITTING"
  BY RestHasNoJob DEF TimelyInv, WaitingHasNoJob, InPass
<1>2. /\ FreeSlot.name = NoTask /\ FreeSlot.status = "NONE" /\ NoTask \notin Tasks
      /\ \A u \in Tasks : JobsOf(u)' \subseteq JobsOf(u)
  BY JobsAssumption DEF FreeSlot, JobsOf
<1>3. \/ Leave(c, "idle")
      \/ /\ pc' = [pc EXCEPT ![c] = "launch"] /\ call' = [call EXCEPT ![c] = NoJob]
         /\ batch' = [batch EXCEPT ![c] = batch[c] \ {t}]
         /\ UNCHANGED <<passAge, seen, todo>>
  BY DEF NextTask, Goto
<1>4. /\ \A d \in Controllers \ {c} : batch'[d] = {}
      /\ batch'[c] \subseteq batch[c] \ {t}
  BY <1>1, <1>3, Alone DEF Leave, IInv, TypeOK, PassTypeOK
<1>5. WaitingHasNoJob'
  <2>1. \A j \in JobId : jobs'[j].status = "NONE" => jobs'[j].name = NoTask
    BY <1>2 DEF TimelyInv, WaitingHasNoJob
  <2>2. \A u \in Tasks : status'[u] \in {"ABSENT", "PENDING"} => JobsOf(u)' = {}
    BY <1>2 DEF TimelyInv, WaitingHasNoJob
  <2>3. \A d \in Controllers : \A u \in batch'[d] :
          status'[u] = "SUBMITTING" /\ JobsOf(u)' \subseteq {call'[d]}
    BY <1>1, <1>2, <1>4
  <2> QED
    BY <2>1, <2>2, <2>3 DEF WaitingHasNoJob
<1>6. NoDuplicateJob'
  BY <1>2 DEF TimelyInv, NoDuplicateJob
<1>7. ASSUME NEW j \in JobId, NEW u \in Tasks, jobs'[j].name = u
      PROVE  /\ status'[u] = "SUBMITTING" /\ jobs'[j].status = "REQUESTED" =>
                  age'[u] <= MaxPass + jobs'[j].wait
             /\ status'[u] = "RUNNING" => jobs'[j].status \notin {"REQUESTED", "PENDING"}
  <2>1. j \in JobsOf(u) /\ jobs'[j] = jobs[j]
    BY <1>2, <1>7 DEF JobsOf
  <2> QED
    BY <1>7, <2>1 DEF TimelyInv, WindowOpen, RunningSeen
<1>8. \/ Leave(c, "idle")
      \/ /\ pc'[c] = "launch" /\ passAge' = passAge
         /\ seen'[c] = Unseen /\ todo'[c] = {} /\ call'[c] = NoJob
         /\ \A d \in Controllers \ {c} :
              /\ todo'[d] = todo[d] /\ batch'[d] = batch[d] /\ call'[d] = call[d]
              /\ seen'[d] = seen[d] /\ pc'[d] = pc[d]
         /\ \A u \in batch'[c] : age'[u] <= passAge[c]
  <2>1. seen[c] = Unseen /\ todo[c] = {}
    BY DEF TimelyInv, InPlace
  <2>2. \A u \in batch'[c] : age'[u] <= passAge[c]
    BY <1>1, <1>4 DEF TimelyInv, WindowOpen
  <2> QED
    BY <1>3, <2>1, <2>2 DEF IInv, TypeOK, PassTypeOK
<1> QED
  BY <1>1, <1>5, <1>6, <1>7, <1>8, BatchTimely

\* A new request is for a task that has no job, and its task's window is still open.
LEMMA RequestTimely ==
  ASSUME IInv, TimelyInv, Timely, NEW c \in Controllers, NEW t \in Tasks, Launch(c, t)
  PROVE  TimelyInv'
<1>0. /\ jobs \in [JobId -> [name : Tasks \cup {NoTask},
                            status : Listed \cup {"NONE", "REQUESTED"}, wait : 0..MaxDelay]]
      /\ passAge[c] \in 0..MaxPass /\ age[t] \in Int /\ MaxPass \in Nat /\ NoTask \notin Tasks
  BY ControllerAssumption, JobsAssumption
  DEF IInv, TypeOK, JobsTypeOK, StoreTypeOK, PassTypeOK
<1>1. /\ pc[c] = "launch" /\ AtTask(c, t) /\ InPass(c)
      /\ UNCHANGED <<status, age, holder, leaseLeft, passAge, seen, todo, batch>>
      /\ pc' = [pc EXCEPT ![c] = "await"]
  BY DEF Launch, Goto, storeVars, leaseVars, InPass
<1>2. PICK j \in JobId : Request(t, j) /\ call' = [call EXCEPT ![c] = j]
  BY DEF Launch
<1>3. /\ jobs[j].name = NoTask /\ jobs'[j].name = t /\ jobs'[j].status = "REQUESTED"
      /\ jobs'[j].wait = 0
      /\ \A i \in JobId \ {j} : jobs'[i] = jobs[i]
  BY <1>0, <1>2 DEF Request, FreeSlot
<1>4. /\ t \in batch[c] /\ JobsOf(t) = {} /\ status[t] = "SUBMITTING"
      /\ \A u \in batch[c] \ {t} : u \in Tasks /\ JobsOf(u) = {}
  BY <1>1, RestHasNoJob
<1>5. /\ JobsOf(t)' = {j}
      /\ \A u \in Tasks \ {t} : JobsOf(u)' = JobsOf(u)
  BY <1>0, <1>3, <1>4 DEF JobsOf
<1>6. /\ call'[c] = j
      /\ \A d \in Controllers \ {c} : batch[d] = {} /\ call'[d] = call[d] /\ pc'[d] = pc[d]
  BY <1>1, <1>2, Alone DEF IInv, TypeOK, PassTypeOK
<1>7. WaitingHasNoJob'
  <2>1. \A i \in JobId : jobs'[i].status = "NONE" => jobs'[i].name = NoTask
    BY <1>3 DEF TimelyInv, WaitingHasNoJob
  <2>2. \A u \in Tasks : status'[u] \in {"ABSENT", "PENDING"} => JobsOf(u)' = {}
    BY <1>1, <1>4, <1>5 DEF TimelyInv, WaitingHasNoJob
  <2>3. \A d \in Controllers : \A u \in batch'[d] :
          status'[u] = "SUBMITTING" /\ JobsOf(u)' \subseteq {call'[d]}
    BY <1>1, <1>4, <1>5, <1>6 DEF TimelyInv, WaitingHasNoJob
  <2> QED
    BY <2>1, <2>2, <2>3 DEF WaitingHasNoJob
<1>8. NoDuplicateJob'
  <2>1. \A i \in JobId \ {j} : jobs'[i].name # t
    BY <1>3, <1>4 DEF JobsOf
  <2> QED
    BY <1>3, <2>1 DEF TimelyInv, NoDuplicateJob
<1>9. age[t] <= passAge[c]
  BY <1>4 DEF TimelyInv, WindowOpen
<1>10. ASSUME NEW i \in JobId, NEW u \in Tasks, jobs'[i].name = u
       PROVE  /\ status'[u] = "SUBMITTING" /\ jobs'[i].status = "REQUESTED" =>
                   age'[u] <= MaxPass + jobs'[i].wait
              /\ status'[u] = "RUNNING" => jobs'[i].status \notin {"REQUESTED", "PENDING"}
  <2>1. CASE i = j
    BY <1>0, <1>1, <1>3, <1>4, <1>9, <1>10, <2>1
  <2>2. CASE i # j
    BY <1>1, <1>3, <1>10, <2>2 DEF TimelyInv, WindowOpen, RunningSeen, JobsOf
  <2> QED
    BY <2>1, <2>2
<1>11. /\ pc'[c] = "await" /\ seen'[c] = Unseen /\ todo'[c] = {}
       /\ \A u \in batch'[c] : age'[u] <= passAge[c]
       /\ \A d \in Controllers \ {c} :
            /\ todo'[d] = todo[d] /\ batch'[d] = batch[d] /\ call'[d] = call[d]
            /\ seen'[d] = seen[d] /\ pc'[d] = pc[d]
  BY <1>1, <1>6 DEF TimelyInv, InPlace, WindowOpen, IInv, TypeOK, PassTypeOK
<1> QED
  BY <1>1, <1>7, <1>8, <1>10, <1>11, BatchTimely

\* A launch that returns or is refused finds its row SUBMITTING and its job nobody else's:
\* bind_job and reset_submission do not raise.
LEMMA LaunchFinds ==
  ASSUME IInv, TimelyInv, NEW c \in Controllers, NEW t \in Tasks, AtTask(c, t),
         pc[c] = "await"
  PROVE  /\ status[t] = "SUBMITTING" /\ call[c] \in JobId /\ jobs[call[c]].name = t
         /\ MayBind(t, call[c]) /\ MayReset(t)
<1>1. call[c] \in JobId /\ jobs[call[c]].name = t
  BY DEF IInv, CallIsOwn, TypeOK, PassTypeOK
<1>2. status[t] = "SUBMITTING"
  BY RestHasNoJob
<1> QED
  BY <1>1, <1>2, OwnIsFree DEF MayBind, MayReset

\* The end of a launch, whatever it is.
LEMMA LaunchTimely ==
  ASSUME IInv, TimelyInv, Timely, NEW c \in Controllers, NEW t \in Tasks,
         \/ BuildFails(c, t) \/ LaunchReturns(c, t)
         \/ LaunchRefused(c, t) \/ LaunchLost(c, t)
  PROVE  TimelyInv'
<1>0. status \in [Tasks -> TaskStatus \cup {"ABSENT"}] /\ age \in [Tasks -> 0..MaxAge]
  BY DEF IInv, TypeOK, StoreTypeOK
<1>1. CASE BuildFails(c, t)
  <2>1. /\ pc[c] = "launch" /\ AtTask(c, t) /\ Fail(t) /\ NextTask(c, t)
        /\ UNCHANGED <<jobs, holder, leaseLeft>>
    BY <1>1 DEF BuildFails, OnlyStore, leaseVars
  <2>2. /\ status'[t] = "FAILED"
        /\ \A u \in Tasks \ {t} : status'[u] = status[u] /\ age'[u] = age[u]
    BY <1>0, <2>1 DEF Fail
  <2> QED
    BY <2>1, <2>2, AfterTimely
<1>2. CASE LaunchReturns(c, t)
  <2>1. pc[c] = "await" /\ AtTask(c, t)
    BY <1>2 DEF LaunchReturns
  <2>2. /\ Bind(t, call[c]) /\ NextTask(c, t)
        /\ UNCHANGED <<jobs, holder, leaseLeft>>
    BY <1>2, <2>1, LaunchFinds DEF LaunchReturns, OnlyStore, leaseVars
  <2>3. /\ status'[t] = "SUBMITTED"
        /\ \A u \in Tasks \ {t} : status'[u] = status[u] /\ age'[u] = age[u]
    BY <1>0, <2>2 DEF Bind
  <2> QED
    BY <2>1, <2>2, <2>3, AfterTimely
<1>3. CASE LaunchRefused(c, t)
  <2>1. pc[c] = "await" /\ AtTask(c, t)
    BY <1>3 DEF LaunchRefused
  <2>2. /\ Reset(t) /\ Leave(c, "idle") /\ Refuse(call[c])
        /\ UNCHANGED <<holder, leaseLeft>>
    BY <1>3, <2>1, LaunchFinds DEF LaunchRefused, GiveUp, leaseVars
  <2>3. /\ status'[t] = "PENDING"
        /\ \A u \in Tasks \ {t} : status'[u] = status[u] /\ age'[u] = age[u]
    BY <1>0, <2>2 DEF Reset
  <2>4. /\ jobs' = [jobs EXCEPT ![call[c]] = FreeSlot]
        /\ jobs \in [JobId -> [name : Tasks \cup {NoTask},
                              status : Listed \cup {"NONE", "REQUESTED"}, wait : 0..MaxDelay]]
    BY <2>2 DEF Refuse, IInv, TypeOK, JobsTypeOK
  <2>5. /\ jobs'[call[c]] = FreeSlot /\ FreeSlot.name # t
        /\ \A j \in JobId : jobs'[j] = jobs[j] \/ jobs'[j] = FreeSlot
    BY <2>1, <2>4, LaunchFinds, JobsAssumption DEF FreeSlot
  <2>6. JobsOf(t)' = {}
    <3>1. JobsOf(t) \subseteq {call[c]}
      BY <2>1, RestHasNoJob
    <3>2. \A j \in JobId \ {call[c]} : jobs'[j] = jobs[j]
      BY <2>4
    <3> QED
      BY <2>5, <3>1, <3>2 DEF JobsOf
  <2> QED
    BY <2>1, <2>2, <2>3, <2>5, <2>6, AfterTimely
<1>4. CASE LaunchLost(c, t)
  BY <1>4 DEF LaunchLost, Timely
<1> QED
  BY <1>1, <1>2, <1>3, <1>4

-----------------------------------------------------------------------------
\* In the beginning nothing runs and no job exists.
LEMMA InitTimely == Init => TimelyInv
<1> SUFFICES ASSUME Init PROVE TimelyInv
  OBVIOUS
<1>1. /\ \A c \in Controllers :
           /\ pc[c] = "down" /\ passAge[c] = 0 /\ seen[c] = Unseen /\ todo[c] = {}
           /\ batch[c] = {} /\ call[c] = NoJob
      /\ \A j \in JobId : jobs[j].name = NoTask
      /\ \A t \in Tasks : status[t] = "ABSENT"
  BY DEF Init, StoreInit, JobsInit, FreeSlot
<1>2. \A t \in Tasks : JobsOf(t) = {}
  BY <1>1, JobsAssumption DEF JobsOf
<1>3. LeadsAlone /\ InPlace /\ ControllerSurvives
  BY <1>1 DEF LeadsAlone, InPlace, ControllerSurvives, InPass
<1>4. WaitingHasNoJob /\ NoDuplicateJob
  BY <1>1, <1>2 DEF WaitingHasNoJob, NoDuplicateJob
<1>5. RowsCurrent /\ WindowOpen
  BY <1>1, <1>2 DEF RowsCurrent, WindowOpen
<1>6. RunningSeen
  BY <1>1, <1>2 DEF RunningSeen, Unseen
<1> QED
  BY <1>3, <1>4, <1>5, <1>6 DEF TimelyInv

\* Every step keeps the timely invariant.
LEMMA TimelyStep ==
  ASSUME IInv, TimelyInv, Timely, [Next]_vars
  PROVE  TimelyInv'
<1>1. CASE UNCHANGED vars
  <2>1. UNCHANGED <<status, age, jobs, pc, passAge, seen, todo, batch, call, holder, leaseLeft>>
    BY <1>1 DEF vars, storeVars, leaseVars, localVars
  <2>2. LeadsAlone' /\ InPlace' /\ ControllerSurvives'
    BY <1>1, PassesStay DEF vars, leaseVars
  <2> QED
    BY <2>1, <2>2 DEF TimelyInv, WaitingHasNoJob, NoDuplicateJob, RowsCurrent, WindowOpen,
                      RunningSeen, JobsOf
<1>2. ASSUME NEW c \in Controllers,
             \/ Run(c) \/ ListJobs(c) \/ ListFails(c) \/ Start(c) \/ Crash(c)
             \/ \E t \in Tasks :
                  LaunchReturns(c, t) \/ LaunchRefused(c, t) \/ LaunchLost(c, t)
      PROVE  TimelyInv'
  <2>1. CASE Lead(c) \/ LoseLead(c) \/ Start(c) \/ Crash(c)
    BY <2>1, LeadTimely
  <2>2. CASE ListJobs(c) \/ ListFails(c) \/ ListTasks(c)
    BY <2>2, ListTimely, ListFailsTimely, PlanTimely
  <2>3. CASE ScanStep(c) \/ ReserveBatch(c)
    BY <2>3, ScanTimely, ReserveTimely
  <2>4. CASE \E t \in Tasks : Launch(c, t)
    BY <2>4, RequestTimely
  <2>5. CASE \E t \in Tasks : \/ BuildFails(c, t) \/ LaunchReturns(c, t)
                              \/ LaunchRefused(c, t) \/ LaunchLost(c, t)
    BY <2>5, LaunchTimely
  <2> QED
    BY <1>2, <2>1, <2>2, <2>3, <2>4, <2>5 DEF Run
<1>3. CASE \E t \in Tasks : SubmitTask(t)
  BY <1>3, SubmitTimely
<1>4. CASE \E k \in Classes, p \in Policies : ChangePolicy(k, p)
  BY <1>4, PolicyTimely
<1>5. CASE \/ \E j \in JobId : AcceptJob(j) \/ RefuseJob(j)
           \/ \E j \in JobId, s \in Listed : MoveJob(j, s)
  BY <1>5, JobTimely
<1>6. CASE Tick
  BY <1>6, TickTimely
<1> QED
  BY <1>1, <1>2, <1>3, <1>4, <1>5, <1>6 DEF Next

\* One leader at a time and windows longer than a pass and a request: TimelyInv holds
\* throughout, whatever crashes and whichever listings fail (reconcile_once).
THEOREM TimelyInvariant ==
  ASSUME Timely PROVE Spec => []TimelyInv
<1>1. Init => TimelyInv
  BY InitTimely
<1>2. IInv /\ TimelyInv /\ [Next]_vars => TimelyInv'
  BY TimelyStep
<1> QED
  BY <1>1, <1>2, ReconcileInvariant, PTL DEF Spec

\* No task is ever launched twice: the grace window of reset_submission and the adoption by
\* name suffice, for all lengths that fit.
THEOREM NoTaskRunsTwice ==
  ASSUME Timely PROVE Spec => []NoDuplicateJob
<1>1. TimelyInv => NoDuplicateJob
  BY DEF TimelyInv
<1> QED
  BY <1>1, TimelyInvariant, PTL

\* bind_job and reset_submission never raise out of reconcile_once.
THEOREM NoPassRaises ==
  ASSUME Timely PROVE Spec => []ControllerSurvives
<1>1. TimelyInv => ControllerSurvives
  BY DEF TimelyInv
<1> QED
  BY <1>1, TimelyInvariant, PTL

-----------------------------------------------------------------------------
(* Every task lives the life of TaskLife.                                  *)

\* The scan adopts, resets and observes as TaskLife allows; it never takes RUNNING back.
LEMMA ScanLife ==
  ASSUME IInv, TimelyInv, NEW c \in Controllers, ScanStep(c)
  PROVE  Life!LifeNext \/ UNCHANGED status
<1>1. PICK r \in todo[c] : Adopt(c, r) \/ Reread(c, r) \/ Expire(c, r) \/ ObserveRow(c, r)
  BY DEF ScanStep
<1>2. /\ todo[c] \subseteq [task : Tasks, job : JobId \cup {NoJob},
                            do : {"adopt", "reread", "expire", "observe"}]
      /\ status \in [Tasks -> TaskStatus \cup {"ABSENT"}]
      /\ seen \in [Controllers -> [JobId -> Listed \cup {"NONE"}]]
  BY DEF IInv, TypeOK, PassTypeOK, StoreTypeOK
<1>3. /\ r.task \in Tasks
      /\ r.do \in {"adopt", "expire"} => status[r.task] = "SUBMITTING"
      /\ r.do = "observe" => /\ status[r.task] \in {"SUBMITTED", "RUNNING"}
                             /\ seen[c][r.job] # "NONE"
                             /\ r.job \in JobId /\ jobs[r.job].name = r.task
  BY <1>2 DEF TimelyInv, RowsCurrent, IInv, RowsNameOwnJob
<1>4. CASE Adopt(c, r)
  <2>1. status[r.task] = "SUBMITTING"
    BY <1>3, <1>4 DEF Adopt
  <2>2. \/ status' = [status EXCEPT ![r.task] = "SUBMITTED"]
        \/ UNCHANGED status
    BY <1>4 DEF Adopt, Bind, Die, storeVars
  <2>3. CASE status' = [status EXCEPT ![r.task] = "SUBMITTED"]
    <3>1. Life!BindTask(r.task)
      BY <2>1, <2>3 DEF Life!BindTask, Life!Become
    <3> QED
      BY <1>3, <3>1 DEF Life!LifeNext
  <2> QED
    BY <2>2, <2>3
<1>5. CASE Reread(c, r)
  BY <1>5 DEF Reread, NoStore, storeVars
<1>6. CASE Expire(c, r)
  <2>1. status[r.task] = "SUBMITTING"
    BY <1>3, <1>6 DEF Expire
  <2>2. \/ status' = [status EXCEPT ![r.task] = "PENDING"]
        \/ UNCHANGED status
    BY <1>6 DEF Expire, Reset, Die, storeVars
  <2>3. CASE status' = [status EXCEPT ![r.task] = "PENDING"]
    <3>1. Life!ResetTask(r.task)
      BY <2>1, <2>3 DEF Life!ResetTask, Life!Become
    <3> QED
      BY <1>3, <3>1 DEF Life!LifeNext
  <2> QED
    BY <2>2, <2>3
<1>7. CASE ObserveRow(c, r)
  <2> DEFINE s == TaskStatusOf(seen[c][r.job])
  <2>1. r.do = "observe" /\ seen[c][r.job] \in Listed
    BY <1>2, <1>3, <1>7 DEF ObserveRow
  <2>2. \/ status' = [status EXCEPT ![r.task] = s]
        \/ UNCHANGED status
    BY <1>7 DEF ObserveRow, Observe, Die, storeVars
  <2>3. status[r.task] = "RUNNING" => seen[c][r.job] # "PENDING"
    BY <1>3, <2>1 DEF TimelyInv, RunningSeen
  <2>4. \/ s = status[r.task]
        \/ s \in Life!Follows(status[r.task]) /\ s \in Life!Observed
    BY <1>3, <2>1, <2>3
    DEF TaskStatusOf, Listed, Running, Finished, Life!Follows, Life!Observed, Life!Ended
  <2> HIDE DEF s
  <2>5. CASE status' = [status EXCEPT ![r.task] = s] /\ s = status[r.task]
    BY <1>2, <2>5
  <2>6. CASE status' = [status EXCEPT ![r.task] = s] /\ s # status[r.task]
    <3>1. Life!ObserveTask(r.task, s)
      BY <2>4, <2>6 DEF Life!ObserveTask, Life!Become
    <3> QED
      BY <1>3, <2>4, <2>6, <3>1 DEF Life!LifeNext
  <2> QED
    BY <2>2, <2>5, <2>6
<1> QED
  BY <1>1, <1>4, <1>5, <1>6, <1>7

\* Admission and launches change the status of tasks as TaskLife allows.
LEMMA LaunchLife ==
  ASSUME IInv, TimelyInv, NEW c \in Controllers,
         \/ ReserveBatch(c)
         \/ \E t \in Tasks : \/ BuildFails(c, t) \/ Launch(c, t) \/ LaunchReturns(c, t)
                             \/ LaunchRefused(c, t) \/ LaunchLost(c, t)
  PROVE  Life!LifeNext \/ UNCHANGED status
<1>1. CASE ReserveBatch(c)
  <2>1. PICK S \in SUBSET Pending :
          status' = [t \in Tasks |-> IF t \in S THEN "SUBMITTING" ELSE status[t]]
    BY <1>1 DEF ReserveBatch, Reserve
  <2>2. S \in SUBSET Tasks /\ Life!AdmitTasks(S)
    BY <2>1 DEF Pending, Life!AdmitTasks
  <2> QED
    BY <2>2 DEF Life!LifeNext
<1>2. ASSUME NEW t \in Tasks,
             \/ BuildFails(c, t) \/ Launch(c, t) \/ LaunchReturns(c, t)
             \/ LaunchRefused(c, t) \/ LaunchLost(c, t)
      PROVE  Life!LifeNext \/ UNCHANGED status
  <2>1. status[t] = "SUBMITTING"
    BY <1>2, RestHasNoJob
    DEF BuildFails, Launch, LaunchReturns, LaunchRefused, LaunchLost
  <2>2. \/ UNCHANGED status
        \/ \E s \in {"PENDING", "SUBMITTED", "FAILED"} : status' = [status EXCEPT ![t] = s]
    BY <1>2 DEF BuildFails, Launch, LaunchReturns, LaunchRefused, LaunchLost, Fail, Bind,
                Reset, GiveUp, Die, storeVars
  <2>3. ASSUME NEW s \in {"PENDING", "SUBMITTED", "FAILED"}, status' = [status EXCEPT ![t] = s]
        PROVE  Life!ResetTask(t) \/ Life!BindTask(t) \/ Life!FailTask(t)
    BY <2>1, <2>3 DEF Life!ResetTask, Life!BindTask, Life!FailTask, Life!Become
  <2> QED
    BY <2>2, <2>3 DEF Life!LifeNext
<1> QED
  BY <1>1, <1>2

\* Each step is a step of TaskLife or leaves every status alone.
LEMMA LifeStep ==
  ASSUME IInv, TimelyInv, [Next]_vars
  PROVE  [Life!LifeNext]_status
<1>1. CASE UNCHANGED vars
  BY <1>1 DEF vars, storeVars
<1>2. ASSUME NEW c \in Controllers,
             \/ Run(c) \/ ListJobs(c) \/ ListFails(c) \/ Start(c) \/ Crash(c)
             \/ \E t \in Tasks :
                  LaunchReturns(c, t) \/ LaunchRefused(c, t) \/ LaunchLost(c, t)
      PROVE  Life!LifeNext \/ UNCHANGED status
  <2>1. CASE \/ Lead(c) \/ LoseLead(c) \/ Start(c) \/ Crash(c)
             \/ ListJobs(c) \/ ListFails(c) \/ ListTasks(c)
    BY <2>1 DEF Lead, LoseLead, Start, Crash, ListJobs, ListFails, ListTasks, NoStore, storeVars
  <2>2. CASE ScanStep(c)
    BY <2>2, ScanLife
  <2>3. CASE \/ ReserveBatch(c)
             \/ \E t \in Tasks : \/ BuildFails(c, t) \/ Launch(c, t) \/ LaunchReturns(c, t)
                                 \/ LaunchRefused(c, t) \/ LaunchLost(c, t)
    BY <2>3, LaunchLife
  <2> QED
    BY <1>2, <2>1, <2>2, <2>3 DEF Run
<1>3. ASSUME NEW t \in Tasks, SubmitTask(t) PROVE Life!LifeNext
  <2>1. status[t] = "ABSENT" /\ status' = [status EXCEPT ![t] = "PENDING"]
    BY <1>3 DEF SubmitTask, Submit
  <2>2. Life!EnterTasks({t})
    BY <2>1 DEF Life!EnterTasks, IInv, TypeOK, StoreTypeOK
  <2> QED
    BY <2>2 DEF Life!LifeNext
<1>4. CASE \E k \in Classes, p \in Policies : ChangePolicy(k, p)
  BY <1>4 DEF ChangePolicy, SetPolicy
<1>5. CASE \/ \E j \in JobId : AcceptJob(j) \/ RefuseJob(j)
           \/ \E j \in JobId, s \in Listed : MoveJob(j, s)
  BY <1>5 DEF AcceptJob, RefuseJob, MoveJob, storeVars
<1>6. CASE Tick
  BY <1>6 DEF Tick, StoreTick
<1> QED
  BY <1>1, <1>2, <1>3, <1>4, <1>5, <1>6 DEF Next

\* Reconciliation implements the life of a task: the store's unguarded writes (observe_job,
\* fail_task) skip, repeat and take back nothing, for all lengths that fit.
THEOREM LivesAsTaskLife ==
  ASSUME Timely PROVE Spec => ImplementsTaskLife
<1>1. Init => Life!LifeInit
  BY DEF Init, StoreInit, Life!LifeInit
<1>2. IInv /\ TimelyInv /\ [Next]_vars => [Life!LifeNext]_status
  BY LifeStep
<1> QED
  BY <1>1, <1>2, ReconcileInvariant, TimelyInvariant, PTL
  DEF Spec, ImplementsTaskLife, Life!LifeSpec

\* One leader at a time never takes an end back: neither a listing that is older than the
\* row, nor an adoption, nor an expiry moves a task that has ended (observe_job and
\* fail_task would overwrite its status).
THEOREM EndsOfTasksStay ==
  ASSUME Timely
  PROVE  Spec => [][\A t \in Tasks : status[t] \in Terminal => status'[t] = status[t]]_vars
<1>1. ASSUME IInv, [Life!LifeNext]_status, NEW t \in Tasks, status[t] \in Terminal
      PROVE  status'[t] = status[t]
  <2>1. /\ status[t] \notin {"ABSENT", "PENDING", "SUBMITTING"}
        /\ \A s : s \notin Life!Follows(status[t])
    BY <1>1 DEF Terminal, Life!Follows
  <2>2. status \in [Tasks -> TaskStatus \cup {"ABSENT"}]
    BY <1>1 DEF IInv, TypeOK, StoreTypeOK
  <2>3. CASE \E S \in SUBSET Tasks : Life!EnterTasks(S) \/ Life!AdmitTasks(S)
    BY <2>1, <2>3 DEF Life!EnterTasks, Life!AdmitTasks
  <2>4. CASE \E u \in Tasks : Life!BindTask(u) \/ Life!ResetTask(u) \/ Life!FailTask(u)
    BY <2>1, <2>2, <2>4 DEF Life!BindTask, Life!ResetTask, Life!FailTask, Life!Become
  <2>5. CASE \E u \in Tasks, s \in Life!Observed : Life!ObserveTask(u, s)
    BY <2>1, <2>2, <2>5 DEF Life!ObserveTask, Life!Become
  <2> QED
    BY <1>1, <2>3, <2>4, <2>5 DEF Life!LifeNext
<1>2. IInv /\ TimelyInv /\ [Next]_vars =>
        [\A t \in Tasks : status[t] \in Terminal => status'[t] = status[t]]_vars
  BY <1>1, LifeStep
<1> QED
  BY <1>2, ReconcileInvariant, TimelyInvariant, PTL DEF Spec
=============================================================================

------------------------- MODULE SwarmAdmissionProofs -------------------------
(***************************************************************************)
(* Admission counts rows and not jobs, and admits a batch greedily.  That  *)
(* the jobs on the pool leave the recovery reserve idle all the same is    *)
(* proved here for every set of tasks, classes, policies and batch sizes,  *)
(* under the lengths of SwarmTimelyProofs.                                 *)
(***************************************************************************)
EXTENDS SwarmTimelyProofs, FiniteSetTheorems

-----------------------------------------------------------------------------
(* Live jobs and the rows that occupy a slot.                              *)

\* No row of a job still to be launched, accepted or run frees its slot.
LEMMA ScanOccupies ==
  ASSUME IInv, TimelyInv, CountsJobs, NEW c \in Controllers, ScanStep(c),
         NEW j \in JobId, Live(j)
  PROVE  status'[jobs[j].name] \in Occupying
<1>0. /\ status \in [Tasks -> TaskStatus \cup {"ABSENT"}]
      /\ seen \in [Controllers -> [JobId -> Listed \cup {"NONE"}]]
      /\ jobs[j].name \in Tasks /\ status[jobs[j].name] \in Occupying
      /\ \A i \in JobId : jobs[i].name = jobs[j].name => i = j
  BY DEF IInv, TypeOK, StoreTypeOK, PassTypeOK, JobsTypeOK, CountsJobs, LiveOccupies,
         TimelyInv, NoDuplicateJob, Live, Running
<1>1. PICK r \in todo[c] : Adopt(c, r) \/ Reread(c, r) \/ Expire(c, r) \/ ObserveRow(c, r)
  BY DEF ScanStep
<1>2. /\ r.task \in Tasks
      /\ r.do = "expire" => JobsOf(r.task) = {}
      /\ r.do = "observe" => /\ r.job \in JobId /\ jobs[r.job].name = r.task
                             /\ seen[c][r.job] \in Listed
  <2>1. r.task \in Tasks
    BY DEF IInv, TypeOK, PassTypeOK
  <2>2. /\ r.do = "expire" => JobsOf(r.task) = {}
        /\ r.do = "observe" => seen[c][r.job] # "NONE"
    BY DEF TimelyInv, RowsCurrent
  <2>3. r.do = "observe" => r.job \in JobId /\ jobs[r.job].name = r.task
    BY DEF IInv, RowsNameOwnJob
  <2> QED
    BY <1>0, <2>1, <2>2, <2>3
<1>3. \/ UNCHANGED status
      \/ r.do = "expire" /\ status' = [status EXCEPT ![r.task] = "PENDING"]
      \/ status' = [status EXCEPT ![r.task] = "SUBMITTED"]
      \/ /\ r.do = "observe"
         /\ status' = [status EXCEPT ![r.task] = TaskStatusOf(seen[c][r.job])]
  BY <1>1 DEF Adopt, Reread, Expire, ObserveRow, Bind, Reset, Observe, Die, NoStore, storeVars
<1>4. CASE UNCHANGED status
  BY <1>0, <1>4
<1>5. CASE r.do = "expire" /\ status' = [status EXCEPT ![r.task] = "PENDING"]
  <2>1. jobs[j].name # r.task
    BY <1>2, <1>5 DEF JobsOf
  <2> QED
    BY <1>0, <1>5, <2>1
<1>6. CASE status' = [status EXCEPT ![r.task] = "SUBMITTED"]
  BY <1>0, <1>6 DEF Occupying
<1>7. CASE /\ r.do = "observe"
           /\ status' = [status EXCEPT ![r.task] = TaskStatusOf(seen[c][r.job])]
  <2>1. CASE r.job # j
    BY <1>0, <1>2, <1>7, <2>1
  <2>2. CASE r.job = j
    <3>1. seen[c][j] \in Running
      BY <1>2, <1>7, <2>2 DEF CountsJobs, LiveOccupies, Listed
    <3>2. TaskStatusOf(seen[c][j]) \in Occupying
      BY <3>1 DEF TaskStatusOf, Running, Occupying
    <3> QED
      BY <1>0, <1>2, <1>7, <2>2, <3>2
  <2> QED
    BY <2>1, <2>2
<1> QED
  BY <1>3, <1>4, <1>5, <1>6, <1>7

\* Admission and launches: a job comes up only for a task that occupies its slot, and a
\* task gives its slot back only when its request has been refused.
LEMMA LaunchOccupies ==
  ASSUME IInv, TimelyInv, Timely, CountsJobs, NEW c \in Controllers,
         \/ ReserveBatch(c)
         \/ \E t \in Tasks : \/ BuildFails(c, t) \/ Launch(c, t) \/ LaunchReturns(c, t)
                             \/ LaunchRefused(c, t) \/ LaunchLost(c, t),
         NEW j \in JobId
  PROVE  /\ jobs'[j].status # "NONE" => jobs'[j].name # NoTask
         /\ Live(j)' => status'[jobs'[j].name] \in Occupying
<1>0. /\ status \in [Tasks -> TaskStatus \cup {"ABSENT"}]
      /\ jobs \in [JobId -> [name : Tasks \cup {NoTask},
                            status : Listed \cup {"NONE", "REQUESTED"}, wait : 0..MaxDelay]]
      /\ jobs[j].status # "NONE" => jobs[j].name \in Tasks
      /\ Live(j) => status[jobs[j].name] \in Occupying
      /\ NoTask \notin Tasks
  BY JobsAssumption DEF IInv, TypeOK, StoreTypeOK, JobsTypeOK, CountsJobs, LiveOccupies
<1>1. CASE ReserveBatch(c)
  <2>1. PICK S \in SUBSET Pending :
          status' = [t \in Tasks |-> IF t \in S THEN "SUBMITTING" ELSE status[t]]
    BY <1>1 DEF ReserveBatch, Reserve
  <2>2. jobs' = jobs
    BY <1>1 DEF ReserveBatch, OnlyStore
  <2> QED
    BY <1>0, <2>1, <2>2 DEF Live, Running, Occupying
<1>2. ASSUME NEW t \in Tasks, BuildFails(c, t)
      PROVE  /\ jobs'[j].status # "NONE" => jobs'[j].name # NoTask
             /\ Live(j)' => status'[jobs'[j].name] \in Occupying
  <2>1. JobsOf(t) = {}
    BY <1>2, RestHasNoJob DEF BuildFails
  <2>2. jobs' = jobs /\ status' = [status EXCEPT ![t] = "FAILED"]
    BY <1>2 DEF BuildFails, Fail, OnlyStore
  <2> QED
    BY <1>0, <2>1, <2>2 DEF Live, Running, JobsOf
<1>3. ASSUME NEW t \in Tasks, Launch(c, t)
      PROVE  /\ jobs'[j].status # "NONE" => jobs'[j].name # NoTask
             /\ Live(j)' => status'[jobs'[j].name] \in Occupying
  <2>1. status[t] = "SUBMITTING" /\ status' = status
    BY <1>3, RestHasNoJob DEF Launch, storeVars
  <2>2. PICK i \in JobId :
          jobs' = [jobs EXCEPT ![i] = [name |-> t, status |-> "REQUESTED", wait |-> 0]]
    BY <1>3 DEF Launch, Request
  <2>3. CASE i = j
    BY <1>0, <2>1, <2>2, <2>3 DEF Occupying
  <2>4. CASE i # j
    BY <1>0, <2>1, <2>2, <2>4 DEF Live
  <2> QED
    BY <2>3, <2>4
<1>4. ASSUME NEW t \in Tasks, LaunchReturns(c, t)
      PROVE  /\ jobs'[j].status # "NONE" => jobs'[j].name # NoTask
             /\ Live(j)' => status'[jobs'[j].name] \in Occupying
  <2>1. jobs' = jobs /\ status' = [status EXCEPT ![t] = "SUBMITTED"]
    BY <1>4, LaunchFinds DEF LaunchReturns, Bind, OnlyStore
  <2> QED
    BY <1>0, <2>1 DEF Live, Running, Occupying
<1>5. ASSUME NEW t \in Tasks, LaunchRefused(c, t)
      PROVE  /\ jobs'[j].status # "NONE" => jobs'[j].name # NoTask
             /\ Live(j)' => status'[jobs'[j].name] \in Occupying
  <2>1. /\ jobs' = [jobs EXCEPT ![call[c]] = FreeSlot]
        /\ status' = [status EXCEPT ![t] = "PENDING"]
        /\ call[c] \in JobId /\ JobsOf(t) \subseteq {call[c]}
    BY <1>5, LaunchFinds, RestHasNoJob DEF LaunchRefused, Refuse, GiveUp, Reset
  <2>2. CASE call[c] = j
    <3>1. jobs'[j].status = "NONE"
      BY <1>0, <2>1, <2>2 DEF FreeSlot
    <3> QED
      BY <3>1 DEF Live, Running
  <2>3. CASE call[c] # j
    <3>1. jobs'[j] = jobs[j] /\ jobs[j].name # t
      BY <1>0, <2>1, <2>3 DEF JobsOf
    <3> QED
      BY <1>0, <2>1, <3>1 DEF Live, Running
  <2> QED
    BY <2>2, <2>3
<1> QED
  BY <1>1, <1>2, <1>3, <1>4, <1>5 DEF LaunchLost, Timely

\* SkyPilot, the API and time: a job that is over stays over, and a new row has none.
LEMMA WorldOccupies ==
  ASSUME IInv, TimelyInv, CountsJobs,
         \/ \E t \in Tasks : SubmitTask(t)
         \/ \E i \in JobId : AcceptJob(i) \/ RefuseJob(i)
         \/ \E i \in JobId, s \in Listed : MoveJob(i, s)
         \/ Tick,
         NEW j \in JobId
  PROVE  /\ jobs'[j].status # "NONE" => jobs'[j].name # NoTask
         /\ Live(j)' => status'[jobs'[j].name] \in Occupying
<1>0. /\ status \in [Tasks -> TaskStatus \cup {"ABSENT"}]
      /\ jobs \in [JobId -> [name : Tasks \cup {NoTask},
                            status : Listed \cup {"NONE", "REQUESTED"}, wait : 0..MaxDelay]]
      /\ jobs[j].status # "NONE" => jobs[j].name # NoTask
      /\ Live(j) => status[jobs[j].name] \in Occupying
  BY DEF IInv, TypeOK, StoreTypeOK, JobsTypeOK, CountsJobs, LiveOccupies
<1>1. CASE \E t \in Tasks : SubmitTask(t)
  <2>1. PICK t \in Tasks : /\ status[t] = "ABSENT" /\ jobs' = jobs
                           /\ status' = [status EXCEPT ![t] = "PENDING"]
    BY <1>1 DEF SubmitTask, Submit
  <2>2. jobs[j].name # t
    BY <2>1 DEF TimelyInv, WaitingHasNoJob, JobsOf
  <2> QED
    BY <1>0, <2>1, <2>2 DEF Live
<1>2. CASE \/ \E i \in JobId : AcceptJob(i) \/ RefuseJob(i)
           \/ \E i \in JobId, s \in Listed : MoveJob(i, s)
           \/ Tick
  <2>1. status' = status
    BY <1>2 DEF AcceptJob, RefuseJob, MoveJob, Tick, StoreTick, storeVars
  <2>2. \/ jobs'[j].status = "NONE"
        \/ /\ jobs'[j].name = jobs[j].name /\ jobs[j].status # "NONE"
           /\ Live(j)' => Live(j)
        \/ jobs'[j] = jobs[j]
    <3>1. CASE \/ \E i \in JobId : AcceptJob(i) \/ RefuseJob(i)
               \/ \E i \in JobId, s \in Listed : MoveJob(i, s)
      <4>1. ASSUME NEW i \in JobId, Accept(i)
            PROVE  \/ jobs'[j] = jobs[j]
                   \/ jobs'[j].name = jobs[j].name /\ Live(j) /\ jobs[j].status # "NONE"
        BY <1>0, <4>1 DEF Accept, Live
      <4>2. ASSUME NEW i \in JobId, Refuse(i)
            PROVE  jobs'[j] = jobs[j] \/ jobs'[j].status = "NONE"
        BY <1>0, <4>2 DEF Refuse, FreeSlot
      <4>3. ASSUME NEW i \in JobId, NEW s \in Listed, Move(i, s)
            PROVE  \/ jobs'[j] = jobs[j]
                   \/ /\ jobs'[j].name = jobs[j].name /\ jobs[j].status # "NONE"
                      /\ Live(j)' => Live(j)
        <5>1. jobs' = [jobs EXCEPT ![i] = [jobs[i] EXCEPT !.status = s]]
          BY <4>3 DEF Move
        <5>2. CASE i = j
          <6>1. /\ jobs'[j].name = jobs[j].name /\ jobs'[j].status = s
                /\ s \in Moves(jobs[j].status)
            BY <1>0, <4>3, <5>1, <5>2 DEF Move
          <6> QED
            BY <6>1 DEF Moves, Live, Running
        <5> QED
          BY <1>0, <5>1, <5>2
      <4> QED
        BY <3>1, <4>1, <4>2, <4>3 DEF AcceptJob, RefuseJob, MoveJob
    <3>2. CASE Tick
      <4>1. jobs'[j] = IF jobs[j].status = "REQUESTED"
                         THEN [jobs[j] EXCEPT !.wait = jobs[j].wait + 1] ELSE jobs[j]
        BY <3>2 DEF Tick, JobsTick
      <4> QED
        BY <1>0, <4>1 DEF Live
    <3> QED
      BY <1>2, <3>1, <3>2
  <2> QED
    BY <1>0, <2>1, <2>2 DEF Live, Running
<1> QED
  BY <1>1, <1>2

\* The scan leaves the jobs alone.
LEMMA ScanJobs ==
  ASSUME NEW c \in Controllers, ScanStep(c)
  PROVE  UNCHANGED jobs
  BY DEF ScanStep, Adopt, Reread, Expire, ObserveRow, OnlyStore, NoStore, Die

\* Leaving a pass forgets its listing.
LEMMA LeaveSeen ==
  ASSUME TypeOK, NEW c \in Controllers, NEW place, Leave(c, place)
  PROVE  \A d \in Controllers : seen'[d] = seen[d] \/ seen'[d] = Unseen
  BY DEF Leave, TypeOK, PassTypeOK

\* A listing changes by being taken or forgotten.
LEMMA SeenStep ==
  ASSUME TypeOK, [Next]_vars, NEW d \in Controllers, NEW j \in JobId
  PROVE  \/ seen'[d][j] = seen[d][j] \/ seen'[d][j] = "NONE"
         \/ seen'[d][j] = jobs[j].status /\ jobs' = jobs
<1>0. Unseen[j] = "NONE"
  BY DEF Unseen
<1>1. CASE UNCHANGED seen
  BY <1>1
<1>2. ASSUME NEW c \in Controllers, NEW place, Leave(c, place)
      PROVE  seen'[d][j] = seen[d][j] \/ seen'[d][j] = "NONE"
  BY <1>0, <1>2, LeaveSeen
<1>3. ASSUME NEW c \in Controllers, ListJobs(c)
      PROVE  \/ seen'[d][j] = seen[d][j] \/ seen'[d][j] = "NONE"
             \/ seen'[d][j] = jobs[j].status /\ jobs' = jobs
  BY <1>3 DEF ListJobs, NoStore, TypeOK, PassTypeOK
<1>4. ASSUME NEW c \in Controllers,
             ReserveBatch(c) \/ ScanStep(c) \/ ListFails(c) \/ Crash(c)
      PROVE  seen'[d][j] = seen[d][j] \/ seen'[d][j] = "NONE"
  <2>1. CASE ScanStep(c)
    <3>1. UNCHANGED seen \/ Leave(c, "dead")
      BY <2>1 DEF ScanStep, Adopt, Reread, Expire, ObserveRow, Die
    <3> QED
      BY <1>2, <3>1
  <2>2. CASE ReserveBatch(c)
    <3>1. Leave(c, "idle") \/ seen' = [seen EXCEPT ![c] = Unseen]
      BY <2>2 DEF ReserveBatch
    <3>2. CASE seen' = [seen EXCEPT ![c] = Unseen]
      BY <1>0, <3>2 DEF TypeOK, PassTypeOK
    <3> QED
      BY <1>2, <3>1, <3>2
  <2>3. CASE ListFails(c) \/ Crash(c)
    BY <1>2, <2>3 DEF ListFails, Crash
  <2> QED
    BY <1>4, <2>1, <2>2, <2>3
<1>5. ASSUME NEW c \in Controllers, NEW t \in Tasks,
             \/ BuildFails(c, t) \/ Launch(c, t) \/ LaunchReturns(c, t)
             \/ LaunchRefused(c, t) \/ LaunchLost(c, t)
      PROVE  seen'[d][j] = seen[d][j] \/ seen'[d][j] = "NONE"
  <2>1. UNCHANGED seen \/ Leave(c, "idle") \/ Leave(c, "dead")
    BY <1>5 DEF BuildFails, Launch, LaunchReturns, LaunchRefused, LaunchLost, NextTask, GiveUp, Die
  <2> QED
    BY <1>2, <2>1
<1>6. CASE \E c \in Controllers : Lead(c) \/ LoseLead(c) \/ ListTasks(c) \/ Start(c)
  BY <1>6 DEF Lead, LoseLead, ListTasks, Start, localVars
<1>7. CASE \/ UNCHANGED vars \/ Tick
           \/ \E t \in Tasks : SubmitTask(t)
           \/ \E k \in Classes, p \in Policies : ChangePolicy(k, p)
           \/ \E i \in JobId : AcceptJob(i) \/ RefuseJob(i)
           \/ \E i \in JobId, s \in Listed : MoveJob(i, s)
  BY <1>7 DEF vars, localVars, Tick, SubmitTask, ChangePolicy, AcceptJob, RefuseJob, MoveJob
<1> QED
  BY <1>3, <1>4, <1>5, <1>6, <1>7 DEF Next, Run

\* A job that is over, or being cancelled, does not come back.
LEMMA OverStays ==
  ASSUME IInv, TimelyInv, Timely, [Next]_vars, NEW j \in JobId,
         jobs[j].status \in {"CANCELLING"} \cup Finished
  PROVE  ~Live(j)'
<1>0. jobs \in [JobId -> [name : Tasks \cup {NoTask},
                         status : Listed \cup {"NONE", "REQUESTED"}, wait : 0..MaxDelay]]
  BY DEF IInv, TypeOK, JobsTypeOK
<1>1. CASE jobs'[j].status = jobs[j].status
  BY <1>1 DEF Live, Running, Finished
<1>2. ASSUME NEW i \in JobId, NEW s, Move(i, s) PROVE ~Live(j)'
  <2>1. jobs' = [jobs EXCEPT ![i] = [jobs[i] EXCEPT !.status = s]] /\ s \in Moves(jobs[i].status)
    BY <1>2 DEF Move
  <2>2. CASE i = j
    <3>1. jobs'[j].status = s /\ s \in {"CANCELLED"}
      BY <1>0, <2>1, <2>2 DEF Moves, Finished
    <3> QED
      BY <3>1 DEF Live, Running
  <2>3. CASE i # j
    BY <1>0, <1>1, <2>1, <2>3
  <2> QED
    BY <2>2, <2>3
<1>3. ASSUME NEW i \in JobId, NEW t, Accept(i) \/ Refuse(i) \/ Request(t, i) PROVE ~Live(j)'
  <2>1. jobs'[j] = jobs[j]
    BY <1>0, <1>3 DEF Accept, Refuse, Request, FreeSlot, Finished
  <2> QED
    BY <1>1, <2>1
<1>4. CASE Tick
  <2>1. jobs'[j] = jobs[j]
    BY <1>4 DEF Tick, JobsTick, Finished
  <2> QED
    BY <1>1, <2>1
<1>5. ASSUME NEW c \in Controllers, NEW t \in Tasks, LaunchRefused(c, t) PROVE ~Live(j)'
  BY <1>3, <1>5, LaunchFinds DEF LaunchRefused
<1>6. CASE UNCHANGED jobs
  BY <1>1, <1>6
<1>7. \/ UNCHANGED jobs \/ Tick
      \/ \E i \in JobId : AcceptJob(i) \/ RefuseJob(i) \/ \E s \in Listed : MoveJob(i, s)
      \/ \E c \in Controllers, t \in Tasks : Launch(c, t) \/ LaunchRefused(c, t)
  <2>1. ASSUME NEW c \in Controllers, Run(c) PROVE UNCHANGED jobs \/ \E t \in Tasks : Launch(c, t)
    BY <2>1, ScanJobs DEF Run, Lead, LoseLead, ListTasks, ReserveBatch, BuildFails, NoStore, OnlyStore
  <2>2. ASSUME NEW c \in Controllers, NEW t \in Tasks, LaunchReturns(c, t) \/ LaunchLost(c, t)
        PROVE  UNCHANGED jobs
    BY <2>2 DEF LaunchReturns, LaunchLost, OnlyStore, Die
  <2>3. ASSUME NEW c \in Controllers, ListJobs(c) \/ ListFails(c) \/ Start(c) \/ Crash(c)
        PROVE  UNCHANGED jobs
    BY <2>3 DEF ListJobs, ListFails, Start, Crash, NoStore
  <2>4. CASE \/ UNCHANGED vars
             \/ \E t \in Tasks : SubmitTask(t)
             \/ \E k \in Classes, p \in Policies : ChangePolicy(k, p)
    BY <2>4 DEF vars, SubmitTask, ChangePolicy
  <2> QED
    BY <2>1, <2>2, <2>3, <2>4 DEF Next
<1> QED
  BY <1>2, <1>3, <1>4, <1>5, <1>6, <1>7 DEF AcceptJob, RefuseJob, MoveJob, Launch

\* Live jobs keep their slots through every step.
LEMMA LiveStep ==
  ASSUME IInv, TimelyInv, Timely, CountsJobs, [Next]_vars
  PROVE  LiveOccupies'
<1>1. ASSUME NEW j \in JobId
      PROVE  /\ jobs'[j].status # "NONE" => jobs'[j].name # NoTask
             /\ Live(j)' => status'[jobs'[j].name] \in Occupying
  <2>1. CASE UNCHANGED <<status, jobs>>
    BY <2>1 DEF CountsJobs, LiveOccupies, Live
  <2>2. ASSUME NEW c \in Controllers, ScanStep(c)
        PROVE  /\ jobs'[j].status # "NONE" => jobs'[j].name # NoTask
               /\ Live(j)' => status'[jobs'[j].name] \in Occupying
    BY <2>2, ScanJobs, ScanOccupies DEF CountsJobs, LiveOccupies, Live
  <2>3. CASE \/ UNCHANGED vars
             \/ \E k \in Classes, p \in Policies : ChangePolicy(k, p)
             \/ \E c \in Controllers : Lead(c) \/ LoseLead(c) \/ ListTasks(c) \/ ListJobs(c)
                                       \/ ListFails(c) \/ Start(c) \/ Crash(c)
    BY <2>1, <2>3 DEF vars, storeVars, ChangePolicy, SetPolicy, Lead, LoseLead, ListTasks,
                      ListJobs, ListFails, Start, Crash, NoStore
  <2> QED
    BY <2>2, <2>3, LaunchOccupies, WorldOccupies DEF Next, Run
<1>2. ASSUME NEW c \in Controllers, NEW j \in JobId,
             seen'[c][j] \in {"CANCELLING"} \cup Finished
      PROVE  ~Live(j)'
  <2>1. /\ seen[c][j] # "NONE" => jobs[j].status \in Listed
        /\ seen[c][j] \in {"CANCELLING"} \cup Finished => ~Live(j)
    BY DEF IInv, SeenIsListed, CountsJobs, LiveOccupies
  <2>2. \/ jobs[j].status \in {"CANCELLING"} \cup Finished
        \/ seen'[c][j] = jobs[j].status /\ jobs' = jobs
    BY <1>2, <2>1, SeenStep DEF IInv, Finished, Live, Listed
  <2> QED
    BY <1>2, <2>2, OverStays
<1> QED
  BY <1>1, <1>2 DEF LiveOccupies

-----------------------------------------------------------------------------
(* The order of creation, however many leaders there are.                  *)

\* A scan handles rows that it has read.
RowsPresent == \A c \in Controllers : \A r \in todo[c] : r.task \in Present

\* A row that gets another status stays a row.
LEMMA RowStays ==
  ASSUME TypeOK, NEW t \in Present, NEW s, s # "ABSENT", status' = [status EXCEPT ![t] = s]
  PROVE  Present' = Present
BY DEF TypeOK, StoreTypeOK, Present

\* What the executor says never makes a row disappear.
LEMMA StatusIsNone == \A executor : TaskStatusOf(executor) # "ABSENT"
BY DEF TaskStatusOf

\* Only POST /v1/tasks makes a row, and nothing removes one.
LEMMA RowsStay ==
  ASSUME IInv, RowsPresent, [Next]_vars, ~(\E t \in Tasks : SubmitTask(t))
  PROVE  UNCHANGED created /\ Present' = Present
<1>0. TypeOK
  BY DEF IInv
<1>1. ASSUME NEW c \in Controllers, ScanStep(c)
      PROVE  UNCHANGED created /\ Present' = Present
  <2>1. PICK r \in todo[c] : Adopt(c, r) \/ Reread(c, r) \/ Expire(c, r) \/ ObserveRow(c, r)
    BY <1>1 DEF ScanStep
  <2>2. r.task \in Present
    BY DEF RowsPresent
  <2>3. /\ UNCHANGED created
        /\ UNCHANGED status \/ \E s : s # "ABSENT" /\ status' = [status EXCEPT ![r.task] = s]
    BY <2>1, StatusIsNone
    DEF Adopt, Reread, Expire, ObserveRow, Bind, Reset, Observe, Die, NoStore, storeVars
  <2>4. CASE UNCHANGED status
    BY <2>3, <2>4 DEF Present
  <2> QED
    BY <1>0, <2>2, <2>3, <2>4, RowStays
<1>2. ASSUME NEW c \in Controllers, ReserveBatch(c)
      PROVE  UNCHANGED created /\ Present' = Present
  <2>1. PICK S \in SUBSET Pending : Reserve(S, passAge[c])
    BY <1>2 DEF ReserveBatch
  <2>2. /\ UNCHANGED created
        /\ status' = [t \in Tasks |-> IF t \in S THEN "SUBMITTING" ELSE status[t]]
    BY <2>1 DEF Reserve
  <2> QED
    BY <2>2 DEF Pending, Present
<1>3. ASSUME NEW c \in Controllers, NEW t \in Tasks,
             \/ BuildFails(c, t) \/ Launch(c, t) \/ LaunchReturns(c, t)
             \/ LaunchRefused(c, t) \/ LaunchLost(c, t)
      PROVE  UNCHANGED created /\ Present' = Present
  <2>1. t \in Present
    BY <1>3
    DEF BuildFails, Launch, LaunchReturns, LaunchRefused, LaunchLost, AtTask, IInv, BatchPresent
  <2>2. /\ UNCHANGED created
        /\ UNCHANGED status \/ \E s : s # "ABSENT" /\ status' = [status EXCEPT ![t] = s]
    BY <1>3 DEF BuildFails, Launch, LaunchReturns, LaunchRefused, LaunchLost, Fail, Bind,
                Reset, GiveUp, Die, storeVars
  <2>3. CASE UNCHANGED status
    BY <2>2, <2>3 DEF Present
  <2> QED
    BY <1>0, <2>1, <2>2, <2>3, RowStays
<1>4. CASE \/ \E c \in Controllers : Lead(c) \/ LoseLead(c) \/ ListTasks(c) \/ ListJobs(c)
                                     \/ ListFails(c) \/ Start(c) \/ Crash(c)
           \/ UNCHANGED vars \/ Tick
           \/ \E k \in Classes, p \in Policies : ChangePolicy(k, p)
           \/ \E i \in JobId : AcceptJob(i) \/ RefuseJob(i)
           \/ \E i \in JobId, s \in Listed : MoveJob(i, s)
  BY <1>4 DEF vars, storeVars, Lead, LoseLead, ListTasks, ListJobs, ListFails, Start, Crash,
              NoStore, Tick, StoreTick, ChangePolicy, SetPolicy, AcceptJob, RefuseJob,
              MoveJob, Present
<1> QED
  BY <1>1, <1>2, <1>3, <1>4 DEF Next, Run

\* A scan drops rows or goes on with the same ones, and starts with rows that are there.
LEMMA ScanRows ==
  ASSUME IInv, RowsPresent, [Next]_vars, NEW c \in Controllers, NEW r \in todo'[c]
  PROVE  r.task \in Present
<1>0. todo \in [Controllers -> SUBSET [task : Tasks, do : {"adopt", "reread", "expire", "observe"},
                                      job : JobId \cup {NoJob}]]
  BY DEF IInv, TypeOK, PassTypeOK
<1>1. CASE todo'[c] \subseteq todo[c]
  BY <1>1 DEF RowsPresent
<1>2. CASE ListTasks(c)
  <2>1. PICK t \in Tasks : r \in Duty(c, t)
    BY <1>0, <1>2 DEF ListTasks
  <2>2. r.task = t
    BY <2>1 DEF Duty
  <2>3. status[t] # "ABSENT"
    BY <2>1 DEF Duty, IInv, UnlaunchedHasNoJob
  <2> QED
    BY <2>2, <2>3 DEF Present
<1>3. CASE ScanStep(c)
  <2>1. PICK q \in todo[c] : Adopt(c, q) \/ Reread(c, q) \/ Expire(c, q) \/ ObserveRow(c, q)
    BY <1>3 DEF ScanStep
  <2>2. q.task \in Present
    BY DEF RowsPresent
  <2>3. \/ todo'[c] \subseteq todo[c]
        \/ \E p : p.task = q.task /\ todo'[c] = (todo[c] \ {q}) \cup {p}
    <3>1. [q EXCEPT !.do = "reread"].task = q.task
      BY <1>0
    <3>2. \A j : [q EXCEPT !.do = "observe", !.job = j].task = q.task
      BY <1>0
    <3> QED
      BY <1>0, <2>1, <3>1, <3>2
      DEF Adopt, Reread, Expire, ObserveRow, NextRows, Die, Leave
  <2> QED
    BY <2>2, <2>3, <1>1 DEF RowsPresent
<1>4. CASE ~ListTasks(c) /\ ~ScanStep(c)
  <2>1. ASSUME NEW d \in Controllers, ListTasks(d) \/ ScanStep(d), d # c
        PROVE  todo'[c] = todo[c]
    BY <1>0, <2>1 DEF ListTasks, ScanStep, Adopt, Reread, Expire, ObserveRow, NextRows, Die, Leave
  <2>2. ASSUME NEW d \in Controllers,
               \/ Lead(d) \/ LoseLead(d) \/ ListJobs(d) \/ ListFails(d) \/ Start(d) \/ Crash(d)
               \/ ReserveBatch(d)
        PROVE  todo'[c] \subseteq todo[c]
    BY <1>0, <2>2 DEF Lead, LoseLead, ListJobs, ListFails, Start, Crash, ReserveBatch, Leave,
                      localVars
  <2>3. ASSUME NEW d \in Controllers, NEW t \in Tasks,
               \/ BuildFails(d, t) \/ Launch(d, t) \/ LaunchReturns(d, t)
               \/ LaunchRefused(d, t) \/ LaunchLost(d, t)
        PROVE  todo'[c] \subseteq todo[c]
    BY <1>0, <2>3 DEF BuildFails, Launch, LaunchReturns, LaunchRefused, LaunchLost, NextTask,
                      GiveUp, Die, Leave
  <2>4. CASE \/ UNCHANGED vars \/ Tick \/ \E t \in Tasks : SubmitTask(t)
             \/ \E k \in Classes, p \in Policies : ChangePolicy(k, p)
             \/ \E i \in JobId : AcceptJob(i) \/ RefuseJob(i)
             \/ \E i \in JobId, s \in Listed : MoveJob(i, s)
    BY <1>1, <2>4 DEF vars, localVars, Tick, SubmitTask, ChangePolicy, AcceptJob, RefuseJob, MoveJob
  <2> QED
    BY <1>1, <1>4, <2>1, <2>2, <2>3, <2>4 DEF Next, Run
<1> QED
  BY <1>2, <1>3, <1>4

\* A new row finds its place among the others, which keep their order.
LEMMA CreatedStep ==
  ASSUME IInv, RowsPresent, CreatedInOrder, [Next]_vars
  PROVE  RowsPresent' /\ CreatedInOrder'
<1>1. CASE ~(\E t \in Tasks : SubmitTask(t))
  BY <1>1, RowsStay, ScanRows DEF CreatedInOrder, RowsPresent
<1>2. ASSUME NEW t \in Tasks, SubmitTask(t) PROVE RowsPresent' /\ CreatedInOrder'
  <2> DEFINE n == Cardinality(Present)
  <2>1. /\ t \notin Present /\ Present' = Present \cup {t}
        /\ created \in [Tasks -> Nat] /\ Present \subseteq Tasks
    BY <1>2 DEF SubmitTask, Submit, Present, IInv, TypeOK, StoreTypeOK
  <2>2. n \in Nat /\ Cardinality(Present') = n + 1
    BY <2>1, NamesAssumption, FS_Subset, FS_CardinalityType, FS_AddElement
  <2>3. PICK rank \in 1..n + 1 :
          created' = [u \in Tasks |-> IF u = t THEN rank
                                     ELSE IF created[u] >= rank THEN created[u] + 1
                                     ELSE created[u]]
    BY <1>2 DEF SubmitTask, Submit
  <2>4. /\ \A u \in Present : created[u] \in 1..n
        /\ \A u, v \in Present : created[u] = created[v] => u = v
    BY <2>1 DEF CreatedInOrder
  <2> HIDE DEF n
  <2>5. \A u \in Present' : created'[u] \in 1..(n + 1)
    BY <2>1, <2>2, <2>3, <2>4
  <2>6. \A u, v \in Present' : created'[u] = created'[v] => u = v
    BY <2>1, <2>2, <2>3, <2>4
  <2>7. RowsPresent'
    BY <2>1, ScanRows DEF RowsPresent
  <2> QED
    BY <2>2, <2>5, <2>6, <2>7 DEF CreatedInOrder
<1> QED
  BY <1>1, <1>2

\* The order of admission is strict, whoever leads (ORDER BY priority DESC, created_at).
LEMMA RowsInOrder == Spec => [](RowsPresent /\ CreatedInOrder)
<1>1. Init => RowsPresent /\ CreatedInOrder
  BY DEF Init, StoreInit, CreatedInOrder, RowsPresent, Present
<1>2. IInv /\ RowsPresent /\ CreatedInOrder /\ [Next]_vars => (RowsPresent /\ CreatedInOrder)'
  BY CreatedStep
<1> QED
  BY <1>1, <1>2, ReconcileInvariant, PTL DEF Spec

\* In the beginning there are no rows and no jobs.
LEMMA InitCounts == Init => LiveOccupies
BY DEF Init, JobsInit, FreeSlot, LiveOccupies, Live, Running, Unseen, Finished

\* The rows that occupy a slot include those of all jobs that do, at every moment: what
\* reserve_submissions relies on when it counts its own table.
THEOREM RowsCountJobs ==
  ASSUME Timely PROVE Spec => []CountsJobs
<1>1. Init /\ CreatedInOrder => CountsJobs
  BY InitCounts DEF CountsJobs
<1>2. IInv /\ TimelyInv /\ CountsJobs /\ [Next]_vars /\ CreatedInOrder' => CountsJobs'
  BY LiveStep DEF CountsJobs
<1> QED
  BY <1>1, <1>2, RowsInOrder, ReconcileInvariant, TimelyInvariant, PTL DEF Spec

-----------------------------------------------------------------------------
(* What one call of reserve_submissions admits.                            *)

\* Priorities are numbers.
LEMMA PriorityType ==
  /\ \A t \in Tasks : PriorityOf[t] \in Int
  /\ Recovery \in Int
<1>1. /\ PriorityOf \in [Tasks -> -1000..1000]
      /\ Recovery \in -1000..1000
  BY StoreAssumption
<1>2. -1000..1000 \subseteq Int
  OBVIOUS
<1> DEFINE Numbers == -1000..1000
<1>3. PriorityOf \in [Tasks -> Numbers] /\ Recovery \in Numbers /\ Numbers \subseteq Int
  BY <1>1, <1>2
<1> HIDE DEF Numbers
<1> QED
  BY <1>3

\* ORDER BY priority DESC, created_at, task_id is a strict order of the rows.
LEMMA BeforeOrders ==
  ASSUME TypeOK, CreatedInOrder,
         NEW t \in Present, NEW u \in Present
  PROVE  /\ ~Before(t, t)
         /\ t = u \/ Before(t, u) \/ Before(u, t)
         /\ ~(Before(t, u) /\ Before(u, t))
         /\ \A v \in Present : Before(t, u) /\ Before(u, v) => Before(t, v)
         /\ Before(t, u) => PriorityOf[u] <= PriorityOf[t]
<1>1. \A v \in Present : v \in Tasks
  BY DEF Present
<1>2. \A v \in Present : PriorityOf[v] \in Int /\ created[v] \in Int
  <2>1. created \in [Tasks -> Nat]
    BY DEF TypeOK, StoreTypeOK
  <2> QED
    BY <1>1, <2>1, PriorityType
<1>3. created[t] = created[u] => t = u
  BY DEF CreatedInOrder
<1> QED
  BY <1>2, <1>3 DEF Before

\* A relation without cycles leads out of every finite set.
LEMMA OutermostOne ==
  ASSUME NEW K, IsFiniteSet(K), K # {}, NEW R,
         \A x \in K : <<x, x>> \notin R,
         \A x, y, z \in K : <<x, y>> \in R /\ <<y, z>> \in R => <<x, z>> \in R
  PROVE  \E m \in K : \A x \in K : <<m, x>> \notin R
<1> DEFINE Beyond(x) == {u \in K : <<x, u>> \in R}
           Sets == {Beyond(x) : x \in K}
<1>1. Sets \subseteq FiniteSubsetsOf(K)
  <2> SUFFICES ASSUME NEW x \in K PROVE Beyond(x) \in FiniteSubsetsOf(K)
    OBVIOUS
  <2>1. Beyond(x) \in SUBSET K
    OBVIOUS
  <2> QED
    BY <2>1, FS_Subset DEF FiniteSubsetsOf
<1>2. Sets # {}
  <2>1. PICK x \in K : TRUE
    OBVIOUS
  <2>2. Beyond(x) \in Sets
    OBVIOUS
  <2> QED
    BY <2>2
<1>3. PICK L \in Sets : \A M \in Sets : <<M, L>> \notin StrictSubsetOrdering(K)
  <2> HIDE DEF Sets
  <2> QED
    BY <1>1, <1>2, FS_StrictSubsetOrderingWellFounded, WFMin
<1>4. PICK m \in K : L = Beyond(m)
  BY <1>3
<1>5. ASSUME NEW x \in L PROVE FALSE
  <2>1. x \in K /\ <<m, x>> \in R
    BY <1>4, <1>5
  <2>2. Beyond(x) \subseteq L /\ x \notin Beyond(x)
    BY <1>4, <2>1
  <2>3. <<Beyond(x), L>> \in StrictSubsetOrdering(K)
    BY <1>4, <1>5, <2>2 DEF StrictSubsetOrdering
  <2> QED
    BY <1>3, <2>1, <2>3
<1> QED
  BY <1>4, <1>5

\* The last of some rows in that order, and the first.
LEMMA LastOne ==
  ASSUME TypeOK, CreatedInOrder, NEW K, K \subseteq Present, K # {}
  PROVE  \E m \in K : \A u \in K \ {m} : Before(u, m)
<1> DEFINE R == {p \in K \X K : Before(p[1], p[2])}
<1>1. IsFiniteSet(K)
  BY NamesAssumption, FS_Subset DEF Present
<1>2. \A x, y \in K : <<x, y>> \in R <=> Before(x, y)
  OBVIOUS
<1> HIDE DEF R
<1>3. /\ \A x \in K : <<x, x>> \notin R
      /\ \A x, y, z \in K : <<x, y>> \in R /\ <<y, z>> \in R => <<x, z>> \in R
  BY <1>2, BeforeOrders
<1>4. PICK m \in K : \A x \in K : <<m, x>> \notin R
  BY <1>1, <1>3, OutermostOne
<1> QED
  BY <1>2, <1>4, BeforeOrders

\* Of some rows one comes first in the order of admission.
LEMMA FirstOne ==
  ASSUME TypeOK, CreatedInOrder, NEW K, K \subseteq Present, K # {}
  PROVE  \E m \in K : \A u \in K \ {m} : Before(m, u)
<1> DEFINE R == {p \in K \X K : Before(p[2], p[1])}
<1>1. IsFiniteSet(K)
  BY NamesAssumption, FS_Subset DEF Present
<1>2. \A x, y \in K : <<x, y>> \in R <=> Before(y, x)
  OBVIOUS
<1> HIDE DEF R
<1>3. /\ \A x \in K : <<x, x>> \notin R
      /\ \A x, y, z \in K : <<x, y>> \in R /\ <<y, z>> \in R => <<x, z>> \in R
  BY <1>2, BeforeOrders
<1>4. PICK m \in K : \A x \in K : <<m, x>> \notin R
  BY <1>1, <1>3, OutermostOne
<1> QED
  BY <1>2, <1>4, BeforeOrders

\* If an ordinary task is admitted, its class with all that the call admits to it leaves
\* the reserve alone: the last one admitted is ordinary too, and it was let in.
LEMMA BatchFits ==
  ASSUME TypeOK, CreatedInOrder, NEW S \in SUBSET Pending, Admits(S),
         NEW t \in S, ~IsRecovery(t), policy[ClassOf[t]] # NoPolicy
  PROVE  Active(ClassOf[t]) + Cardinality({u \in S : ClassOf[u] = ClassOf[t]})
           <= policy[ClassOf[t]].target - policy[ClassOf[t]].reserve
<1> DEFINE k == ClassOf[t]
           K == {u \in S : ClassOf[u] = k}
           p == policy[k]
<1>1. /\ t \in Tasks /\ k \in Classes /\ K \subseteq Present /\ S \subseteq Present
      /\ p \in Policies /\ p.target \in Int /\ p.reserve \in Int
  BY StoreAssumption DEF TypeOK, StoreTypeOK, Present, Pending
<1>2. /\ IsFiniteSet(K) /\ Cardinality(K) \in Nat
      /\ Active(k) \in Nat
  <2>1. K \subseteq Tasks /\ {u \in Tasks : ClassOf[u] = k /\ status[u] \in Occupying} \subseteq Tasks
    BY <1>1 DEF Present
  <2> QED
    BY <2>1, NamesAssumption, FS_Subset, FS_CardinalityType DEF Active
<1>3. PICK m \in K : \A u \in K \ {m} : Before(u, m)
  <2>1. K # {}
    OBVIOUS
  <2> QED
    BY <1>1, <2>1, LastOne
<1>4. m \in Tasks /\ ClassOf[m] = k /\ m \in S /\ m \in Pending
  BY <1>1, <1>3 DEF Present
<1>5. ~IsRecovery(m)
  <2>1. m = t \/ PriorityOf[m] <= PriorityOf[t]
    BY <1>1, <1>3, BeforeOrders DEF Present
  <2>2. PriorityOf[m] \in Int /\ PriorityOf[t] \in Int /\ Recovery \in Int
    <3>1. t \in Tasks
      BY <1>1
    <3> QED
      BY <1>4, <3>1, PriorityType
  <2> QED
    BY <2>1, <2>2 DEF IsRecovery
<1>6. {u \in {v \in S : Before(v, m)} : ClassOf[u] = k} = K \ {m}
  BY <1>1, <1>3, BeforeOrders
<1>7. Active(k) + Cardinality(K \ {m}) < p.target - p.reserve
  <2>1. Fits(m, S)
    BY <1>4 DEF Admits
  <2>2. Active(k) + Cardinality({u \in {v \in S : Before(v, m)} : ClassOf[u] = k}) < Capacity(m)
    BY <1>4, <2>1 DEF Fits
  <2>3. Capacity(m) = p.target - p.reserve
    BY <1>4, <1>5 DEF Capacity
  <2> QED
    BY <1>6, <2>2, <2>3
<1>8. Cardinality(K \ {m}) = Cardinality(K) - 1
  BY <1>2, <1>3, FS_RemoveElement
<1> HIDE DEF k, K, p
<1>9. Active(k) + Cardinality(K) <= p.target - p.reserve
  BY <1>1, <1>2, <1>7, <1>8
<1> QED
  BY <1>9 DEF k, K, p

\* Only reserve_submissions admits.
LEMMA OnlyReserveAdmits ==
  ASSUME IInv, [Next]_vars, NEW t \in Tasks, status[t] = "PENDING", status'[t] = "SUBMITTING"
  PROVE  \E c \in Controllers : ReserveBatch(c)
<1>0. status \in [Tasks -> TaskStatus \cup {"ABSENT"}]
  BY DEF IInv, TypeOK, StoreTypeOK
<1>1. ASSUME NEW u, NEW s, status' = [status EXCEPT ![u] = s], s # "SUBMITTING" PROVE FALSE
  BY <1>0, <1>1
<1>2. CASE UNCHANGED status
  BY <1>2
<1>3. ASSUME NEW c \in Controllers, ScanStep(c) PROVE FALSE
  <2>1. PICK r \in todo[c] : Adopt(c, r) \/ Reread(c, r) \/ Expire(c, r) \/ ObserveRow(c, r)
    BY <1>3 DEF ScanStep
  <2>2. \/ UNCHANGED status
        \/ \E s \in {"SUBMITTED", "PENDING", TaskStatusOf(seen[c][r.job])} :
             status' = [status EXCEPT ![r.task] = s]
    BY <2>1 DEF Adopt, Reread, Expire, ObserveRow, Bind, Reset, Observe, Die, NoStore, storeVars
  <2>3. TaskStatusOf(seen[c][r.job]) # "SUBMITTING"
    BY TaskStatusType
  <2> QED
    BY <1>1, <1>2, <2>2, <2>3
<1>4. ASSUME NEW c \in Controllers, NEW u \in Tasks,
             \/ BuildFails(c, u) \/ Launch(c, u) \/ LaunchReturns(c, u)
             \/ LaunchRefused(c, u) \/ LaunchLost(c, u)
      PROVE  FALSE
  <2>1. \/ UNCHANGED status
        \/ \E s \in {"PENDING", "SUBMITTED", "FAILED"} : status' = [status EXCEPT ![u] = s]
    BY <1>4 DEF BuildFails, Launch, LaunchReturns, LaunchRefused, LaunchLost, Fail, Bind,
                Reset, GiveUp, Die, storeVars
  <2> QED
    BY <1>1, <1>2, <2>1
<1>5. CASE \/ \E c \in Controllers : Lead(c) \/ LoseLead(c) \/ ListTasks(c) \/ ListJobs(c)
                                     \/ ListFails(c) \/ Start(c) \/ Crash(c)
           \/ UNCHANGED vars \/ Tick
           \/ \E k \in Classes, p \in Policies : ChangePolicy(k, p)
           \/ \E i \in JobId : AcceptJob(i) \/ RefuseJob(i)
           \/ \E i \in JobId, s \in Listed : MoveJob(i, s)
  BY <1>2, <1>5 DEF vars, storeVars, Lead, LoseLead, ListTasks, ListJobs, ListFails, Start,
                    Crash, NoStore, Tick, StoreTick, ChangePolicy, SetPolicy, AcceptJob,
                    RefuseJob, MoveJob
<1>6. ASSUME NEW u \in Tasks, SubmitTask(u) PROVE FALSE
  BY <1>1, <1>6 DEF SubmitTask, Submit
<1> QED
  BY <1>3, <1>4, <1>5, <1>6 DEF Next, Run

\* The live jobs of a class and its admitted tasks without one are at most its rows that
\* occupy a slot: every job has a task of its own.
LEMMA LoadIsCounted ==
  ASSUME IInv, TimelyInv, CountsJobs
  PROVE  \A k \in Classes : Load(k) \in Int /\ Load(k) <= Active(k)
<1> SUFFICES ASSUME NEW k \in Classes PROVE Load(k) \in Int /\ Load(k) <= Active(k)
  OBVIOUS
<1> DEFINE A == {j \in JobId : Live(j) /\ ClassOf[jobs[j].name] = k}
           B == {t \in Tasks : /\ ClassOf[t] = k /\ status[t] = "SUBMITTING"
                               /\ \A j \in JobId : jobs[j].name = t => ~Live(j)}
           N == {t \in Tasks : /\ ClassOf[t] = k /\ status[t] \in Occupying
                               /\ \E j \in JobId : jobs[j].name = t /\ Live(j)}
           O == {t \in Tasks : ClassOf[t] = k /\ status[t] \in Occupying}
           f == [j \in A |-> jobs[j].name]
<1>1. \A j \in A : jobs[j].name \in N
  BY DEF CountsJobs, LiveOccupies, Live, Running, IInv, TypeOK, JobsTypeOK
<1>2. \A i, j \in A : jobs[i].name = jobs[j].name => i = j
  BY <1>1 DEF TimelyInv, NoDuplicateJob, LiveOccupies, CountsJobs, Live, Running
<1>3. f \in Injection(A, N)
  BY <1>1, <1>2 DEF Injection, IsInjective
<1>4. /\ N \subseteq O /\ B \subseteq O /\ O \subseteq Tasks /\ N \cap B = {}
      /\ N \cup B \subseteq O
  BY DEF Occupying
<1>5. Load(k) = Cardinality(A) + Cardinality(B) /\ Active(k) = Cardinality(O)
  BY DEF Load, Active
<1> HIDE DEF A, B, N, O, f
<1>6. IsFiniteSet(O) /\ IsFiniteSet(N) /\ IsFiniteSet(B)
  <2>1. IsFiniteSet(O)
    BY <1>4, NamesAssumption, FS_Subset
  <2> QED
    BY <1>4, <2>1, FS_Subset
<1>7. IsFiniteSet(A) /\ Cardinality(A) <= Cardinality(N)
  BY <1>3, <1>6, FS_Injection
<1>8. Cardinality(N \cup B) = Cardinality(N) + Cardinality(B)
  <2>1. Cardinality(N \cap B) = 0
    BY <1>4, FS_EmptySet
  <2>2. Cardinality(N) \in Nat /\ Cardinality(B) \in Nat
    BY <1>6, FS_CardinalityType
  <2>3. Cardinality(N \cup B) = Cardinality(N) + Cardinality(B) - Cardinality(N \cap B)
    BY <1>6, FS_Union
  <2> QED
    BY <2>1, <2>2, <2>3
<1>9. Cardinality(N \cup B) <= Cardinality(O)
  BY <1>4, <1>6, FS_Subset
<1>10. /\ Cardinality(A) \in Nat /\ Cardinality(B) \in Nat /\ Cardinality(N) \in Nat
       /\ Cardinality(O) \in Nat
  BY <1>6, <1>7, FS_CardinalityType
<1> QED
  BY <1>5, <1>7, <1>8, <1>9, <1>10

\* An admitted batch keeps the reserve, counted in rows.
LEMMA AdmissionCounts ==
  ASSUME IInv, CountsJobs, [Next]_vars, NEW t \in Tasks,
         status[t] = "PENDING", status'[t] = "SUBMITTING", ~IsRecovery(t),
         policy[ClassOf[t]] # NoPolicy
  PROVE  Active(ClassOf[t])' <= policy[ClassOf[t]].target - policy[ClassOf[t]].reserve
<1>1. PICK c \in Controllers : ReserveBatch(c)
  BY OnlyReserveAdmits
<1>2. PICK S \in SUBSET Pending :
        /\ Admits(S)
        /\ status' = [u \in Tasks |-> IF u \in S THEN "SUBMITTING" ELSE status[u]]
  BY <1>1 DEF ReserveBatch, Reserve
<1>3. t \in S
  BY <1>2
<1> DEFINE k == ClassOf[t]
           K == {u \in S : ClassOf[u] = k}
           O == {u \in Tasks : ClassOf[u] = k /\ status[u] \in Occupying}
<1>4. Active(k) + Cardinality(K) <= policy[k].target - policy[k].reserve
  BY <1>2, <1>3, BatchFits DEF IInv, CountsJobs
<1>5. Active(k)' = Cardinality(O \cup K)
  <2>1. {u \in Tasks : ClassOf[u] = k /\ status'[u] \in Occupying} = O \cup K
    BY <1>2 DEF Pending, Occupying
  <2> QED
    BY <2>1 DEF Active
<1>6. /\ O \subseteq Tasks /\ K \subseteq Tasks /\ O \cap K = {}
      /\ Active(k) = Cardinality(O)
  BY DEF Pending, Occupying, Active
<1> HIDE DEF O, K
<1>7. IsFiniteSet(O) /\ IsFiniteSet(K)
  BY <1>6, NamesAssumption, FS_Subset
<1>8. Cardinality(O \cup K) = Cardinality(O) + Cardinality(K)
  <2>1. Cardinality(O \cap K) = 0
    BY <1>6, FS_EmptySet
  <2>2. Cardinality(O) \in Nat /\ Cardinality(K) \in Nat
    BY <1>7, FS_CardinalityType
  <2>3. Cardinality(O \cup K) = Cardinality(O) + Cardinality(K) - Cardinality(O \cap K)
    BY <1>7, FS_Union
  <2> QED
    BY <2>1, <2>2, <2>3
<1> QED
  BY <1>4, <1>5, <1>6, <1>8

\* Whenever an ordinary task is admitted, what runs for its class leaves the recovery
\* reserve of the pool idle, although reserve_submissions never looks at a job.
THEOREM ReserveIsKept ==
  ASSUME Timely PROVE Spec => AdmissionKeepsReserve
<1> DEFINE Counted == \A k \in Classes : Load(k) \in Int /\ Load(k) <= Active(k)
           Kept == \A t \in Tasks :
                     LET p == policy[ClassOf[t]] IN
                     (/\ status[t] = "PENDING" /\ status'[t] = "SUBMITTING"
                      /\ ~IsRecovery(t) /\ p # NoPolicy)
                       => Load(ClassOf[t])' <= p.target - p.reserve
<1>1. IInv /\ TimelyInv /\ CountsJobs => Counted
  BY LoadIsCounted
<1>2. IInv /\ CountsJobs /\ IInv' /\ Counted' /\ [Next]_vars => [Kept]_vars
  <2> SUFFICES ASSUME IInv, CountsJobs, IInv', Counted', [Next]_vars,
                      NEW t \in Tasks, status[t] = "PENDING", status'[t] = "SUBMITTING",
                      ~IsRecovery(t), policy[ClassOf[t]] # NoPolicy
               PROVE  Load(ClassOf[t])' <= policy[ClassOf[t]].target - policy[ClassOf[t]].reserve
    OBVIOUS
  <2>1. Active(ClassOf[t])' <= policy[ClassOf[t]].target - policy[ClassOf[t]].reserve
    BY AdmissionCounts
  <2>2. ClassOf[t] \in Classes /\ policy[ClassOf[t]] \in Policies
    BY StoreAssumption DEF IInv, TypeOK, StoreTypeOK
  <2>3. Load(ClassOf[t])' \in Int /\ Load(ClassOf[t])' <= Active(ClassOf[t])'
    BY <2>2
  <2>4. Active(ClassOf[t])' \in Int
    <3>1. {u \in Tasks : ClassOf[u] = ClassOf[t] /\ status'[u] \in Occupying} \subseteq Tasks
      OBVIOUS
    <3>2. Cardinality({u \in Tasks : ClassOf[u] = ClassOf[t] /\ status'[u] \in Occupying}) \in Nat
      BY <3>1, NamesAssumption, FS_Subset, FS_CardinalityType
    <3> QED
      BY <3>2 DEF Active
  <2>5. policy[ClassOf[t]].target - policy[ClassOf[t]].reserve \in Int
    BY <2>2, StoreAssumption
  <2> QED
    BY <2>1, <2>3, <2>4, <2>5
<1> QED
  BY <1>1, <1>2, ReconcileInvariant, TimelyInvariant, RowsCountJobs, PTL
  DEF Spec, AdmissionKeepsReserve
-----------------------------------------------------------------------------
(* What reserve_submissions admits is determined by the tables.            *)

\* What a task is judged by is who was admitted before it.
LEMMA FitsByEarlier ==
  ASSUME NEW t, NEW S, NEW T, {u \in S : Before(u, t)} = {u \in T : Before(u, t)}
  PROVE  Fits(t, S) <=> Fits(t, T)
BY DEF Fits

\* No two batches: consider the first task that is in one of them only.
LEMMA AtMostOneBatch ==
  ASSUME TypeOK, CreatedInOrder,
         NEW S \in SUBSET Pending, NEW T \in SUBSET Pending, Admits(S), Admits(T)
  PROVE  S = T
<1> DEFINE D == (S \ T) \cup (T \ S)
<1>1. S \subseteq Present /\ T \subseteq Present
  BY DEF Pending, Present
<1> SUFFICES ASSUME D # {} PROVE FALSE
  OBVIOUS
<1>2. PICK m \in D : \A u \in D \ {m} : Before(m, u)
  BY <1>1, FirstOne
<1>3. ASSUME NEW u \in S \cup T, Before(u, m) PROVE u \in S /\ u \in T
  <2>1. u \in Present /\ m \in Present
    BY <1>1
  <2>2. ~Before(m, m) /\ ~(Before(u, m) /\ Before(m, u))
    BY <2>1, BeforeOrders
  <2> QED
    BY <1>2, <1>3, <2>2
<1>4. {u \in S : Before(u, m)} = {u \in T : Before(u, m)}
  BY <1>3
<1>5. Fits(m, S) <=> Fits(m, T)
  BY <1>4, FitsByEarlier
<1> QED
  BY <1>2, <1>5 DEF Admits

\* S is what the loop has admitted once it has gone through the rows W, the first ones.
Walked(W, S) ==
    /\ W \subseteq Pending /\ S \subseteq W
    /\ \A t \in W, u \in Pending : Before(u, t) => u \in W
    /\ \A t \in W : t \in S <=> Fits(t, S)

\* There is a batch: the loop goes on to the next row, whatever it has admitted so far.
LEMMA LoopGoesOn ==
  ASSUME TypeOK, CreatedInOrder, NEW W, NEW S, Walked(W, S), W # Pending
  PROVE  \E t \in Pending \ W, T \in SUBSET Pending : Walked(W \cup {t}, T)
<1>0. W \subseteq Pending /\ S \subseteq W /\ Pending \subseteq Present
  BY DEF Walked, Pending, Present
<1>1. PICK t \in Pending \ W : \A u \in (Pending \ W) \ {t} : Before(t, u)
  <2>1. Pending \ W # {} /\ Pending \ W \subseteq Present
    BY <1>0
  <2> QED
    BY <2>1, FirstOne
<1> DEFINE T == IF Fits(t, S) THEN S \cup {t} ELSE S
<1>2. \A u \in Pending : Before(u, t) => u \in W
  BY <1>0, <1>1, BeforeOrders
<1>3. \A u \in W \cup {t} : ~Before(t, u)
  BY <1>0, <1>1, BeforeOrders DEF Walked
<1>4. \A u \in W \cup {t} : Fits(u, T) <=> Fits(u, S)
  <2> SUFFICES ASSUME NEW u \in W \cup {t} PROVE Fits(u, T) <=> Fits(u, S)
    OBVIOUS
  <2>1. {v \in T : Before(v, u)} = {v \in S : Before(v, u)}
    BY <1>3
  <2> HIDE DEF T
  <2> QED
    BY <2>1, FitsByEarlier
<1>5. \A u \in W \cup {t} : u \in T <=> Fits(u, T)
  <2>1. \A u \in W : u \in T <=> u \in S
    BY <1>1
  <2>2. t \in T <=> Fits(t, S)
    BY <1>0, <1>1
  <2> HIDE DEF T
  <2> QED
    BY <1>4, <2>1, <2>2 DEF Walked
<1>6. T \subseteq W \cup {t}
  BY <1>0
<1>7. \A v \in W \cup {t}, u \in Pending : Before(u, v) => u \in W \cup {t}
  BY <1>2 DEF Walked
<1> HIDE DEF T
<1>8. Walked(W \cup {t}, T) /\ T \in SUBSET Pending
  BY <1>0, <1>1, <1>5, <1>6, <1>7 DEF Walked
<1> QED
  BY <1>1, <1>8

\* The greedy loop gets through: of the sets of rows it has walked, a largest one is all
\* pending rows, for else it would go on.
LEMMA SomeBatch ==
  ASSUME TypeOK, CreatedInOrder
  PROVE  \E S \in SUBSET Pending : Admits(S)
<1> DEFINE Rest == {Pending \ W : W \in {V \in SUBSET Pending : \E S \in SUBSET Pending : Walked(V, S)}}
<1>1. IsFiniteSet(Pending)
  BY NamesAssumption, FS_Subset DEF Pending
<1>2. Rest \subseteq FiniteSubsetsOf(Pending)
  BY <1>1, FS_Subset DEF FiniteSubsetsOf
<1>3. Rest # {}
  <2>1. Walked({}, {})
    BY DEF Walked
  <2> QED
    BY <2>1
<1>4. PICK L \in Rest : \A M \in Rest : <<M, L>> \notin StrictSubsetOrdering(Pending)
  <2> HIDE DEF Rest
  <2> QED
    BY <1>1, <1>2, <1>3, FS_StrictSubsetOrderingWellFounded, WFMin
<1>5. PICK W \in SUBSET Pending, S \in SUBSET Pending : Walked(W, S) /\ L = Pending \ W
  BY <1>4
<1>6. W = Pending
  <2> SUFFICES ASSUME W # Pending PROVE FALSE
    OBVIOUS
  <2>1. PICK t \in Pending \ W, T \in SUBSET Pending : Walked(W \cup {t}, T)
    BY <1>5, LoopGoesOn
  <2>2. Pending \ (W \cup {t}) \in Rest
    BY <2>1
  <2>3. <<Pending \ (W \cup {t}), L>> \in StrictSubsetOrdering(Pending)
    BY <1>5, <2>1 DEF StrictSubsetOrdering
  <2> QED
    BY <1>4, <2>2, <2>3
<1> QED
  BY <1>5, <1>6 DEF Walked, Admits

\* reserve_submissions always admits exactly one batch, whoever leads and however the
\* policies have changed: a pass never gets stuck at admission, and which tasks it admits
\* is a matter of the tables alone.
THEOREM AdmissionIsDetermined ==
  Spec => []\E S \in SUBSET Pending :
              Admits(S) /\ \A T \in SUBSET Pending : Admits(T) => T = S
<1>1. TypeOK /\ CreatedInOrder =>
        \E S \in SUBSET Pending : Admits(S) /\ \A T \in SUBSET Pending : Admits(T) => T = S
  BY SomeBatch, AtMostOneBatch
<1>2. IInv => TypeOK
  BY DEF IInv
<1> QED
  BY <1>1, <1>2, RowsInOrder, ReconcileInvariant, PTL
=============================================================================

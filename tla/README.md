# TPUSwarm: a TLA+ verification project

TPUSwarm (`src/src/tpuswarm/`) is an application-level scheduler over SkyPilot
Managed Jobs. It keeps logical tasks in one SQLite database, admits them
against the worker count of a pool, launches them as managed jobs, and follows
those jobs through SkyPilot's queue. This directory models the parts of it whose
correctness depends on interleavings, crashes and time, checks them with TLC and
proves the most important facts with TLAPS. `PROJECT.json` holds the lists a
tool wants: which lines each definition models, which run checks which
property, and for every property a mutation of the model that breaks it.

Paths such as `controller.py:105` are files of `src/src/tpuswarm/`.

## 1. The system

| Component | State | Operations |
|---|---|---|
| Controller lease (`store.py` 1045-1101) | row of `controller_leadership`: holder, fence token, expiry; `self.lease` of each process | `acquire_leadership`, `renew_leadership` |
| Task table and admission (`store.py` 258-628) | `tasks`: status, job id, `submission_started_at`, `created_at`; `resource_policies` | `submit_task`, `reserve_submissions`, `bind_job`, `reset_submission`, `fail_task`, `observe_job`, `set_resource_policy` |
| Reconciliation (`controller.py`) | local variables of `reconcile_once`: `now`, the listing, the rows, the batch | one pass every `reconcile_seconds` |
| SkyPilot adapter (`backend.py`) | none of its own; SkyPilot's job table is external | `launch`, `list_jobs` |
| Idempotent submission (`store.py` 258-324) | the unique columns `task_id` and `idempotency_key` | `_insert_task` behind `POST /v1/tasks` |
| Checkpoints and barriers (`store.py` 630-686, 931-1043) | checkpoint columns, `workflow_commits` | `record_checkpoint`, `commit_barrier`, `latest_barrier` |
| Workflow engine (`handlers.py`, `store.py` 688-929) | `workflows`: state, event cursor, status; components; event log | `submit`, `reconcile`, `_append_event`, `replace_component`, `save_workflow_state`, `complete_workflow`, `fail_workflow` |
| Built-in handlers (`builtin.py`) | folded workflow state | `initial_state`, `reduce`, `desired_components`, `completion_result`, `failure_reason` |
| HTTP API and client (`api.py`, `client.py`, `serialization.py`) | none | routes to the operations above |
| Process (`__main__.py`, `api.py` 82-92) | the task that runs `run_forever` | serve, one-shot `reconcile`, shutdown |

**How they interact.** Every process of the program (an API server with its
controller task, a standby, a one-shot `tpuswarm reconcile`) opens the same
database. All writes go through `SwarmStore._transaction`, a `BEGIN IMMEDIATE`
transaction, so a store operation is atomic, but `reconcile_once` is a
sequence of some thirty of them with awaits of SkyPilot in between. During an
await the API handlers of the same process run, and other processes run all
the time. The only protection between two controllers is the lease, and it is
looked at once, at the head of a pass.

**What is hard here.**

- Two clocks decide everything: the lease (30 s) and the submission grace window
  (120 s). Both are compared with a time read once at the head of a pass, and no
  pass has a limit on its length.
- A launch is a request, an unknown wait, and a record of its job id. A crash,
  an error or a lost answer can come between any two of them; adoption by job
  name and the grace window have to make up for it.
- The listing is old when it is used, and `observe_job` overwrites whatever the
  row says by then.
- Admission counts rows of the database. It is right about the pool only as
  long as rows and jobs agree.
- `bind_job` and `reset_submission` raise when the row is not as expected,
  and nothing above them catches it: `run_forever` ends while the API goes on.
- Submissions are repeated, by clients that lost an answer and by several sessions.
- Reconciling a workflow is two reads of its rows, one of its events, a transaction per
  replaced component, one for state and cursor and one for the end, with nothing that
  holds them together: barriers are committed and sessions submit in between, an
  exception or a crash ends the pass anywhere, and a second leader may do the same at once.

**What makes each part correct.** Lease: never two running leases, never one
token twice, the row passes on only at its expiry. Tasks and reconciliation:
never two jobs for one task, a row names its own job, an ended task stays ended, no
pass dies, every submitted task ends. Admission: the jobs really on the pool
leave the recovery reserve alone. Submission: one request, one task. Checkpoints
and barriers: a reference never goes back, a barrier is one cut for ever, through
checkpoints reported for that barrier by different tasks, announced once. Workflow: the
state is the fold of the events up to the cursor, the events tell the truth about the
tasks, components are what the handler asked for and only get newer, an end is decided on
what is true then and is final, and a workflow whose tasks end, ends.

## 2. The modules

| Module | What it is |
|---|---|
| `LeaseTimer` | Abstract lease: holder, seconds left, who believes to hold it. No clock, no token, no stale times. |
| `Leadership` | The lease as coded: wall clock, row, lease objects, and the time each pass read before its transactions. Refines `LeaseTimer`. |
| `LeadershipProofs` | Its inductive invariant, exclusion, unique tokens and the refinement, proved. |
| `SwarmNames` | Constants that tasks and SkyPilot share: tasks and job ids. |
| `TaskStore` | One operator per transaction on `tasks` and `resource_policies`. |
| `ManagedJobs` | SkyPilot, as seen by `backend.py` (external). |
| `SwarmController` | `reconcile_once`, composed with `TaskStore`, `ManagedJobs` and `LeaseTimer`; processes, API calls, time. All properties of reconciliation. |
| `SwarmProofs` | Type correctness of `SwarmController`, and what a row may say of its job, proved with an inductive invariant. |
| `SwarmTimelyProofs` | What holds of `SwarmController` under the timing assumptions: no duplicate job, no pass that raises, the refinement of `TaskLife`, and ends that stay. |
| `SwarmAdmissionProofs` | Without assumptions: admission always picks exactly one batch. Under the timing assumptions: it keeps the recovery reserve, counted in jobs. |
| `Submission`, `SubmissionProofs` | Repeated submissions and the proof that they are idempotent. |
| `RestorePoints` | Abstract checkpoints and barriers: published once, chosen once, consistent. |
| `Barrier`, `BarrierProofs` | Checkpoint reports, replaced components and barrier commits as coded. Refines `RestorePoints`; invariant, refinement and what it brings are proved. |
| `TaskLife` | Abstract life of a task: what its status may become. `SwarmController` refines it; `Workflow` is built on it and, with one leader, refines it too. |
| `Workflow` | One workflow of any handler: submission, the event log, `reconcile` step by step, the ends. |
| `StaticMulti`, `StaticWorkflow` | The built-in handler, and `Workflow` led by it. |
| `WorkflowProofs` | What holds of `Workflow` with any number of leaders, and with one: what is true of an end, and the refinement of `TaskLife`. |
| `StaticWorkflowProofs` | What the built-in handler sees and what its verdicts are worth, and that it meets the assumptions of all these theorems. |
| `MC*` | Instances for TLC. |

### Leadership

`clock` is what every `time.time()` reads; the processes of the program share
one database file, hence one machine and one clock. `ReadClock` is
`controller.py:69`; then `Acquire`/`Refused` and `Renew`/`Lost` are the two
transactions, which use that reading however late they get the database lock. A
process that lost its lease keeps nothing, and `Crash` restarts it under the same
id (a restart under a new id is a process that was idle so far).

`row.token = 0` stands for the missing row. The refinement maps
`expires - clock`, cut off at -1, to `leaseLeft`, and "has a lease object" to
`mine`.

### TaskStore and ManagedJobs

Statuses, the job id and the order of creation are the columns. `Submit` puts the new row
anywhere in that order: `submit_task` reads `created_at` before its transaction waits for
the database lock, so a row may come before rows that were there first.
`submission_started_at` is kept as `age`, the seconds since it, so that no
absolute time is in the state; it is reset where the code sets NULL and
starts at the age of the pass in `Reserve`, because `reserve_submissions` gets the
`now` of the head of the pass. `Reserve` admits the set that the greedy loop
admits: `Fits` says that the loop reaches a task with room, given what it admitted
before.

The executor's statuses are grouped by what `_task_status` does with them.
`Recovery` is the class threshold of `Priority.ORDINARY_RECOVERY`. A job is
`REQUESTED` from the call of `jobs.launch` until SkyPilot has written it to its
database (at most `MaxDelay` seconds), after which every listing shows it, finished
or not (`skip_finished` is False).

### SwarmController

A step is one transaction, one await, or one read of the store. `Lead` joins
`acquire_leadership` and `renew_leadership` of the head of a pass in one step
with a fresh time: what happens when they run late is the subject of
`Leadership`, which implements `LeaseTimer`. The lease steps of `SwarmController` are
those of `LeaseTimer` by definition, so nothing is proved about their use. `passAge` is the time since the
pass read its clock. `ListJobs` stores the listing; `ListTasks` reads all rows at once
and decides, from those rows and the listing, what the loop will do with each
(`Duty`); the loop then does it, row by row, in the order of creation
(`Adopt`, `Reread`, `Expire`, `ObserveRow`), without looking again except where
the code does (`get_task` after an adoption). `ReserveBatch`, `Launch` and its
three outcomes, and `BuildFails` are the second half. `Die` is an exception that
nothing catches: the process is up but no longer reconciles (`pc = "dead"`).

The tasks are standalone ones. For them `_append_event` returns at once and
there is no ACTIVE workflow, so the workflow phase of the pass changes nothing.
Checkpoint columns are not read by any of these operations.

### Submission

A request is a pair of an optional task id and an optional key. `Insert` and
`Repeat` are the two outcomes of `_insert_task`: `Repeat` answers with the row
found by key, or else by id. Fresh ids from `uuid4` are never ids clients choose.

### Barrier

One workflow, with the tasks of its components and others. The tables are the
variables: `checkpoints`, the two columns `checkpoint_sequence` and
`checkpoint_uri` of a task (`ref`), `workflow_components`, `workflow_commits` and the
BarrierCommitted events of `workflow_events`; `told` is what callers have been
answered. Each route or store operation is one transaction, hence one action;
the transaction that raises is rolled back and is no step. So a commit that is
repeated after a component has moved on or was replaced is refused by the code,
although the barrier is committed, and the model has no step for it:
`AnswersAgree` is about the answers that are given.

`ReplaceComponent` takes any task: one without a row is inserted, one with a row is
what `_insert_task` finds under a taken id, and the UNIQUE column
`workflow_components.task_id` refuses a task that is another key's. Sequence numbers
are not tied to generations: a new task counts as it likes. A commit with no required
component succeeds at once (`Ready` is vacuous), as in the code. Metadata is kept with
the URI in both tables; of a repeated report only the first metadata is kept, like
the URI, and the model leaves it out.

### TaskLife and Workflow

`TaskLife` is what `SwarmController` promises of a status when passes are shorter than
the lease (`ImplementsTaskLife`, checked by `swarm_standby` and proved): waiting, admitted, bound,
observed, each step in the order of the code, and nothing after an end. `Workflow` uses
its actions for everything that the rest of the pass does to the tasks, instead of jobs,
listings and times. With one leader the pass changes tasks before and after
the workflow phase, never in it (`MayChangeTasks`). With `Overlap` two passes reconcile
at once and old listings write any observed status over any other, as `swarm_overlap` allows.

The handler is a parameter: `Desired`, `Completes` and `Fails` are its
`desired_components`, `completion_result` and `failure_reason`. Its state is a function
of the events reduced (`reduce` is called with nothing else), so the sequence of those
stands for the state, and an event skipped, reduced twice or out of order is visible in
it. The position in the log stands for `event_id`; events of other workflows only leave gaps in
the ids. `Rows` is what `get_workflow_components` shows of each component: the status and the
generation column of its task. `owner` holds the columns `component_key` and `generation` of
the task's row, NULL for a task of a session.

The steps of `reconcile` are `ReadWorkflow`, `ReadEvents`, `ReadComponents`,
`Replace` for each desired component that looks newer (in any order: the handler's
sequence is a set here), `SaveState`, `Decide`, which reads the components again, and
`Finish`. `ReplaceFails` is the IntegrityError of `workflow_components.task_id`, and
`CutShort` every other exception and the death of the process: both leave nothing
behind but what was written. An API call may commit a barrier or submit a task between
any two steps. When a component may commit a barrier is the subject of `Barrier`; here it may at any time,
once per barrier.

`SubmitWorkflow` and `Insert` enter rows for tasks that have none (`_insert_task` leaves a row
that it finds by id alone); `TasksLivePlainly` says that with one leader the tasks of workflows
thereby keep the life of `TaskLife`, so that the two modules that use it mean the same by it.

`StaticMulti` is `StaticMultiAutoResumable` with its real state, the last event per key and the
last barrier; `ViewIsCurrent` compares that view with the tasks, `GenerationsInTurn` is what a
view with one entry per key rests on, and `VerdictStands` compares the verdict with the tasks
after the end. `StaticWorkflow` joins it to
`Workflow`; `MCRestarting` of `MCWorkflow` is a handler derived from it that overrides
`desired_components` to restart a failed root, and is the static handler itself as long as
the root does not fail. Left out: results, reasons of
failure, metadata, `consistency_mode` (stored, never read) and `required`, which only
`commit_barrier` reads.

A task of `Workflow` stands for the row that a `TaskSpec` names: by its idempotency key when it
has one, else by its id. `_insert_task` finds a row both ways, and two specs with different ids
and one key are one task here, so `replace_component` with a taken key is `Insert` (or
`ReplaceFails`) of a task that is there. That a spec always names the same row is not part of
`Workflow`: it is `KeyNamesTask` and `Idempotent` of `Submission`, for clients that use one
key per id. What happens otherwise is finding 4, and `Workflow` says nothing of it.

## 3. The runs

| Run | Question | Result |
|---|---|---|
| `leadership` | Do leases exclude each other, although every decision uses an old time? Is a token ever used twice? Does the protocol implement the plain lease? | holds |
| `swarm_standby` | Leader and standby, one crash and restart, outages, refused launches: duplicate jobs, wrong job in a row, a status skipped or taken back, pool overbooked, pass ending in an exception? | none happens |
| `swarm_overlap` | What survives when passes outlast the lease, so that two controllers lead at once, answers get lost, and the grace window is too short? | `IInv` and with it `SucceededIsTrue`, `UnlaunchedHasNoJob`, `BoundToOwnJob` |
| `swarm_restart` | After a crash anywhere, with one worker for two tasks or no policy at all, does every task still end, the waiting one included? | holds |
| `barrier` | Reports late, twice and out of order, components replaced, commits repeated: can a reference go back, a barrier change, mix tasks or be announced twice, the latest barrier go back? | no |
| `submission` | Is a repeated request always answered with the same task? | holds if no id is used with two keys |
| `workflow_handler` | One leader, the built-in handler with a root that is restarted, a barrier and a foreign task coming in, passes cut short: is a workflow ended on something untrue, with something missing, too early, twice? Is a task started twice? Do generations overlap? Does the handler see each task's status, and does its verdict stay true? Does the workflow end? | no; no; no; yes; yes; yes, unless a task is cancelled |
| `workflow_overlap` | Two leaders reconcile at once, statuses go back and forth, two components share task ids: is an event lost, reduced twice or untrue, is a component started that nothing asked for, does an older one come back? | no |
| `swarm_long_pass` | Does the grace window prevent a duplicate job when a pass takes as long as the window? | violated |
| `swarm_lost_reply` | Is every listed job adopted by its name? | violated |
| `swarm_cancelling` | Does the reserved worker stay ready while a job is being cancelled? | violated |
| `submission_two_keys` | Idempotence when one id is used with two keys | violated |

The four violated runs are disagreements between the code and its documentation;
section 6 describes them.

**Bounds, and why they are enough.**

- `leadership`: three controllers (two compete, a third takes over from
  either), a lease of 2 s, a clock up to 6 s (three lease lengths: take, expire,
  take over, expire again) and four tokens. The proof removes all four bounds.
- `swarm_standby`: one ordinary and one recovery task on a pool of two workers with one
  in reserve: the smallest pool in which the reserve decides. Three job ids: one more than
  tasks, so that a duplicate has an id to take. Lease 2, grace 3, `MaxPass`
  1, `MaxDelay` 1: the assumptions under which the code is meant to run,
  `MaxPass < LeaseSeconds` and `MaxPass + MaxDelay < Grace`, hold with the least
  slack. *The code enforces neither*; `swarm_overlap` and `swarm_long_pass` drop the first
  and the second.
- `swarm_overlap`: one task, two processes, one crash; lease, grace, pass and delay
  are all 1 s, so that the lease runs out in a pass and the window before a
  request is taken up.
- `swarm_restart`: liveness on one process with one crash; no time passes in a
  pass. The class is unlimited, with a batch of both tasks that a crash may cut anywhere,
  until a policy may make it the tightest pool, one worker, in which one task waits for
  the other.
- `barrier`: two keys (one waits for the other, or takes its task), three tasks (both
  keys linked and one free to replace with), two generations, two sequence numbers
  (before and after), two URIs, a controller URI or none. Starts from every set of
  first components. The proofs remove all bounds.
- `workflow_handler`: a root with two generations, so that a failure is followed by a
  replacement, and a second component; a session may submit the task of the second
  generation and that of the second component before, during or after the workflow's submission, so that
  `_insert_task` meets a taken id in both of its callers; one barrier, at any time; two passes cut
  short: one leaves new components under the old state, the next the new state
  without its end.
- `workflow_overlap`: two leaders, three generations and three tasks that both
  components use, so that a generation can be overtaken and a taken task id met; three events of
  tasks (`MaxEvents`: there and back again), one barrier, one pass cut short.
- The proofs remove the bounds of both, except `MaxEvents` and `MaxFailures`,
  which are any numbers there; in particular they hold for any number of barriers.
  `WorkflowEnds` rests on the run.
- One leader: `EndIsFinal`, `EndIsTrue`, `EndKnowsTasks` and `VerdictStands` are about one
  leader at a time, and say nothing of two. With two, `EndIsFinal` does not hold: the
  second leader, which read the workflow while it was ACTIVE, saves its state and cursor over
  those of the end (`save_workflow_state` does not look at the status).
- `MaxAge` cuts ages off where no comparison tells them apart any more;
  `MaxCrashes` bounds crashes. `NoDuplicateJob` is a property of histories in
  which job ids do not run out, which is why `Launch` is disabled without a free id;
  the liveness runs have an id for every task, and a refused request gives its id back.
- Symmetry is used only on interchangeable identities (controllers, keys, tasks, URIs), and
  only in runs without liveness properties.

`CHECK_DEADLOCK FALSE` is set where the system may stop: with all
tasks ended or all processes dead, and with no job ids left, nothing has to happen.

**Fairness** (`FairSpec`), and why the code justifies it. Steps a process takes on its own
are weakly fair (`Run`, `LaunchReturns`): the event loop runs them. `Start`
is weakly fair: the program is meant to be restarted by a supervisor (README,
"Controller recovery"). Time passes (`SF Tick`): `run_forever` waits
`reconcile_seconds` between passes, so passes cannot crowd out the clock. SkyPilot,
asked again and again, lists sometimes and accepts each task's launch sometimes
(`SF ListJobs`, `SF AcceptJob` per task), moves its jobs on, and does not let a job
that can succeed recover for ever (`SF MoveJob(j, "SUCCEEDED")`). Nothing is
assumed of crashes, submissions, policies, failures or refusals. A launch that is refused
*every* time does block the tasks behind it, since the loop ends at the first
refusal; no property claims otherwise.


`Workflow`'s fairness (`workflow_handler`): the leader's pass goes on (`WF Reconcile`: every
pass of `run_forever` reconciles each ACTIVE workflow), and no task is on its way for
ever. The latter is what `EveryTaskFinishes` says of `SwarmController`, where
`swarm_restart` checks it from the fairness above: the component that runs the tasks guarantees what
the one that waits for them assumes. No finite behaviour of `Workflow` contradicts
it, since between two passes each task can be admitted, bound and ended. Nothing is assumed of barriers, submissions or cut passes, which are
bounded. A component whose task was CANCELLED is excepted: the static handler neither completes nor
fails then, and the workflow stays ACTIVE.

## 4. The proofs

- **`LeadershipProofs`**: `Spec => []IInv`, and from it `LeaseExclusive`,
  `FenceUnique` and the refinement `ImplementsLease`, for every set of controllers,
  lease length, clock and token bound. Exclusion alone is not inductive: an old
  lease object may have any expiry. `IInv` adds that the time a pass read is never in
  the future, and `RowAgrees`: a lease object either agrees with the row, or the row
  has passed to another controller under a newer token and the old lease has run
  out. A takeover keeps it because it needs an expiry at or before the time read,
  which is at or before the clock. For the refinement `AsksAsHeld` says which
  transaction a process is about to run. A crash and a lost renewal both map to
  `DropLease`: the plain lease does not say why a lease object is dropped.
- **`SwarmProofs`**: `Spec => []TypeOK`, `Spec => []IInv`, and from it
  `UnlaunchedHasNoJob`, `BoundToOwnJob` and `SucceededIsTrue`, for every set of
  tasks, job ids and controllers and every value of the times, including those under
  which two leaders overlap and answers get lost. None of the three is inductive (the first
  nearly is), because what a row is told comes from local variables that may be old:
  the listing (`SeenIsListed`), the rows of a scan still to be handled
  (`RowsNameOwnJob`) and the awaited launch (`CallIsOwn`, `BatchPresent`). The argument
  is that a listed job stays listed under its name and success is final, so old
  knowledge of it stays true enough; steps are summarised by what they keep
  (`JobsKept`, `PassesKept`, `CallsKept`, `PresentKept`) and each action is then an
  application of three lemmas. That a batch has one task at hand (`OneAtHand`) rests on
  the order of admission being strict. `swarm_overlap` checks `IInv` on an instance.
- **`SwarmTimelyProofs`**: from `Timely`, that is `MaxPass < LeaseSeconds`,
  `MaxPass + MaxDelay < Grace` and no lost answers, `Spec => []TimelyInv`, and from it
  `NoDuplicateJob`, `ControllerSurvives` and the refinement `ImplementsTaskLife`, for every
  set of tasks, jobs and controllers, every such lengths, and crashes, outages and
  refusals wherever they happen. `TimelyInv` adds to `IInv` that a pass is over before its
  lease (`LeadsAlone`), so that at most one process has anything in its local variables
  (lemma `Alone`), and then that what these say is still so: the rows of a scan
  (`RowsCurrent`) and the batch (`WaitingHasNoJob`). The heart is `WindowOpen`: a request
  that has waited w seconds belongs to a task whose age is at most `MaxPass + w`, and a
  pass that has listed too early to see a task's job finds the task's window still
  open by its own clock, so that no submission is reset while its job is on its way.
  `RunningSeen` is what keeps `observe_job`, which looks at no status, from taking RUNNING
  back; that no end is taken back either is `EndsOfTasksStay`, read off the refinement. `swarm_standby` checks `TimelyInv` with the least slack. The second assumption is
  needed: `swarm_long_pass`, where the lease outlasts the pass, finds the duplicate job
  without it. So is the third: the answer lost in `swarm_lost_reply` leaves a listed job whose
  task is launched again.
- **`SwarmAdmissionProofs`**: from `Timely` too, `AdmissionKeepsReserve`, for all tasks, classes,
  policies (also changing ones) and batch sizes. Two halves meet. `CountsJobs` says that a
  live job's task occupies a slot, so that the jobs inject into the rows that are counted
  (`LoadIsCounted`); its third part, that a listing which calls a job over is right, is
  what makes it inductive. And the greedy loop admits no class beyond its capacity
  (`BatchFits`): of the tasks that it admits to a class the last is no more important than
  any other, hence ordinary if one of them is, and had room after all the others. That
  there is a last one rests on the order of admission being strict, hence on `created`
  (`CreatedInOrder`), and on strict inclusion being well-founded on finite sets.
  `AdmissionIsDetermined` needs no assumption, two leaders included: in every reachable state
  exactly one set satisfies `Admits`, so that the model's description of the greedy loop by what
  it admits, instead of by its iterations, neither blocks a pass nor lets it choose.
  `RowsInOrder` is the strict order without the timing assumptions (rows are never deleted).
  Two batches would differ first at some task, before which they agree, and which fits both or
  neither (`AtMostOneBatch`); and a largest set of rows that the loop can have walked is all
  pending rows, since otherwise it walks one more (`LoopGoesOn`, `SomeBatch`): both in place
  of the induction along the loop.
- **`SubmissionProofs`**: `Spec => []IInv`, `Idempotent` and `KeyNamesTask`, from the
  assumption `OneKeyPerId`: no client uses one task id with two keys. The
  assumption is needed: `submission_two_keys` is the counterexample without it.
  `IInv` says that keys are unique, that a row with an id given by a client
  carries the key of the requests for that id, and that an answer is a row
  with the request's key.

- **`BarrierProofs`**: `Spec => []IInv`, from it `RefIsNewest`, `EventPerCommit`,
  `AnswersAgree` and `LatestNeverGoesBack`, and the refinement `ImplementsRestorePoints`, for all keys, tasks,
  numbers and URIs (assumed: numbers are integers, and NULL is none of the values).
  The invariant adds that no task belongs to two keys (`TasksApart`). The argument for
  the refinement: a report repeats or adds a published checkpoint; a first commit reads
  `ref`, which `RefIsNewest` ties to the table, so that the manifest is a cut through
  published checkpoints with the barrier's number, and `TasksApart` makes the
  sources distinct; everything else leaves both tables alone. `LatestNeverGoesBack` follows from
  two more facts: the committed barriers only grow, and they are finitely many at any
  time, so that there is a highest (`GreatestNumber`, from the well-foundedness of
  strict inclusion on finite sets, which stands in for the induction). `CommittedCutsStand` is what
  the abstract specification brings: its own invariant `CutsConsistent` and its action property
  `CutsStay`, proved of `RestorePoints` and carried over by the refinement: every committed
  barrier is at all later times the same cut, through checkpoints that are still published.

- **`WorkflowProofs`**: `Spec => []IInv`, and from it `StateIsReplay`,
  `LastEventIsStatus`, `OnlyDesired` and the action property `GenerationsRise`, for every handler, any
  number of leaders at once, and all keys, generations, tasks and barriers (assumed:
  generations are natural numbers, NULL is no row). `StateIsReplay` is inductive with the
  log's being append-only (`LogKept`). `LastEventIsStatus` needs `OwnersApart`: two tasks
  never belong to one generation of one key, so that an event is about one task; a replacement
  keeps that because its generation is newer than the component's, and no task's is newer
  than its component's. Steps are summarised again: a step of a pass
  (`PassStep`), of the tasks (`TaskStep`), the end of a pass (`LeaveStep`).
  With one leader (`Overlap = FALSE`) `Spec => []PassIsCurrent`, and from it `EndIsTrue`,
  `EndKnowsTasks` and `EndIsFinal`. `PassIsCurrent` says what each place of `reconcile` may rely
  on. These assume `TaskNamesKey`, that the handler never asks for one task id under two
  keys (`Leading` is both assumptions). It is needed for the component not replaced: `reconcile`
  compares with the generation in the *task's* row, which `OnlyDesired` and `TaskNamesKey` tie to
  the component's own (`TaskOfItsKey`). `WorkflowsKeepTaskLife` is the refinement of `TaskLife`,
  for every handler and from `Overlap = FALSE` alone: a taken id is never started again.
- **`StaticWorkflowProofs`**: with one leader, `GenerationsInTurn` and from it `ViewIsCurrent`, for every
  handler that keeps the contract `RestartsInTurn`: a task id names one generation of one key, and
  a later generation is asked for only once the one before has been seen to end
  (`MCRestarting`, and the built-in handler, which restarts nothing). The contract is needed
  because `replace_component` looks at no status: a handler that replaces a running component
  has two tasks writing events under one key, and the view shows whichever wrote last. `ViewIsCurrent`
  is about a fold, whose induction the provers cannot do. Instead `FoldIsSeen` says what the view
  of any events is, without recursion (`Seen`: the kind at the last position of each key): that function
  solves the fold's equation, and a solution that differed from it would differ first at
  a set of positions with none smaller, where one reduction (`SeenStep`) refutes it.
  `VerdictsStand` says that the verdict of an ended workflow is true of the rows for
  ever: `PassIsCurrent` gives it for the end, the ended tasks stay (`EndedRowsStay`), and no
  pass replaces a component any more. It assumes `Leading` and that verdicts are those of the built-in
  handler (`JudgesByRows`). `BuiltInHandler` discharges all of these for the
  built-in handler itself: with one leader, and nothing assumed of its components, all the
  safety properties above hold. If two of its components share a task, `submit_workflow` is refused
  by the UNIQUE column and the workflow is never there (`NeverSubmitted`); otherwise it keeps both
  contracts.

Liveness under fairness is out of the prover's reach: `EveryTaskFinishes` and `WorkflowEnds` are
only model-checked. Every safety property that a passing run checks is a theorem.

## 5. What is not modelled

- Several workflows at once: they share only `workflow_components.task_id`, whose refusal is
  `ReplaceFails`, and the list that the pass goes through.
- Results, reasons, metadata and `consistency_mode` of workflows: stored, and read by no
  operation that is modelled.
- Registration of handlers (once, at startup) and argument parsing.
- Authentication, JSON conversion, the read-only routes and the client: they keep
  no state.
- Validation of payloads and compilation of job definitions: a pure function of the
  task; its failure is `BuildFails`.
- `stop()` and orderly shutdown: the pass is cancelled at an await, which for the
  database and SkyPilot is the same as `Crash`.
- Exceptions that end `run_forever` other than the conflicts of `bind_job`,
  `reset_submission` and `observe_job`: `sqlite3.OperationalError` when the database is
  locked for more than 30 s, and what the SkyPilot adapter raises besides
  `BackendUnavailableError`. `ControllerSurvives` is about the conflicts only. To the store, to
  SkyPilot and to other processes such a death is a `Crash`, of a process that is not started
  again; `EveryTaskFinishes` does not hold after it.
- Job names are unique per task: `executor_name` truncates and appends a hash of
  the task id; collisions of the hash are left out.
- Jobs of other users in SkyPilot's queue, and the removal of finished jobs from it.

## 6. What the code does otherwise than documented

1. **Grace window** (`swarm_long_pass`, with a lease longer than the pass). `reserve_submissions` stamps
   `submission_started_at` with the time the pass began. A slow listing or the
   earlier launches of a batch of 32 use the window up; a crash after the next launch
   request is followed by an immediate reset and a second job. The README says
   the window avoids exactly this.
2. **Lost answers** (`swarm_lost_reply`). Any exception of the launch resets
   the task to PENDING, and only SUBMITTING tasks are matched by name. If SkyPilot has
   the request after all, the job is never adopted and a second one is launched.
3. **Cancelling jobs** (`swarm_cancelling`). `CANCELLING` already maps to the
   terminal `CANCELLED`: the task frees its slot while its job has its worker, and the
   recovery reserve is given to an ordinary task.
4. **One id, two keys** (`submission_two_keys`). A request with a known id and a
   new key is answered with the old row and its key is dropped. Once another
   task has taken that key, the same request is answered with the other task.

## 7. Plan

The most important behaviour came first: the lease, then tasks, admission and
reconciliation, then submission, checkpoints and barriers, and workflows. Every safety
property that the passing runs check is proved. What is left:

1. Several workflows at once, which share `workflow_components.task_id`.
2. The composition of `SwarmController` and `Workflow` in one module: each is proved to keep
   `TaskLife`, by which they meet, but no module has the jobs of a workflow's tasks.

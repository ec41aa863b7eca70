------------------------------- MODULE Barrier -------------------------------
(***************************************************************************)
(* Checkpoints of tasks and barriers of one workflow.  Running tasks       *)
(* report checkpoints (repeated, late and out of order), the workflow's    *)
(* handler replaces components, and its algorithm commits barriers, each   *)
(* in one transaction of the store.  A request that the store refuses      *)
(* (BarrierConflictError, TaskNotFoundError, IntegrityError) is rolled     *)
(* back: it is no step.  A checkpoint's metadata is written and read with  *)
(* its URI and left out.                                                   *)
(***************************************************************************)
EXTENDS Integers, Sequences, FiniteSetsExt

CONSTANTS
    Keys,             \* component keys
    Tasks,            \* task ids
    Generations,      \* component generations
    SequenceNumbers,  \* checkpoint sequence numbers, and barriers
    Uris,             \* checkpoint URIs
    ControllerUris,   \* controller_checkpoint_uri, None included
    Null              \* no row, or a column that is NULL

ASSUME BarrierAssumption ==
    /\ Generations \subseteq Int
    /\ SequenceNumbers \subseteq Int
    /\ Null \notin SequenceNumbers \cup Uris

VARIABLES
    rows,          \* the tasks that have a row
    component,     \* workflow_components: generation, task and required of each key
    checkpoints,   \* the table checkpoints: the URI of each task and sequence
    ref,           \* checkpoint_sequence and checkpoint_uri of each task row
    commits,       \* workflow_commits: controller URI and manifest of each barrier
    events,        \* the BarrierCommitted events, in order
    told           \* the answers that commit requests were given, per barrier

vars == <<rows, component, checkpoints, ref, commits, events, told>>

NoRef == [sequence |-> Null, uri |-> Null]

Refs == [sequence : SequenceNumbers, uri : Uris]

Components == [generation : Generations, task : Tasks, required : BOOLEAN]

Manifests == UNION {[cut -> Refs] : cut \in SUBSET Keys}

Commits == [controller : ControllerUris, manifest : Manifests]

ASSUME NullAssumption == Null \notin Components \cup Commits

Linked == {k \in Keys : component[k] # Null}
Required == {k \in Linked : component[k].required}
TaskOf(k) == component[k].task

Committed == {b \in SequenceNumbers : commits[b] # Null}

\* submit_workflow has inserted the first components, each with a new task.
Init ==
    /\ component \in [Keys -> Components \cup {Null}]
    /\ \A k, o \in Linked : TaskOf(k) = TaskOf(o) => k = o
    /\ rows = {TaskOf(k) : k \in Linked}
    /\ checkpoints = [t \in Tasks |-> [s \in SequenceNumbers |-> Null]]
    /\ ref = [t \in Tasks |-> NoRef]
    /\ commits = [b \in SequenceNumbers |-> Null]
    /\ events = <<>>
    /\ told = [b \in SequenceNumbers |-> {}]

\* A task that is nobody's component, or another workflow's.
SubmitTask(t) ==
    /\ t \notin rows
    /\ rows' = rows \cup {t}
    /\ UNCHANGED <<component, checkpoints, ref, commits, events, told>>

\* Mutant: workflow_components.task_id is not UNIQUE.
CanLinkAny(k, t) == TRUE

\* workflow_components.task_id is UNIQUE.
CanLink(k, t) == \A o \in Linked \ {k} : TaskOf(o) # t

\* replace_component with a newer generation.  Its task is inserted, or found when the
\* id is taken: then the component is linked to the row that is there.
ReplaceComponent(k, g, t, r) ==
    /\ k \in Linked => g > component[k].generation
    /\ CanLink(k, t)
    /\ rows' = rows \cup {t}
    /\ component' = [component EXCEPT
                       ![k] = [generation |-> g, task |-> t, required |-> r]]
    /\ UNCHANGED <<checkpoints, ref, commits, events, told>>

\* Mutant: every report moves the task's reference.
NewerAlways(t, s) == TRUE

Newer(t, s) == ref[t].sequence = Null \/ s > ref[t].sequence

\* record_checkpoint: a sequence keeps its URI, and the reference only moves forward.
RecordCheckpoint(t, s, u) ==
    /\ t \in rows
    /\ checkpoints[t][s] \in {Null, u}
    /\ checkpoints' = [checkpoints EXCEPT ![t][s] = u]
    /\ ref' = IF Newer(t, s)
              THEN [ref EXCEPT ![t] = [sequence |-> s, uri |-> u]]
              ELSE ref
    /\ UNCHANGED <<rows, component, commits, events, told>>

\* Mutant: a component that is past the barrier counts as having reached it.
ReadyAtLeast(b) ==
    \A k \in Required : ref[TaskOf(k)].sequence # Null /\ ref[TaskOf(k)].sequence >= b

\* No required component is missing at barrier b.
Ready(b) ==
    \A k \in Required : ref[TaskOf(k)].sequence = b /\ ref[TaskOf(k)].uri # Null

\* The BarrierCommit for the checkpoints the required components have now.
Answer(c) == [controller |-> c, manifest |-> [k \in Required |-> ref[TaskOf(k)]]]

\* Mutant: only the controller's checkpoint is compared with the stored commit.
AcceptsController(b, c) == commits[b] # Null => commits[b].controller = c

Accepts(b, c) == commits[b] # Null => commits[b] = Answer(c)

\* Mutant: the event is written outside "if existing is None".
KeepAndLog(b) == events' = Append(events, b) /\ UNCHANGED commits

\* The barrier is committed already.
KeepCommit(b) == UNCHANGED <<commits, events>>

\* commit_barrier
CommitBarrier(b, c) ==
    /\ Ready(b)
    /\ Accepts(b, c)
    /\ \/ /\ commits[b] = Null
          /\ commits' = [commits EXCEPT ![b] = Answer(c)]
          /\ events' = Append(events, b)
       \/ /\ commits[b] # Null
          /\ KeepCommit(b)
    /\ told' = [told EXCEPT ![b] = @ \cup {Answer(c)}]
    /\ UNCHANGED <<rows, component, checkpoints, ref>>

Next ==
    \/ \E t \in Tasks : SubmitTask(t)
    \/ \E k \in Keys, g \in Generations, t \in Tasks, r \in BOOLEAN :
         ReplaceComponent(k, g, t, r)
    \/ \E t \in Tasks, s \in SequenceNumbers, u \in Uris : RecordCheckpoint(t, s, u)
    \/ \E b \in SequenceNumbers, c \in ControllerUris : CommitBarrier(b, c)

Spec == Init /\ [][Next]_vars

\* Mutant: latest_barrier reads the commit that was stored last.
LatestStored == IF events = <<>> THEN Null ELSE events[Len(events)]

\* latest_barrier: the highest number, NULL when nothing is committed.
LatestBarrier == IF Committed = {} THEN Null ELSE Max(Committed)

-----------------------------------------------------------------------------
TypeOK ==
    /\ rows \subseteq Tasks
    /\ component \in [Keys -> Components \cup {Null}]
    /\ checkpoints \in [Tasks -> [SequenceNumbers -> Uris \cup {Null}]]
    /\ ref \in [Tasks -> Refs \cup {NoRef}]
    /\ commits \in [SequenceNumbers -> Commits \cup {Null}]
    /\ events \in Seq(SequenceNumbers)
    /\ told \in [SequenceNumbers -> SUBSET Commits]

\* However reports are repeated, delayed or reordered, the reference in a task's row is
\* the newest checkpoint the table has of it, with the URI first reported for it
\* (record_checkpoint keeps two copies, in checkpoints and in the columns of tasks).
RefIsNewest ==
    \A t \in Tasks :
        LET recorded == {s \in SequenceNumbers : checkpoints[t][s] # Null} IN
        \/ ref[t] = NoRef /\ recorded = {}
        \/ /\ ref[t].sequence \in recorded
           /\ ref[t].uri = checkpoints[t][ref[t].sequence]
           /\ \A s \in recorded : s <= ref[t].sequence

\* The event log and the commit table agree: a workflow's reducer hears of every barrier
\* that is committed, once, however often the commit is repeated (commit_barrier).
EventPerCommit ==
    /\ \A b \in SequenceNumbers :
         b \in Committed <=> \E i \in DOMAIN events : events[i] = b
    /\ \A i, j \in DOMAIN events : events[i] = events[j] => i = j

\* A barrier is told to everybody alike, across checkpoints, replaced components and
\* repeated commits: all requests that are answered name the commit that is stored,
\* though each answer is built from the rows of its own moment (commit_barrier).
AnswersAgree ==
    \A b \in SequenceNumbers : \A a \in told[b] : commits[b] = a

\* No task belongs to two components.
TasksApart == \A k, o \in Linked : TaskOf(k) = TaskOf(o) => k = o

\* The inductive invariant.
IInv ==
    /\ TypeOK
    /\ RefIsNewest
    /\ TasksApart
    /\ EventPerCommit
    /\ AnswersAgree

\* A restarted workflow is never offered an older barrier than before, though new
\* generations count their checkpoints again from the start and commit lower barriers
\* after higher ones (latest_barrier).
LatestNeverGoesBack ==
    [][LatestBarrier # Null => LatestBarrier' # Null /\ LatestBarrier' >= LatestBarrier]_vars

-----------------------------------------------------------------------------
PublishedCheckpoints ==
    {p \in [task : Tasks, sequence : SequenceNumbers, uri : Uris] :
        checkpoints[p.task][p.sequence] = p.uri}

RestorePoint(b) == IF commits[b] = Null THEN Null ELSE commits[b].manifest

Points == INSTANCE RestorePoints WITH
    published <- PublishedCheckpoints,
    points <- [b \in SequenceNumbers |-> RestorePoint(b)]

\* Every committed barrier is, for ever, one cut of published checkpoints with the
\* barrier's number, each of another task (record_checkpoint and commit_barrier keep
\* this across two tables and two columns that they read separately).
ImplementsRestorePoints == Points!PointsSpec
=============================================================================

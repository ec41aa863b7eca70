------------------------------- MODULE Workflow -------------------------------
(***************************************************************************)
(* One workflow: its components' tasks, the event log their transactions   *)
(* append to, and the passes of WorkflowEngine.reconcile, which replay the *)
(* log into the handler's state, replace components and end the workflow,  *)
(* each read and each transaction a step of its own.                       *)
(*                                                                         *)
(* The handler is a parameter.  Its state is a function of the events it   *)
(* has reduced, so the sequence of those stands for the state: an event    *)
(* skipped, repeated or reordered shows in it.  The position of an event   *)
(* in the log stands for its event_id.                                     *)
(*                                                                         *)
(* A task stands for the row that a TaskSpec names: by its key when it has *)
(* one, else by its id.  That this is one row, whatever is submitted in    *)
(* between, is what Submission shows for clients that use one key per id.  *)
(***************************************************************************)
EXTENDS Integers, Sequences, FiniteSetsExt, TaskLife

CONSTANTS
    Keys,             \* component keys
    Generations,      \* component generations
    Barriers,         \* barriers that may be committed
    Controllers,      \* processes
    Null,             \* no row, or a column that is NULL
    Shared,           \* task ids that sessions also submit by themselves
    Desired(_),       \* desired_components of the handler, for the events reduced
    Completes(_, _),  \* completion_result is not None, for events and components
    Fails(_, _),      \* failure_reason is not None, for events and components
    Overlap,          \* whether two processes may lead at the same time
    MaxEvents,        \* bound on the events of overlapping leaders
    MaxFailures       \* bound on passes cut short

Components == [key : Keys, generation : Generations, task : Tasks]

ASSUME WorkflowAssumption ==
    /\ Generations \subseteq Nat
    /\ Shared \subseteq Tasks
    /\ Overlap \in BOOLEAN
    /\ MaxEvents \in Nat
    /\ MaxFailures \in Nat

VARIABLES
    owner,      \* component_key and generation of each task row
    component,  \* workflow_components: generation and task of each key
    log,        \* workflow_events
    flow,       \* the row of workflows: status, state and event_cursor
    at,         \* where reconcile is in each process
    copy,       \* its local state and cursor
    todo,       \* desired components it has still to replace
    failures    \* passes cut short so far

taskVars == <<status, owner, log>>
passVars == <<at, copy, todo>>
vars == <<taskVars, component, flow, passVars, failures>>

TaskEvents == [kind : Observed, key : Keys, generation : Generations]
BarrierEvents == [kind : {"BarrierCommitted"}, barrier : Barriers]
Events == TaskEvents \cup BarrierEvents

Owners == [key : Keys, generation : Generations]

ASSUME NullAssumption ==
    Null \notin Owners \cup [generation : Generations, task : Tasks]

Verdicts == {"SUCCEEDED", "FAILED"}

NoEvents == [state |-> <<>>, cursor |-> 0]

\* desired_components returns ComponentSpecs, validated.
Wanted(events) == Components \cap Desired(events)

Init ==
    /\ LifeInit
    /\ owner = [t \in Tasks |-> Null]
    /\ component = [k \in Keys |-> Null]
    /\ log = <<>>
    /\ flow = [status |-> "NONE", state |-> <<>>, cursor |-> 0]
    /\ at = [c \in Controllers |-> "idle"]
    /\ copy = [c \in Controllers |-> NoEvents]
    /\ todo = [c \in Controllers |-> {}]
    /\ failures = 0

Linked == {k \in Keys : component[k] # Null}
TaskOf(k) == component[k].task

\* The generation column of the task, NULL counted as 0.
TaskGeneration(t) == IF owner[t] = Null THEN 0 ELSE owner[t].generation

\* get_workflow_components: what the handler sees of each component's task.
Rows == [k \in Linked |-> [status |-> status[TaskOf(k)],
                           generation |-> TaskGeneration(TaskOf(k))]]

-----------------------------------------------------------------------------
(* Submission.                                                             *)

\* The row of a component, and what its task's row says of it.
Link(d) == [generation |-> d.generation, task |-> d.task]
OwnerFor(d) == [key |-> d.key, generation |-> d.generation]

\* submit_workflow: the row, its components and their tasks in one transaction; the
\* UNIQUE columns refuse two components of one key or one task.
SubmitWorkflow ==
    LET first == Wanted(<<>>)
        fresh == {d \in first : status[d.task] = "ABSENT"}
    IN
    /\ flow.status = "NONE"
    /\ \A d, e \in first : d.key = e.key \/ d.task = e.task => d = e
    /\ flow' = [flow EXCEPT !.status = "ACTIVE"]
    /\ component' = [k \in Keys |->
         IF \E d \in first : d.key = k THEN Link(CHOOSE d \in first : d.key = k) ELSE Null]
    /\ EnterTasks({d.task : d \in fresh})
    /\ owner' = [t \in Tasks |->
         IF \E d \in fresh : d.task = t THEN OwnerFor(CHOOSE d \in fresh : d.task = t)
                                        ELSE owner[t]]
    /\ UNCHANGED <<log, passVars, failures>>

\* POST /v1/tasks with an id that the workflow may use as well.
SubmitTask(t) ==
    /\ t \in Shared
    /\ EnterTask(t)
    /\ UNCHANGED <<owner, log, component, flow, passVars, failures>>

-----------------------------------------------------------------------------
(* The rest of the pass changes the tasks' rows; with one leader never     *)
(* while it reconciles workflows.                                          *)

MayChangeTasks ==
    IF Overlap THEN Len(log) < MaxEvents ELSE \A c \in Controllers : at[c] = "idle"

\* Mutant: the event carries the status the task had before.
LogAlways(t, s) ==
    IF owner[t] = Null THEN UNCHANGED log
    ELSE log' = Append(log, [kind |-> status[t], key |-> owner[t].key,
                             generation |-> owner[t].generation])

\* _append_event: only tasks of a workflow have events.
LogEvent(t, s) ==
    IF owner[t] = Null THEN UNCHANGED log
    ELSE log' = Append(log, [kind |-> s, key |-> owner[t].key,
                             generation |-> owner[t].generation])

\* reserve_submissions, bind_job and reset_submission write no event.
MoveTask(t) ==
    /\ MayChangeTasks
    /\ AdmitTasks({t}) \/ BindTask(t) \/ ResetTask(t)
    /\ UNCHANGED <<owner, log, component, flow, passVars, failures>>

\* observe_job with another status; an overlapping leader's listing may be old.
Observe(t, s) ==
    /\ MayChangeTasks
    /\ \/ ObserveTask(t, s)
       \/ Overlap /\ status[t] \in Observed \ {s} /\ Become(t, s)
    /\ LogEvent(t, s)
    /\ UNCHANGED <<owner, component, flow, passVars, failures>>

\* fail_task; an overlapping leader may find any other status by then.
Fail(t) ==
    /\ MayChangeTasks
    /\ \/ FailTask(t)
       \/ Overlap /\ status[t] \notin {"ABSENT", "FAILED"} /\ Become(t, "FAILED")
    /\ LogEvent(t, "FAILED")
    /\ UNCHANGED <<owner, component, flow, passVars, failures>>

\* commit_barrier by the API, at any time and whatever the workflow's status is.
CommitBarrier(b) ==
    /\ flow.status # "NONE"
    /\ \A i \in DOMAIN log : log[i] # [kind |-> "BarrierCommitted", barrier |-> b]
    /\ log' = Append(log, [kind |-> "BarrierCommitted", barrier |-> b])
    /\ UNCHANGED <<status, owner, component, flow, passVars, failures>>

-----------------------------------------------------------------------------
(* WorkflowEngine.reconcile.                                               *)

\* c goes on at the given place of reconcile.
Goto(c, place) == at' = [at EXCEPT ![c] = place]

\* reconcile returns or raises.
Leave(c) ==
    /\ Goto(c, "idle")
    /\ copy' = [copy EXCEPT ![c] = NoEvents]
    /\ todo' = [todo EXCEPT ![c] = {}]

\* Mutant: ended workflows are reconciled too.
ReconcilableAlways == flow.status # "NONE"

Reconcilable == flow.status = "ACTIVE"

\* list_workflows and get_workflow.
ReadWorkflow(c) ==
    /\ at[c] = "idle"
    /\ Overlap \/ \A d \in Controllers : at[d] = "idle"
    /\ Reconcilable
    /\ copy' = [copy EXCEPT ![c] = [state |-> flow.state, cursor |-> flow.cursor]]
    /\ Goto(c, "events")
    /\ UNCHANGED <<taskVars, component, flow, todo, failures>>

\* Mutant: event_id >= after.
EventsFrom(n) == IF n = 0 THEN log ELSE SubSeq(log, n, Len(log))

\* Mutant: only the next event is fetched.
EventsPage(n) == IF n = Len(log) THEN <<>> ELSE SubSeq(log, n + 1, n + 1)

\* The workflow's events after a cursor.
EventsAfter(n) == SubSeq(log, n + 1, Len(log))

\* get_workflow_events, each reduced in turn.
ReadEvents(c) ==
    /\ at[c] = "events"
    /\ LET new == EventsAfter(copy[c].cursor) IN
         copy' = [copy EXCEPT ![c] = [state |-> copy[c].state \o new,
                                      cursor |-> copy[c].cursor + Len(new)]]
    /\ Goto(c, "components")
    /\ UNCHANGED <<taskVars, component, flow, todo, failures>>

\* get_workflow_components: what is desired and not there.
ReadComponents(c) ==
    /\ at[c] = "components"
    /\ todo' = [todo EXCEPT ![c] =
         {d \in Wanted(copy[c].state) :
            d.key \in Linked => d.generation > TaskGeneration(TaskOf(d.key))}]
    /\ Goto(c, "replace")
    /\ UNCHANGED <<taskVars, component, flow, copy, failures>>

\* Mutant: replace_component trusts the caller's comparison of generations.
NewerAlways(d) == TRUE

\* replace_component: the generation is newer than that of the component row.
Newer(d) == d.key \in Linked => d.generation > component[d.key].generation

\* workflow_components.task_id is UNIQUE.
CanLink(d) == \A k \in Linked \ {d.key} : TaskOf(k) # d.task

\* Mutant: the row is inserted or replaced.
InsertOrReplace(d) ==
    /\ Become(d.task, "PENDING")
    /\ owner' = [owner EXCEPT ![d.task] = OwnerFor(d)]

\* _insert_task of a component's task: a row that it finds, by key or by id, stays as it is.
Insert(d) ==
    IF status[d.task] = "ABSENT"
    THEN /\ EnterTask(d.task)
         /\ owner' = [owner EXCEPT ![d.task] = OwnerFor(d)]
    ELSE UNCHANGED <<status, owner>>

\* replace_component; nothing changes when the generation is not newer.
Replace(c, d) ==
    /\ at[c] = "replace" /\ d \in todo[c]
    /\ IF Newer(d)
       THEN /\ CanLink(d)
            /\ Insert(d)
            /\ component' = [component EXCEPT ![d.key] = Link(d)]
       ELSE UNCHANGED <<status, owner, component>>
    /\ todo' = [todo EXCEPT ![c] = @ \ {d}]
    /\ UNCHANGED <<log, flow, at, copy, failures>>

\* The task is another component's: IntegrityError ends the pass of this workflow.
ReplaceFails(c, d) ==
    /\ at[c] = "replace" /\ d \in todo[c]
    /\ Newer(d) /\ ~CanLink(d)
    /\ Leave(c)
    /\ UNCHANGED <<taskVars, component, flow, failures>>

\* Mutant: the state is saved before the components are replaced.
ReplacedFromTheStart(c) == TRUE

\* The loop over the desired components is through.
Replaced(c) == todo[c] = {}

\* save_workflow_state, whatever is stored by now.
SaveState(c) ==
    /\ at[c] = "replace" /\ Replaced(c)
    /\ flow' = [flow EXCEPT !.state = copy[c].state, !.cursor = copy[c].cursor]
    /\ todo' = [todo EXCEPT ![c] = {}]
    /\ Goto(c, "saved")
    /\ UNCHANGED <<taskVars, component, copy, failures>>

\* The components are read again and the handler decides.
Decide(c) ==
    /\ at[c] = "saved"
    /\ CASE Completes(copy[c].state, Rows) -> Goto(c, "SUCCEEDED") /\ UNCHANGED <<copy, todo>>
         [] ~Completes(copy[c].state, Rows) /\ Fails(copy[c].state, Rows) ->
              Goto(c, "FAILED") /\ UNCHANGED <<copy, todo>>
         [] OTHER -> Leave(c)
    /\ UNCHANGED <<taskVars, component, flow, failures>>

\* complete_workflow or fail_workflow.
Finish(c) ==
    /\ at[c] \in Verdicts
    /\ flow' = [flow EXCEPT !.status = at[c]]
    /\ Leave(c)
    /\ UNCHANGED <<taskVars, component, failures>>

\* The process dies, or the handler raises and the pass goes on without this workflow.
CutShort(c) ==
    /\ at[c] # "idle" /\ failures < MaxFailures
    /\ failures' = failures + 1
    /\ Leave(c)
    /\ UNCHANGED <<taskVars, component, flow>>

Reconcile(c) ==
    \/ ReadWorkflow(c) \/ ReadEvents(c) \/ ReadComponents(c)
    \/ \E d \in todo[c] : Replace(c, d) \/ ReplaceFails(c, d)
    \/ SaveState(c) \/ Decide(c) \/ Finish(c)

Next ==
    \/ SubmitWorkflow
    \/ \E t \in Tasks : SubmitTask(t) \/ MoveTask(t) \/ Fail(t)
    \/ \E t \in Tasks, s \in Observed : Observe(t, s)
    \/ \E b \in Barriers : CommitBarrier(b)
    \/ \E c \in Controllers : Reconcile(c) \/ CutShort(c)

Spec == Init /\ [][Next]_vars

-----------------------------------------------------------------------------
Places == {"idle", "events", "components", "replace", "saved"} \cup Verdicts

TypeOK ==
    /\ status \in [Tasks -> Statuses]
    /\ owner \in [Tasks -> Owners \cup {Null}]
    /\ component \in [Keys -> [generation : Generations, task : Tasks] \cup {Null}]
    /\ log \in Seq(Events)
    /\ flow \in [status : {"NONE", "ACTIVE"} \cup Verdicts,
                state : Seq(Events), cursor : Nat]
    /\ copy \in [Controllers -> [state : Seq(Events), cursor : Nat]]
    /\ at \in [Controllers -> Places]
    /\ todo \in [Controllers -> SUBSET Components]
    /\ failures \in 0..MaxFailures

\* What has been reduced is what the log holds up to the cursor.
IsReplay(r) == r.cursor \in 0..Len(log) /\ r.state = SubSeq(log, 1, r.cursor)

\* The stored state is always the replay of the log up to the stored cursor: no event is
\* skipped, reduced twice or out of order, whichever pass is cut short between its
\* transactions and whichever of two leaders saves last (save_workflow_state overwrites
\* both columns, whatever they are by then).
StateIsReplay == IsReplay(flow) /\ \A c \in Controllers : IsReplay(copy[c])

\* Event e is about the generation o of a component.
Tells(e, o) == e.kind # "BarrierCommitted" /\ e.key = o.key /\ e.generation = o.generation

EventsOf(o) == {i \in DOMAIN log : Tells(log[i], o)}

\* The log tells the handler the truth about every component's task, replaced ones
\* included: its last event names the status in the task's row, and a task without
\* events has none to tell (observe_job and fail_task write both, the other
\* transactions write no event; two leaders may take a status back and forth).
LastEventIsStatus ==
    \A t \in Tasks : owner[t] # Null =>
        IF EventsOf(owner[t]) = {} THEN status[t] \in {"PENDING", "SUBMITTING", "SUBMITTED"}
        ELSE \E i \in EventsOf(owner[t]) : /\ \A j \in EventsOf(owner[t]) : j <= i
                                           /\ log[i].kind = status[t]

\* Each generation of a component has one task, no newer than the component's own, and
\* events only of tasks that were inserted for it.
OwnersApart ==
    /\ \A t \in Tasks : owner[t] # Null =>
         /\ owner[t].key \in Linked
         /\ owner[t].generation <= component[owner[t].key].generation
    /\ \A t, u \in Tasks : owner[t] = owner[u] /\ owner[t] # Null => t = u
    /\ \A i \in DOMAIN log : log[i].kind # "BarrierCommitted" =>
         \E t \in Tasks : owner[t] = [key |-> log[i].key, generation |-> log[i].generation]

\* Linked tasks have their rows.
LinkedPresent == \A k \in Linked : status[TaskOf(k)] # "ABSENT"

\* Before it is submitted, nothing belongs to the workflow.
Unborn ==
    flow.status = "NONE" =>
        /\ \A t \in Tasks : owner[t] = Null
        /\ \A k \in Keys : component[k] = Null
        /\ \A c \in Controllers : at[c] = "idle"

\* "materializes only desired child generations" (handlers.py:168): the handler asked for
\* each component, with its generation and task, when it had seen some part of the log
\* from its start: not because of an event it saw twice or in another order.
DesiredOnce(d) == \E n \in 0..Len(log) : d \in Desired(SubSeq(log, 1, n))

OnlyDesired ==
    /\ \A k \in Linked :
         DesiredOnce([key |-> k, generation |-> component[k].generation, task |-> TaskOf(k)])
    /\ \A t \in Tasks : owner[t] # Null =>
         DesiredOnce([key |-> owner[t].key, generation |-> owner[t].generation, task |-> t])
    /\ \A c \in Controllers : \A d \in todo[c] : DesiredOnce(d)

\* A component is replaced by a newer generation only, although the pass compares with
\* rows it read earlier and two leaders may replace at once (replace_component).
GenerationsRise ==
    [][\A k \in Linked : component'[k] # component[k] =>
         component'[k] # Null /\ component'[k].generation > component[k].generation]_vars

-----------------------------------------------------------------------------
(* With one leader at a time.                                              *)

\* Submitting workflows and replacing components leaves tasks their plain life, the one
\* that SwarmController keeps to: a component whose task id is taken, by a session, by an
\* earlier component or by a pass that was cut short, starts no task again (_insert_task).
TasksLivePlainly == LifeSpec

HasEnded == flow.status \in Verdicts

UpToDate(d) == d.key \in Linked /\ component[d.key].generation >= d.generation

\* A workflow ends as its handler judges the events reduced and the tasks as they are
\* then, and no component that those events ask for is missing or outdated: an end is never
\* decided on components from before the replacements (reconcile reads them twice).
EndIsTrue ==
    [][~HasEnded /\ HasEnded' =>
         /\ Completes(flow.state, Rows) <=> flow.status' = "SUCCEEDED"
         /\ Fails(flow.state, Rows) \/ flow.status' = "SUCCEEDED"
         /\ \A d \in Wanted(flow.state) : UpToDate(d)]_vars

OnlyBarriersAfter(n) == \A i \in n + 1 .. Len(log) : log[i].kind = "BarrierCommitted"

\* When a workflow ends, its handler has reduced all that ever happened to its tasks; only
\* barriers may have been committed since the pass read the log.
EndKnowsTasks == [][~HasEnded /\ HasEnded' => OnlyBarriersAfter(flow.cursor)]_vars

\* With one leader a workflow that has ended stays as it ended, with the state and the
\* cursor of its end, though its other tasks go on and write events (_finish_workflow and
\* save_workflow_state have no condition on the status).
EndIsFinal == [][HasEnded => UNCHANGED flow]_vars

\* What the pass of c has in its local variables is still so.
Current(c) ==
    /\ at[c] # "idle" => flow.status = "ACTIVE"
    /\ at[c] \notin {"idle", "events"} => OnlyBarriersAfter(copy[c].cursor)
    /\ at[c] = "replace" => \A d \in Wanted(copy[c].state) : d \in todo[c] \/ UpToDate(d)
    /\ at[c] \in {"saved"} \cup Verdicts =>
         /\ flow.state = copy[c].state /\ flow.cursor = copy[c].cursor
         /\ \A d \in Wanted(copy[c].state) : UpToDate(d)
    /\ at[c] \in Verdicts =>
         /\ Completes(copy[c].state, Rows) <=> at[c] = "SUCCEEDED"
         /\ Fails(copy[c].state, Rows) \/ at[c] = "SUCCEEDED"

\* The inductive invariant behind these: one pass at a time, whose reads are still good
\* when it uses them (reconcile reads, replaces, saves and ends separately, while
\* barriers and other tasks come in).
PassIsCurrent ==
    /\ \A c, d \in Controllers : at[c] # "idle" /\ at[d] # "idle" => c = d
    /\ \A c \in Controllers : Current(c)

-----------------------------------------------------------------------------
(* Progress: the leader goes on with its passes, and no task is on its way *)
(* for ever, which is what SwarmController's EveryTaskFinishes says.       *)

Fairness ==
    /\ \A c \in Controllers : WF_vars(Reconcile(c))
    /\ \A t \in Tasks : []<>(status[t] \in {"ABSENT"} \cup Ended)

FairSpec == Spec /\ Fairness

\* A workflow whose tasks all end ends itself, unless one of them was cancelled; it may
\* wait for ever for a handler that neither completes nor fails (reconcile).
WorkflowEnds ==
    flow.status = "ACTIVE"
        ~> HasEnded \/ \E k \in Linked : status[TaskOf(k)] = "CANCELLED"

\* The inductive invariant behind the properties that hold with two leaders.
IInv ==
    /\ TypeOK /\ Unborn /\ StateIsReplay
    /\ OwnersApart /\ LinkedPresent /\ LastEventIsStatus
    /\ OnlyDesired
=============================================================================

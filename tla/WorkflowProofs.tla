---------------------------- MODULE WorkflowProofs ----------------------------
(* The stored state is the replay of the log, the log tells the truth about *)
(* every component's task, and components are only what the handler asked   *)
(* for, of rising generations: for every handler, any number of leaders at  *)
(* once, and passes cut short anywhere.                                     *)
EXTENDS Workflow, SequenceTheorems, TLAPS

-----------------------------------------------------------------------------
(* The log.                                                                *)

\* What a transaction may do to the log.
LogKept == UNCHANGED log \/ \E e \in Events : log' = Append(log, e)

\* A prefix of the log is not touched by what is appended.
LEMMA AppendPrefix ==
  ASSUME NEW S, NEW q \in Seq(S), NEW e \in S, NEW n \in 0..Len(q)
  PROVE  SubSeq(Append(q, e), 1, n) = SubSeq(q, 1, n)
<1>1. CASE n = 0
  BY <1>1, SubSeqEmpty
<1>2. CASE n # 0
  <2>1. Append(q, e) = q \o <<e>> /\ <<e>> \in Seq(S)
    BY AppendIsConcat
  <2>2. 1 \in 1..Len(q) /\ n \in 1..Len(q)
    BY <1>2
  <2> QED
    BY <2>1, <2>2, SubSeqOfConcat1
<1> QED
  BY <1>1, <1>2

\* The same of the log itself.
LEMMA PrefixKept ==
  ASSUME TypeOK, LogKept
  PROVE  /\ Len(log) \in Nat /\ Len(log') \in Nat /\ Len(log) <= Len(log')
         /\ \A n \in 0..Len(log) : SubSeq(log', 1, n) = SubSeq(log, 1, n)
         /\ \A i \in DOMAIN log : i \in DOMAIN log' /\ log'[i] = log[i]
<1>1. log \in Seq(Events)
  BY DEF TypeOK
<1>2. CASE UNCHANGED log
  BY <1>1, <1>2
<1>3. ASSUME NEW e \in Events, log' = Append(log, e)
      PROVE  /\ Len(log) \in Nat /\ Len(log') \in Nat /\ Len(log) <= Len(log')
             /\ \A n \in 0..Len(log) : SubSeq(log', 1, n) = SubSeq(log, 1, n)
             /\ \A i \in DOMAIN log : i \in DOMAIN log' /\ log'[i] = log[i]
  <2>1. /\ Len(log') = Len(log) + 1 /\ Len(log) \in Nat
        /\ DOMAIN log' = 1..(Len(log) + 1) /\ DOMAIN log = 1..Len(log)
        /\ \A i \in 1..Len(log) : log'[i] = log[i]
    BY <1>1, <1>3, AppendProperties
  <2>2. \A n \in 0..Len(log) : SubSeq(log', 1, n) = SubSeq(log, 1, n)
    BY <1>1, <1>3, AppendPrefix
  <2> QED
    BY <2>1, <2>2
<1> QED
  BY <1>2, <1>3 DEF LogKept

\* An appended event is one more event of what it is about.
LEMMA OneMoreEvent ==
  ASSUME TypeOK, NEW e \in Events, log' = Append(log, e), NEW o
  PROVE  {i \in DOMAIN log' : Tells(log'[i], o)} =
           {i \in DOMAIN log : Tells(log[i], o)}
             \cup (IF Tells(e, o) THEN {Len(log) + 1} ELSE {})
<1>1. /\ Len(log) \in Nat
      /\ DOMAIN log' = 1..(Len(log) + 1) /\ DOMAIN log = 1..Len(log)
      /\ \A i \in 1..Len(log) : log'[i] = log[i]
      /\ log'[Len(log) + 1] = e
  BY AppendProperties DEF TypeOK
<1>2. ASSUME NEW i \in DOMAIN log'
      PROVE  i \in DOMAIN log \/ i = Len(log) + 1
  BY <1>1
<1>3. Len(log) + 1 \notin DOMAIN log /\ Len(log) + 1 \in DOMAIN log'
  BY <1>1
<1> QED
  BY <1>1, <1>2, <1>3

-----------------------------------------------------------------------------
(* What steps keep of the invariant's parts.                               *)

\* Neither the stored state nor a local one changes, but a pass may end.
LEMMA ReplayKept ==
  ASSUME IInv, LogKept,
         flow'.state = flow.state, flow'.cursor = flow.cursor,
         \A c \in Controllers : copy'[c] \in {copy[c], NoEvents}
  PROVE  StateIsReplay'
<1>1. /\ Len(log) \in Nat /\ Len(log') \in Nat /\ Len(log) <= Len(log')
      /\ \A n \in 0..Len(log) : SubSeq(log', 1, n) = SubSeq(log, 1, n)
  BY PrefixKept DEF IInv
<1>2. IsReplay(flow)'
  BY <1>1 DEF IInv, StateIsReplay, IsReplay
<1>3. ASSUME NEW c \in Controllers PROVE IsReplay(copy[c])'
  <2>1. CASE copy'[c] = copy[c]
    BY <1>1, <2>1 DEF IInv, StateIsReplay, IsReplay
  <2>2. CASE copy'[c] = NoEvents
    BY <1>1, <2>2, SubSeqEmpty DEF NoEvents, IsReplay
  <2> QED
    BY <2>1, <2>2
<1> QED
  BY <1>2, <1>3 DEF StateIsReplay

\* What was once desired was once desired.
LEMMA DesiredKept ==
  ASSUME IInv, LogKept, NEW d, DesiredOnce(d)
  PROVE  \E n \in 0..Len(log') : d \in Desired(SubSeq(log', 1, n))
<1>1. PICK n \in 0..Len(log) : d \in Desired(SubSeq(log, 1, n))
  BY DEF DesiredOnce
<1>2. n \in 0..Len(log') /\ SubSeq(log', 1, n) = SubSeq(log, 1, n)
  BY PrefixKept DEF IInv
<1> QED
  BY <1>1, <1>2

\* No component or task is linked, and no pass finds more to do.
LEMMA OnlyDesiredKept ==
  ASSUME IInv, LogKept, UNCHANGED <<component, owner>>,
         \A c \in Controllers : todo'[c] \subseteq todo[c]
  PROVE  OnlyDesired'
<1>1. \A d : DesiredOnce(d) => \E n \in 0..Len(log') : d \in Desired(SubSeq(log', 1, n))
  BY DesiredKept
<1>2. ASSUME NEW k \in Linked'
      PROVE  DesiredOnce([key |-> k, generation |-> component[k].generation,
                          task |-> TaskOf(k)])'
  BY <1>1, <1>2 DEF IInv, OnlyDesired, Linked, TaskOf, DesiredOnce
<1>3. ASSUME NEW t \in Tasks, owner'[t] # Null
      PROVE  DesiredOnce([key |-> owner[t].key, generation |-> owner[t].generation,
                          task |-> t])'
  BY <1>1, <1>3 DEF IInv, OnlyDesired, DesiredOnce
<1>4. ASSUME NEW c \in Controllers, NEW d \in todo'[c]
      PROVE  DesiredOnce(d)'
  BY <1>1, <1>4 DEF IInv, OnlyDesired, DesiredOnce
<1> QED
  BY <1>2, <1>3, <1>4 DEF OnlyDesired

\* The log gets at most an event of a barrier, or of a task that is somebody's.
LEMMA OwnersKept ==
  ASSUME IInv, UNCHANGED <<owner, component>>,
         \/ UNCHANGED log
         \/ \E e \in Events :
              /\ log' = Append(log, e)
              /\ \/ e.kind = "BarrierCommitted"
                 \/ \E t \in Tasks : owner[t] = [key |-> e.key, generation |-> e.generation]
  PROVE  OwnersApart'
<1>1. ASSUME NEW t \in Tasks, owner'[t] # Null
      PROVE  /\ owner'[t].key \in Linked'
             /\ owner'[t].generation <= component'[owner'[t].key].generation
  BY <1>1 DEF IInv, OwnersApart, Linked
<1>2. ASSUME NEW t \in Tasks, NEW u \in Tasks, owner'[t] = owner'[u], owner'[t] # Null
      PROVE  t = u
  BY <1>2 DEF IInv, OwnersApart
<1>3. ASSUME NEW i \in DOMAIN log', log'[i].kind # "BarrierCommitted"
      PROVE  \E t \in Tasks : owner'[t] = [key |-> log'[i].key, generation |-> log'[i].generation]
  <2>1. CASE UNCHANGED log
    BY <1>3, <2>1 DEF IInv, OwnersApart
  <2>2. ASSUME NEW e \in Events, log' = Append(log, e),
               \/ e.kind = "BarrierCommitted"
               \/ \E t \in Tasks : owner[t] = [key |-> e.key, generation |-> e.generation]
        PROVE  \E t \in Tasks : owner'[t] = [key |-> log'[i].key, generation |-> log'[i].generation]
    <3>1. /\ Len(log) \in Nat
          /\ DOMAIN log' = 1..(Len(log) + 1) /\ DOMAIN log = 1..Len(log)
          /\ \A j \in 1..Len(log) : log'[j] = log[j]
          /\ log'[Len(log) + 1] = e
      BY <2>2, AppendProperties DEF IInv, TypeOK
    <3>2. CASE i \in DOMAIN log
      BY <1>3, <3>1, <3>2 DEF IInv, OwnersApart
    <3>3. CASE i \notin DOMAIN log
      <4>1. i = Len(log) + 1
        BY <3>1, <3>3
      <4> QED
        BY <1>3, <2>2, <3>1, <4>1
    <3> QED
      BY <3>2, <3>3
  <2> QED
    BY <2>1, <2>2
<1> QED
  BY <1>1, <1>2, <1>3 DEF OwnersApart

\* The log gets at most a barrier's event.
Quiet == UNCHANGED log \/ \E e \in Events : log' = Append(log, e) /\ e.kind = "BarrierCommitted"

\* Steps that write no event of a task leave the events of each generation alone.
LEMMA QuietEvents ==
  ASSUME IInv, Quiet, NEW o
  PROVE  /\ {i \in DOMAIN log' : Tells(log'[i], o)} = {i \in DOMAIN log : Tells(log[i], o)}
         /\ \A i \in DOMAIN log : log'[i] = log[i]
<1>1. CASE UNCHANGED log
  BY <1>1
<1>2. ASSUME NEW e \in Events, log' = Append(log, e), e.kind = "BarrierCommitted"
      PROVE  /\ {i \in DOMAIN log' : Tells(log'[i], o)} = {i \in DOMAIN log : Tells(log[i], o)}
             /\ \A i \in DOMAIN log : log'[i] = log[i]
  <2>1. ~Tells(e, o)
    BY <1>2 DEF Tells
  <2>2. TypeOK /\ LogKept
    BY <1>2 DEF IInv, LogKept
  <2> QED
    BY <1>2, <2>1, <2>2, OneMoreEvent, PrefixKept
<1> QED
  BY <1>1, <1>2 DEF Quiet

\* An event of a task is of an observed status, and no barrier's.
LEMMA KindsObserved ==
  ASSUME TypeOK, NEW o, NEW i \in EventsOf(o)
  PROVE  log[i].kind \in Observed
BY DEF TypeOK, EventsOf, Tells, Events, TaskEvents, BarrierEvents

Waiting == {"PENDING", "SUBMITTING"}

\* A task that waits has no events to contradict it.
LEMMA WaitingHasNoEvents ==
  ASSUME IInv, NEW t \in Tasks, owner[t] # Null, status[t] \in Waiting \cup {"ABSENT"}
  PROVE  EventsOf(owner[t]) = {} /\ status[t] # "ABSENT"
<1>1. ASSUME EventsOf(owner[t]) # {} PROVE FALSE
  <2>1. PICK i \in EventsOf(owner[t]) : log[i].kind = status[t]
    BY <1>1 DEF IInv, LastEventIsStatus
  <2>2. log[i].kind \in Observed
    BY KindsObserved DEF IInv
  <2> QED
    BY <2>1, <2>2 DEF Observed, Ended, Waiting
<1> QED
  BY <1>1 DEF IInv, LastEventIsStatus

\* The tasks keep their statuses, or wait and go on waiting, as far as events tell.
LEMMA LastEventKept ==
  ASSUME IInv, UNCHANGED owner, Quiet,
         \A t \in Tasks : \/ status'[t] = status[t]
                          \/ /\ status[t] \in Waiting \cup {"ABSENT"}
                             /\ status'[t] \in Waiting \cup {"SUBMITTED"}
  PROVE  LastEventIsStatus'
<1> SUFFICES ASSUME NEW t \in Tasks, owner'[t] # Null
             PROVE  IF EventsOf(owner[t])' = {}
                    THEN status'[t] \in {"PENDING", "SUBMITTING", "SUBMITTED"}
                    ELSE \E i \in EventsOf(owner[t])' :
                           /\ \A j \in EventsOf(owner[t])' : j <= i
                           /\ log'[i].kind = status'[t]
  BY DEF LastEventIsStatus
<1>1. /\ EventsOf(owner[t])' = EventsOf(owner[t])
      /\ \A i \in EventsOf(owner[t]) : log'[i] = log[i]
  BY QuietEvents DEF EventsOf
<1>2. CASE status'[t] = status[t]
  BY <1>1, <1>2 DEF IInv, LastEventIsStatus
<1>3. CASE /\ status[t] \in Waiting \cup {"ABSENT"}
           /\ status'[t] \in Waiting \cup {"SUBMITTED"}
  BY <1>1, <1>3, WaitingHasNoEvents DEF Waiting
<1> QED
  BY <1>2, <1>3

\* An observation is logged for its task, and is nobody else's.
LEMMA LastEventWritten ==
  ASSUME IInv, NEW t \in Tasks, NEW s \in Observed,
         status' = [status EXCEPT ![t] = s], LogEvent(t, s), UNCHANGED owner
  PROVE  LastEventIsStatus'
<1>1. status \in [Tasks -> Statuses] /\ log \in Seq(Events)
  BY DEF IInv, TypeOK
<1>2. CASE owner[t] = Null
  <2>1. UNCHANGED log
    BY <1>2 DEF LogEvent
  <2> QED
    BY <1>1, <1>2, <2>1 DEF IInv, LastEventIsStatus, EventsOf
<1>3. CASE owner[t] # Null
  <2> DEFINE e == [kind |-> s, key |-> owner[t].key, generation |-> owner[t].generation]
  <2>1. owner[t] \in Owners
    BY <1>3 DEF IInv, TypeOK
  <2>2. log' = Append(log, e) /\ e \in Events
    BY <1>3, <2>1 DEF LogEvent, Events, TaskEvents, Owners
  <2>3. /\ Len(log) \in Nat /\ DOMAIN log = 1..Len(log)
        /\ \A i \in 1..Len(log) : log'[i] = log[i]
        /\ log'[Len(log) + 1] = e
    BY <1>1, <2>2, AppendProperties
  <2> SUFFICES ASSUME NEW u \in Tasks, owner'[u] # Null
               PROVE  IF EventsOf(owner[u])' = {}
                      THEN status'[u] \in {"PENDING", "SUBMITTING", "SUBMITTED"}
                      ELSE \E i \in EventsOf(owner[u])' :
                             /\ \A j \in EventsOf(owner[u])' : j <= i
                             /\ log'[i].kind = status'[u]
    BY DEF LastEventIsStatus
  <2>4. EventsOf(owner[u])' = EventsOf(owner[u])
                                \cup (IF Tells(e, owner[u]) THEN {Len(log) + 1} ELSE {})
    BY <2>2, OneMoreEvent DEF IInv, EventsOf
  <2>5. EventsOf(owner[u]) \subseteq 1..Len(log)
    BY <2>3 DEF EventsOf
  <2>6. CASE u = t
    <3>1. Tells(e, owner[u])
      BY <2>6 DEF Tells, Observed, Ended
    <3>2. Len(log) + 1 \in EventsOf(owner[u])' /\ \A j \in EventsOf(owner[u])' : j <= Len(log) + 1
      BY <2>3, <2>4, <2>5, <3>1
    <3>3. log'[Len(log) + 1].kind = status'[u]
      BY <1>1, <2>3, <2>6
    <3> QED
      BY <3>2, <3>3
  <2>7. CASE u # t
    <3>1. owner[u] \in Owners /\ owner[u] # owner[t]
      BY <1>3, <2>7 DEF IInv, TypeOK, OwnersApart
    <3>2. ~Tells(e, owner[u])
      BY <2>1, <3>1 DEF Tells, Owners
    <3>3. EventsOf(owner[u])' = EventsOf(owner[u]) /\ status'[u] = status[u]
      BY <1>1, <2>4, <2>7, <3>2
    <3>4. \A i \in EventsOf(owner[u]) : log'[i] = log[i]
      BY <2>3, <2>5
    <3> QED
      BY <3>3, <3>4 DEF IInv, LastEventIsStatus
  <2> QED
    BY <2>6, <2>7
<1> QED
  BY <1>2, <1>3

-----------------------------------------------------------------------------
(* The steps.                                                              *)

\* Nothing is there before the workflow is submitted.
LEMMA InitIInv == Init => IInv
<1> SUFFICES ASSUME Init PROVE IInv
  OBVIOUS
<1> USE DEF Init, LifeInit
<1>1. <<>> \in Seq(Events) /\ Len(<<>>) = 0 /\ DOMAIN <<>> = {}
  OBVIOUS
<1>2. TypeOK
  <2>1. /\ NoEvents \in [state : Seq(Events), cursor : Nat]
        /\ flow \in [status : {"NONE", "ACTIVE"} \cup Verdicts, state : Seq(Events), cursor : Nat]
    BY <1>1 DEF NoEvents
  <2>2. /\ status \in [Tasks -> Statuses] /\ at \in [Controllers -> Places]
        /\ failures \in 0..MaxFailures
    BY WorkflowAssumption DEF Statuses, Places
  <2> QED
    BY <1>1, <2>1, <2>2 DEF TypeOK
<1>3. Unborn /\ Linked = {}
  BY DEF Unborn, Linked
<1>4. StateIsReplay
  <2>1. SubSeq(log, 1, 0) = <<>> /\ 0 \in 0..Len(log)
    BY <1>1, SubSeqEmpty
  <2>2. \A c \in Controllers : copy[c] = NoEvents
    OBVIOUS
  <2> QED
    BY <2>1, <2>2 DEF StateIsReplay, IsReplay, NoEvents
<1>5. OwnersApart /\ LinkedPresent /\ LastEventIsStatus
  BY <1>1, <1>3 DEF OwnersApart, LinkedPresent, LastEventIsStatus
<1>6. OnlyDesired
  BY <1>3 DEF OnlyDesired
<1> QED
  BY <1>2, <1>3, <1>4, <1>5, <1>6 DEF IInv

\* A step of a pass that leaves tasks, components and log alone.
LEMMA PassStep ==
  ASSUME IInv, UNCHANGED <<taskVars, component>>, TypeOK', flow'.status # "NONE",
         StateIsReplay', \A c \in Controllers : \A d \in todo'[c] : DesiredOnce(d)
  PROVE  IInv'
<1> USE DEF taskVars
<1>1. Unborn'
  BY DEF Unborn
<1>2. OwnersApart' /\ LastEventIsStatus'
  BY OwnersKept, LastEventKept DEF Quiet
<1>3. LinkedPresent'
  BY DEF IInv, LinkedPresent, Linked, TaskOf
<1>4. ASSUME NEW k \in Linked'
      PROVE  DesiredOnce([key |-> k, generation |-> component[k].generation,
                          task |-> TaskOf(k)])'
  BY <1>4 DEF IInv, OnlyDesired, Linked, TaskOf, DesiredOnce
<1>5. ASSUME NEW t \in Tasks, owner'[t] # Null
      PROVE  DesiredOnce([key |-> owner[t].key, generation |-> owner[t].generation,
                          task |-> t])'
  BY <1>5 DEF IInv, OnlyDesired, DesiredOnce
<1>6. ASSUME NEW c \in Controllers, NEW d \in todo'[c]
      PROVE  DesiredOnce(d)'
  <2>1. DesiredOnce(d)
    OBVIOUS
  <2> QED
    BY <2>1 DEF DesiredOnce
<1> QED
  BY <1>1, <1>2, <1>3, <1>4, <1>5, <1>6 DEF IInv, OnlyDesired

\* A step of the tasks: the log may get an event, but no pass goes on.
LEMMA TaskStep ==
  ASSUME IInv, UNCHANGED <<owner, component, flow, passVars, failures>>, LogKept,
         status' \in [Tasks -> Statuses], OwnersApart', LastEventIsStatus',
         \A t \in Tasks : status'[t] = "ABSENT" => status[t] = "ABSENT"
  PROVE  IInv'
<1> USE DEF passVars
<1>1. log' \in Seq(Events)
  <2>1. log \in Seq(Events)
    BY DEF IInv, TypeOK
  <2> QED
    BY <2>1, AppendProperties DEF LogKept
<1>2. TypeOK'
  BY <1>1 DEF IInv, TypeOK
<1>3. Unborn'
  BY DEF IInv, Unborn
<1>4. StateIsReplay'
  BY ReplayKept
<1>5. LinkedPresent'
  <2> SUFFICES ASSUME NEW k \in Linked' PROVE status'[TaskOf(k)'] # "ABSENT"
    BY DEF LinkedPresent
  <2>1. k \in Linked /\ TaskOf(k)' = TaskOf(k)
    BY DEF Linked, TaskOf
  <2>2. TaskOf(k) \in Tasks
    BY <2>1 DEF IInv, TypeOK, Linked, TaskOf
  <2> QED
    BY <2>1, <2>2 DEF IInv, LinkedPresent
<1>6. OnlyDesired'
  BY OnlyDesiredKept
<1> QED
  BY <1>2, <1>3, <1>4, <1>5, <1>6 DEF IInv

\* Rows are inserted one by one, or those of the first components at once.
LEMMA EnterOne ==
  ASSUME IInv, NEW t \in Tasks, EnterTask(t)
  PROVE  status[t] = "ABSENT" /\ status' = [status EXCEPT ![t] = "PENDING"]
BY DEF EnterTask, EnterTasks, IInv, TypeOK

\* submit_workflow inserts the tasks that are not there, as PENDING.
LEMMA EnterFirst ==
  ASSUME SubmitWorkflow
  PROVE  status' = [t \in Tasks |->
           IF \E d \in {e \in Wanted(<<>>) : status[e.task] = "ABSENT"} : d.task = t
           THEN "PENDING" ELSE status[t]]
<1> DEFINE fresh == {d \in Wanted(<<>>) : status[d.task] = "ABSENT"}
<1>1. status' = [t \in Tasks |-> IF t \in {d.task : d \in fresh} THEN "PENDING" ELSE status[t]]
  BY DEF SubmitWorkflow, EnterTasks
<1>2. \A t \in Tasks : t \in {d.task : d \in fresh} <=> \E d \in fresh : d.task = t
  OBVIOUS
<1> HIDE DEF fresh
<1>3. status' = [t \in Tasks |-> IF \E d \in fresh : d.task = t THEN "PENDING" ELSE status[t]]
  BY <1>1, <1>2
<1> QED
  BY <1>3 DEF fresh

\* A session's own task belongs to no workflow.
LEMMA SubmitTaskStep ==
  ASSUME IInv, NEW t \in Tasks, SubmitTask(t)
  PROVE  IInv'
<1>1. /\ status[t] = "ABSENT" /\ status' = [status EXCEPT ![t] = "PENDING"]
      /\ UNCHANGED <<owner, log, component, flow, passVars, failures>>
  BY EnterOne DEF SubmitTask
<1>2. /\ status' \in [Tasks -> Statuses] /\ LogKept /\ Quiet
      /\ \A u \in Tasks : u # t => status'[u] = status[u]
      /\ status'[t] = "PENDING"
  BY <1>1 DEF IInv, TypeOK, Statuses, LogKept, Quiet
<1>3. OwnersApart'
  BY <1>1, OwnersKept
<1>4. LastEventIsStatus'
  BY <1>1, <1>2, LastEventKept DEF Waiting
<1> QED
  BY <1>1, <1>2, <1>3, <1>4, TaskStep

\* Admission, binding and resetting write no event: those tasks have none.
LEMMA MoveTaskStep ==
  ASSUME IInv, NEW t \in Tasks, MoveTask(t)
  PROVE  IInv'
<1>1. UNCHANGED <<owner, log, component, flow, passVars, failures>>
  BY DEF MoveTask
<1>2. /\ status[t] \in Waiting /\ status'[t] \in Waiting \cup {"SUBMITTED"}
      /\ \A u \in Tasks : u # t => status'[u] = status[u]
      /\ status' \in [Tasks -> Statuses]
  <2>1. CASE AdmitTasks({t})
    BY <2>1 DEF AdmitTasks, IInv, TypeOK, Waiting, Statuses
  <2>2. CASE BindTask(t)
    BY <2>2 DEF BindTask, Become, IInv, TypeOK, Waiting, Statuses, Observed
  <2>3. CASE ResetTask(t)
    BY <2>3 DEF ResetTask, Become, IInv, TypeOK, Waiting, Statuses
  <2> QED
    BY <2>1, <2>2, <2>3 DEF MoveTask
<1>3. LogKept /\ Quiet
  BY <1>1 DEF LogKept, Quiet
<1>4. OwnersApart'
  BY <1>1, OwnersKept
<1>5. LastEventIsStatus'
  BY <1>1, <1>2, <1>3, LastEventKept
<1>6. \A u \in Tasks : status'[u] = "ABSENT" => status[u] = "ABSENT"
  BY <1>2 DEF Waiting
<1> QED
  BY <1>1, <1>2, <1>3, <1>4, <1>5, <1>6, TaskStep

\* What observe_job and fail_task write, whatever the status was.
LEMMA WriteStep ==
  ASSUME IInv, NEW t \in Tasks, NEW s \in Observed, Become(t, s), LogEvent(t, s),
         UNCHANGED <<owner, component, flow, passVars, failures>>
  PROVE  IInv'
<1>1. /\ status' = [status EXCEPT ![t] = s]
      /\ status' \in [Tasks -> Statuses]
      /\ \A u \in Tasks : status'[u] = "ABSENT" => status[u] = "ABSENT"
  BY DEF IInv, TypeOK, Become, Statuses, Observed, Ended
<1>2. LastEventIsStatus'
  BY <1>1, LastEventWritten
<1>3. \/ UNCHANGED log
      \/ \E e \in Events : /\ log' = Append(log, e)
                           /\ \E u \in Tasks : owner[u] = [key |-> e.key, generation |-> e.generation]
  <2>1. CASE owner[t] = Null
    BY <2>1 DEF LogEvent
  <2>2. CASE owner[t] # Null
    <3> DEFINE e == [kind |-> s, key |-> owner[t].key, generation |-> owner[t].generation]
    <3>1. owner[t] \in Owners
      BY <2>2 DEF IInv, TypeOK
    <3>2. log' = Append(log, e) /\ e \in Events
      BY <2>2, <3>1 DEF LogEvent, Events, TaskEvents, Owners
    <3>3. owner[t] = [key |-> e.key, generation |-> e.generation]
      BY <3>1 DEF Owners
    <3> QED
      BY <3>2, <3>3
  <2> QED
    BY <2>1, <2>2
<1>4. LogKept
  BY <1>3 DEF LogKept
<1>5. OwnersApart'
  BY <1>3, OwnersKept
<1> QED
  BY <1>1, <1>2, <1>4, <1>5, TaskStep

\* A barrier's event is no task's.
LEMMA CommitBarrierStep ==
  ASSUME IInv, NEW b \in Barriers, CommitBarrier(b)
  PROVE  IInv'
<1> DEFINE e == [kind |-> "BarrierCommitted", barrier |-> b]
<1>1. log' = Append(log, e) /\ e \in Events /\ e.kind = "BarrierCommitted"
  BY DEF CommitBarrier, Events, BarrierEvents
<1>2. UNCHANGED <<status, owner, component, flow, passVars, failures>>
  BY DEF CommitBarrier
<1>3. LogKept /\ Quiet
  BY <1>1 DEF LogKept, Quiet
<1>4. OwnersApart'
  BY <1>1, <1>2, OwnersKept
<1>5. LastEventIsStatus'
  BY <1>2, <1>3, LastEventKept
<1>6. status' \in [Tasks -> Statuses]
  BY <1>2 DEF IInv, TypeOK
<1> QED
  BY <1>2, <1>3, <1>4, <1>5, <1>6, TaskStep

\* What the first components and their tasks are linked to.
LEMMA FirstLinks ==
  ASSUME IInv, SubmitWorkflow
  PROVE  /\ \A k \in Keys : component'[k] # Null =>
              \E d \in Wanted(<<>>) : d.key = k /\ component'[k] = Link(d)
         /\ \A t \in Tasks : owner'[t] # Null =>
              \E d \in Wanted(<<>>) : /\ status[d.task] = "ABSENT" /\ d.task = t
                                     /\ owner'[t] = OwnerFor(d)
         /\ \A d \in Wanted(<<>>) : component'[d.key] = Link(d)
<1> DEFINE first == Wanted(<<>>)
           fresh == {d \in first : status[d.task] = "ABSENT"}
<1>1. /\ flow.status = "NONE" /\ flow' = [flow EXCEPT !.status = "ACTIVE"]
      /\ \A d, e \in first : d.key = e.key \/ d.task = e.task => d = e
      /\ UNCHANGED <<log, passVars, failures>>
  BY DEF SubmitWorkflow
<1>2. /\ component' = [k \in Keys |->
           IF \E d \in first : d.key = k THEN Link(CHOOSE d \in first : d.key = k) ELSE Null]
      /\ status' = [t \in Tasks |->
           IF \E d \in fresh : d.task = t THEN "PENDING" ELSE status[t]]
      /\ owner' = [t \in Tasks |->
           IF \E d \in fresh : d.task = t THEN OwnerFor(CHOOSE d \in fresh : d.task = t)
                                          ELSE owner[t]]
  BY EnterFirst DEF SubmitWorkflow
<1>3. \A t \in Tasks : owner[t] = Null
  BY <1>1 DEF IInv, Unborn
<1>4. first \subseteq Components /\ \A d \in first : d.key \in Keys /\ d.task \in Tasks
                                                   /\ d.generation \in Generations
  BY DEF Wanted, Components
<1>5. ASSUME NEW k \in Keys, component'[k] # Null
      PROVE  \E d \in first : d.key = k /\ component'[k] = Link(d)
  <2>1. \E d \in first : d.key = k
    BY <1>2, <1>5
  <2>2. (CHOOSE d \in first : d.key = k) \in first /\ (CHOOSE d \in first : d.key = k).key = k
    BY <2>1
  <2> QED
    BY <1>2, <2>1, <2>2
<1>6. ASSUME NEW t \in Tasks, owner'[t] # Null
      PROVE  \E d \in fresh : d.task = t /\ owner'[t] = OwnerFor(d)
  <2>1. \E d \in fresh : d.task = t
    BY <1>2, <1>3, <1>6
  <2>2. (CHOOSE d \in fresh : d.task = t) \in fresh /\ (CHOOSE d \in fresh : d.task = t).task = t
    BY <2>1
  <2> QED
    BY <1>2, <2>1, <2>2
<1>7. ASSUME NEW d \in first
      PROVE  component'[d.key] = Link(d)
  <2>1. d.key \in Keys /\ \E e \in first : e.key = d.key
    BY <1>4
  <2>2. (CHOOSE e \in first : e.key = d.key) = d
    BY <1>1, <2>1
  <2> QED
    BY <1>2, <2>1, <2>2
<1> QED
  BY <1>5, <1>6, <1>7

\* Components and tasks are linked for the first time.
LEMMA SubmitWorkflowStep ==
  ASSUME IInv, SubmitWorkflow
  PROVE  IInv'
<1> DEFINE first == Wanted(<<>>)
           fresh == {d \in first : status[d.task] = "ABSENT"}
<1>1. /\ flow.status = "NONE" /\ flow' = [flow EXCEPT !.status = "ACTIVE"]
      /\ \A d, e \in first : d.key = e.key \/ d.task = e.task => d = e
      /\ UNCHANGED <<log, passVars, failures>>
  BY DEF SubmitWorkflow
<1>2. /\ component' = [k \in Keys |->
           IF \E d \in first : d.key = k THEN Link(CHOOSE d \in first : d.key = k) ELSE Null]
      /\ status' = [t \in Tasks |->
           IF \E d \in fresh : d.task = t THEN "PENDING" ELSE status[t]]
      /\ owner' = [t \in Tasks |->
           IF \E d \in fresh : d.task = t THEN OwnerFor(CHOOSE d \in fresh : d.task = t)
                                          ELSE owner[t]]
  BY EnterFirst DEF SubmitWorkflow
<1>3. \A t \in Tasks : owner[t] = Null
  BY <1>1 DEF IInv, Unborn
<1>4. first \subseteq Components /\ \A d \in first : d.key \in Keys /\ d.task \in Tasks
                                                   /\ d.generation \in Generations
  BY DEF Wanted, Components
<1>5. \A k \in Keys : component'[k] # Null => \E d \in first : d.key = k /\ component'[k] = Link(d)
  BY FirstLinks
<1>6. \A t \in Tasks : owner'[t] # Null => \E d \in fresh : d.task = t /\ owner'[t] = OwnerFor(d)
  BY FirstLinks
<1>7. \A d \in first : component'[d.key] = Link(d)
  BY FirstLinks
<1>8. \A d \in Components : Link(d) \in [generation : Generations, task : Tasks] /\ Link(d) # Null
                            /\ OwnerFor(d) \in Owners /\ OwnerFor(d) # Null
  BY NullAssumption DEF Components, Link, Owners, OwnerFor
<1>9. TypeOK'
  <2>1. status' \in [Tasks -> Statuses]
    BY <1>2 DEF IInv, TypeOK, Statuses
  <2>2. owner' \in [Tasks -> Owners \cup {Null}]
    BY <1>2, <1>3, <1>4, <1>6, <1>8
  <2>3. component' \in [Keys -> [generation : Generations, task : Tasks] \cup {Null}]
    BY <1>2, <1>4, <1>5, <1>8
  <2> QED
    BY <1>1, <2>1, <2>2, <2>3 DEF IInv, TypeOK, passVars
<1>10. Unborn'
  BY <1>1 DEF IInv, TypeOK, Unborn
<1>11. StateIsReplay'
  <2>1. flow'.state = flow.state /\ flow'.cursor = flow.cursor
    BY <1>1 DEF IInv, TypeOK
  <2> QED
    BY <1>1, <2>1, ReplayKept DEF LogKept, passVars
<1>12. OwnersApart'
  <2>1. ASSUME NEW t \in Tasks, owner'[t] # Null
        PROVE  /\ owner'[t].key \in Linked'
               /\ owner'[t].generation <= component'[owner'[t].key].generation
    <3>1. PICK d \in fresh : d.task = t /\ owner'[t] = OwnerFor(d)
      BY <1>6, <2>1
    <3>2. owner'[t].key = d.key /\ owner'[t].generation = d.generation /\ d \in Components
      <4>1. OwnerFor(d).key = d.key /\ OwnerFor(d).generation = d.generation
        BY DEF OwnerFor
      <4> QED
        BY <1>4, <3>1, <4>1
    <3>3. component'[d.key] = Link(d) /\ d.key \in Keys
      BY <1>4, <1>7
    <3>4. d.generation <= d.generation
      <4>1. d.generation \in Nat
        BY <1>4, WorkflowAssumption
      <4> QED
        BY <4>1
    <3>5. Link(d).generation = d.generation /\ Link(d) # Null
      BY <1>8, <3>2 DEF Link
    <3>6. owner'[t].key \in Linked'
      BY <3>2, <3>3, <3>5 DEF Linked
    <3> QED
      BY <3>2, <3>3, <3>4, <3>5, <3>6
  <2>2. ASSUME NEW t \in Tasks, NEW u \in Tasks, owner'[t] = owner'[u], owner'[t] # Null
        PROVE  t = u
    <3>1. PICK d \in fresh : d.task = t /\ owner'[t] = OwnerFor(d)
      BY <1>6, <2>2
    <3>2. PICK e \in fresh : e.task = u /\ owner'[u] = OwnerFor(e)
      BY <1>6, <2>2
    <3>3. OwnerFor(d).key = d.key /\ OwnerFor(e).key = e.key
      BY DEF OwnerFor
    <3>4. d.key = e.key
      BY <2>2, <3>1, <3>2, <3>3
    <3> QED
      BY <1>1, <3>1, <3>2, <3>4
  <2>3. \A i \in DOMAIN log : log[i].kind = "BarrierCommitted"
    <3>1. ASSUME NEW i \in DOMAIN log, log[i].kind # "BarrierCommitted" PROVE FALSE
      <4>1. PICK t \in Tasks : owner[t] = [key |-> log[i].key, generation |-> log[i].generation]
        BY <3>1 DEF IInv, OwnersApart
      <4>2. log[i] \in TaskEvents
        BY <3>1 DEF IInv, TypeOK, Events, BarrierEvents
      <4>3. owner[t] \in Owners
        BY <4>1, <4>2 DEF TaskEvents, Owners
      <4> QED
        BY <1>3, <4>3, NullAssumption
    <3> QED
      BY <3>1
  <2> QED
    BY <1>1, <2>1, <2>2, <2>3 DEF OwnersApart
<1>13. LinkedPresent'
  <2> SUFFICES ASSUME NEW k \in Linked' PROVE status'[TaskOf(k)'] # "ABSENT"
    BY DEF LinkedPresent
  <2>1. PICK d \in first : d.key = k /\ component'[k] = Link(d)
    BY <1>5 DEF Linked
  <2>2. TaskOf(k)' = d.task /\ d.task \in Tasks
    BY <1>4, <2>1 DEF TaskOf, Link
  <2> QED
    BY <1>2, <2>2
<1>14. LastEventIsStatus'
  <2> SUFFICES ASSUME NEW t \in Tasks, owner'[t] # Null
               PROVE  EventsOf(owner[t])' = {} /\ status'[t] = "PENDING"
    BY DEF LastEventIsStatus
  <2>1. status'[t] = "PENDING"
    BY <1>2, <1>6
  <2>2. ASSUME NEW i \in DOMAIN log, Tells(log[i], owner'[t]) PROVE FALSE
    <3>1. PICK u \in Tasks : owner[u] = [key |-> log[i].key, generation |-> log[i].generation]
      BY <2>2 DEF IInv, OwnersApart, Tells
    <3>2. log[i] \in TaskEvents
      BY <2>2 DEF IInv, TypeOK, Events, BarrierEvents, Tells
    <3>3. owner[u] \in Owners
      BY <3>1, <3>2 DEF TaskEvents, Owners
    <3> QED
      BY <1>3, <3>3, NullAssumption
  <2>3. EventsOf(owner[t])' = {}
    BY <1>1, <2>2 DEF EventsOf
  <2> QED
    BY <2>1, <2>3
<1>15. OnlyDesired'
  <2>1. /\ 0 \in 0..Len(log) /\ SubSeq(log, 1, 0) = <<>>
    BY SubSeqEmpty DEF IInv, TypeOK
  <2>2. ASSUME NEW d \in first PROVE DesiredOnce(d)'
    BY <1>1, <2>1 DEF DesiredOnce, Wanted
  <2>3. ASSUME NEW k \in Linked'
        PROVE  DesiredOnce([key |-> k, generation |-> component[k].generation,
                            task |-> TaskOf(k)])'
    <3>1. PICK d \in first : d.key = k /\ component'[k] = Link(d)
      BY <1>5 DEF Linked
    <3>2. d = [key |-> k, generation |-> component'[k].generation, task |-> component'[k].task]
      BY <1>4, <3>1 DEF Components, Link
    <3> QED
      BY <2>2, <3>2 DEF TaskOf
  <2>4. ASSUME NEW t \in Tasks, owner'[t] # Null
        PROVE  DesiredOnce([key |-> owner[t].key, generation |-> owner[t].generation,
                            task |-> t])'
    <3>1. PICK d \in fresh : d.task = t /\ owner'[t] = OwnerFor(d)
      BY <1>6, <2>4
    <3>2. d = [key |-> owner'[t].key, generation |-> owner'[t].generation, task |-> t]
      BY <1>4, <3>1 DEF Components, OwnerFor
    <3> QED
      BY <2>2, <3>1, <3>2
  <2>5. ASSUME NEW c \in Controllers, NEW d \in todo'[c] PROVE DesiredOnce(d)'
    <3>1. DesiredOnce(d)
      BY <1>1, <2>5 DEF IInv, OnlyDesired, passVars
    <3> QED
      BY <1>1, <3>1 DEF DesiredOnce
  <2> QED
    BY <2>3, <2>4, <2>5 DEF OnlyDesired
<1> QED
  BY <1>9, <1>10, <1>11, <1>12, <1>13, <1>14, <1>15 DEF IInv

\* What replacing a component does to its row and to its task's; no other task has the new
\* owner.
LEMMA ReplaceLinks ==
  ASSUME IInv, NEW c \in Controllers, NEW d \in todo[c], Replace(c, d), Newer(d)
  PROVE  /\ d \in Components /\ d.key \in Keys /\ d.task \in Tasks /\ d.generation \in Generations
         /\ Link(d) \in [generation : Generations, task : Tasks] /\ Link(d) # Null
         /\ Link(d).generation = d.generation /\ Link(d).task = d.task
         /\ OwnerFor(d) \in Owners /\ OwnerFor(d) # Null
         /\ OwnerFor(d).generation = d.generation /\ OwnerFor(d).key = d.key
         /\ component'[d.key] = Link(d)
         /\ \A k \in Keys : k # d.key => component'[k] = component[k]
         /\ \A t \in Tasks :
              \/ owner'[t] = owner[t] /\ status'[t] = status[t]
              \/ /\ t = d.task /\ owner[t] = Null
                 /\ owner'[t] = OwnerFor(d) /\ status'[t] = "PENDING"
         /\ \A t \in Tasks : owner[t] # OwnerFor(d)
<1>1. /\ at[c] = "replace"
      /\ CanLink(d) /\ Insert(d)
      /\ component' = [component EXCEPT ![d.key] = Link(d)]
      /\ todo' = [todo EXCEPT ![c] = @ \ {d}]
      /\ UNCHANGED <<log, flow, at, copy, failures>>
  BY DEF Replace
<1>2. d \in Components
  BY DEF IInv, TypeOK
<1>3. d.key \in Keys /\ d.task \in Tasks /\ d.generation \in Generations
  BY <1>2 DEF Components
<1>4. /\ Link(d) \in [generation : Generations, task : Tasks] /\ Link(d) # Null
      /\ Link(d).generation = d.generation /\ Link(d).task = d.task
      /\ OwnerFor(d) \in Owners /\ OwnerFor(d) # Null
      /\ OwnerFor(d).generation = d.generation /\ OwnerFor(d).key = d.key
  BY <1>3, NullAssumption DEF Link, Owners, OwnerFor
<1>5. /\ component'[d.key] = Link(d)
      /\ \A k \in Keys : k # d.key => component'[k] = component[k]
  BY <1>1, <1>3 DEF IInv, TypeOK
<1>6. \/ /\ status[d.task] = "ABSENT"
         /\ status' = [status EXCEPT ![d.task] = "PENDING"]
         /\ owner' = [owner EXCEPT ![d.task] = OwnerFor(d)]
      \/ /\ status[d.task] # "ABSENT"
         /\ UNCHANGED <<status, owner>>
  BY <1>1, <1>3, EnterOne DEF Insert
<1>7. \A t \in Tasks :
        \/ owner'[t] = owner[t] /\ status'[t] = status[t]
        \/ /\ t = d.task /\ owner[t] = Null
           /\ owner'[t] = OwnerFor(d) /\ status'[t] = "PENDING"
  <2>1. status[d.task] = "ABSENT" => owner[d.task] = Null
    BY <1>3, WaitingHasNoEvents DEF Waiting
  <2> QED
    BY <1>3, <1>6, <2>1 DEF IInv, TypeOK
<1>8. ASSUME NEW t \in Tasks, owner[t] = OwnerFor(d) PROVE FALSE
  <2>1. d.key \in Linked /\ d.generation <= component[d.key].generation
    BY <1>4, <1>8 DEF IInv, OwnersApart
  <2>2. d.generation > component[d.key].generation
    BY <2>1 DEF Newer
  <2>3. component[d.key].generation \in Nat /\ d.generation \in Nat
    BY <1>3, <2>1, WorkflowAssumption DEF IInv, TypeOK, Linked
  <2> QED
    BY <2>1, <2>2, <2>3
<1> QED
  BY <1>2, <1>3, <1>4, <1>5, <1>7, <1>8

\* A component and its task are replaced by what the pass once desired.
LEMMA ReplaceStep ==
  ASSUME IInv, NEW c \in Controllers, NEW d \in todo[c], Replace(c, d), Newer(d)
  PROVE  IInv'
<1>1. /\ at[c] = "replace"
      /\ CanLink(d) /\ Insert(d)
      /\ component' = [component EXCEPT ![d.key] = Link(d)]
      /\ todo' = [todo EXCEPT ![c] = @ \ {d}]
      /\ UNCHANGED <<log, flow, at, copy, failures>>
  BY DEF Replace
<1>2. d \in Components
  BY ReplaceLinks
<1>3. d.key \in Keys /\ d.task \in Tasks /\ d.generation \in Generations
  BY ReplaceLinks
<1>4. /\ Link(d) \in [generation : Generations, task : Tasks] /\ Link(d) # Null
      /\ Link(d).generation = d.generation /\ Link(d).task = d.task
      /\ OwnerFor(d) \in Owners /\ OwnerFor(d) # Null
      /\ OwnerFor(d).generation = d.generation /\ OwnerFor(d).key = d.key
  BY ReplaceLinks
<1>5. /\ component'[d.key] = Link(d)
      /\ \A k \in Keys : k # d.key => component'[k] = component[k]
  BY ReplaceLinks
<1>6. \/ /\ status[d.task] = "ABSENT"
         /\ status' = [status EXCEPT ![d.task] = "PENDING"]
         /\ owner' = [owner EXCEPT ![d.task] = OwnerFor(d)]
      \/ /\ status[d.task] # "ABSENT"
         /\ UNCHANGED <<status, owner>>
  BY <1>1, <1>3, EnterOne DEF Insert
<1>7. \A t \in Tasks :
        \/ owner'[t] = owner[t] /\ status'[t] = status[t]
        \/ /\ t = d.task /\ owner[t] = Null
           /\ owner'[t] = OwnerFor(d) /\ status'[t] = "PENDING"
  BY ReplaceLinks
<1>8. ASSUME NEW t \in Tasks, owner[t] = OwnerFor(d) PROVE FALSE
  BY <1>8, ReplaceLinks
<1>9. TypeOK'
  <2>1. /\ status \in [Tasks -> Statuses] /\ owner \in [Tasks -> Owners \cup {Null}]
        /\ "PENDING" \in Statuses
    BY DEF IInv, TypeOK, Statuses
  <2>2. status' \in [Tasks -> Statuses] /\ owner' \in [Tasks -> Owners \cup {Null}]
    BY <1>3, <1>4, <1>6, <2>1
  <2>3. component' \in [Keys -> [generation : Generations, task : Tasks] \cup {Null}]
    BY <1>1, <1>3, <1>4 DEF IInv, TypeOK
  <2>4. todo' \in [Controllers -> SUBSET Components]
    BY <1>1 DEF IInv, TypeOK
  <2> QED
    BY <1>1, <2>2, <2>3, <2>4 DEF IInv, TypeOK
<1>10. Unborn'
  <2>1. flow.status # "NONE"
    BY <1>1 DEF IInv, Unborn
  <2> QED
    BY <1>1, <2>1 DEF Unborn
<1>11. StateIsReplay'
  BY <1>1, ReplayKept DEF LogKept
<1>12. OwnersApart'
  <2>1. ASSUME NEW t \in Tasks, owner'[t] # Null
        PROVE  /\ owner'[t].key \in Linked'
               /\ owner'[t].generation <= component'[owner'[t].key].generation
    <3>1. CASE owner'[t] = owner[t]
      <4> DEFINE k == owner[t].key
      <4>1. k \in Linked /\ owner[t].generation <= component[k].generation
        BY <2>1, <3>1 DEF IInv, OwnersApart
      <4>2. k \in Keys /\ component[k].generation \in Nat
        BY <4>1, WorkflowAssumption DEF IInv, TypeOK, Linked
      <4>3. owner[t].generation \in Nat
        BY <2>1, <3>1, WorkflowAssumption DEF IInv, TypeOK, Owners
      <4>4. CASE k = d.key
        <5>1. d.generation > component[k].generation /\ d.generation \in Nat
          BY <1>3, <4>1, <4>4, WorkflowAssumption DEF Newer
        <5>2. owner[t].generation <= d.generation
          BY <4>1, <4>2, <4>3, <5>1
        <5> QED
          BY <1>3, <1>4, <1>5, <3>1, <4>4, <5>2 DEF Linked
      <4>5. CASE k # d.key
        BY <1>5, <3>1, <4>1, <4>2, <4>5 DEF Linked
      <4> QED
        BY <4>4, <4>5
    <3>2. CASE owner'[t] = OwnerFor(d)
      <4>1. d.generation \in Nat
        BY <1>3, WorkflowAssumption
      <4>2. d.generation <= d.generation
        BY <4>1
      <4>3. owner'[t].key = d.key /\ owner'[t].generation = d.generation
        BY <1>4, <3>2
      <4>4. component'[d.key].generation = d.generation /\ d.key \in Linked'
        BY <1>3, <1>4, <1>5 DEF Linked
      <4> QED
        BY <4>2, <4>3, <4>4
    <3> QED
      BY <1>7, <3>1, <3>2
  <2>2. ASSUME NEW t \in Tasks, NEW u \in Tasks, owner'[t] = owner'[u], owner'[t] # Null
        PROVE  t = u
    <3>1. CASE owner'[t] = owner[t] /\ owner'[u] = owner[u]
      BY <2>2, <3>1 DEF IInv, OwnersApart
    <3> QED
      BY <1>7, <1>8, <2>2, <3>1
  <2>3. ASSUME NEW i \in DOMAIN log, log[i].kind # "BarrierCommitted"
        PROVE  \E t \in Tasks : owner'[t] = [key |-> log[i].key, generation |-> log[i].generation]
    <3>1. PICK t \in Tasks : owner[t] = [key |-> log[i].key, generation |-> log[i].generation]
      BY <2>3 DEF IInv, OwnersApart
    <3>2. log[i] \in TaskEvents
      BY <2>3 DEF IInv, TypeOK, Events, BarrierEvents
    <3>3. owner[t] # Null
      BY <3>1, <3>2, NullAssumption DEF TaskEvents, Owners
    <3> QED
      BY <1>7, <3>1, <3>3
  <2> QED
    BY <1>1, <2>1, <2>2, <2>3 DEF OwnersApart
<1>13. LinkedPresent'
  <2> SUFFICES ASSUME NEW k \in Linked' PROVE status'[TaskOf(k)'] # "ABSENT"
    BY DEF LinkedPresent
  <2>1. CASE k = d.key
    BY <1>3, <1>4, <1>5, <1>6, <2>1 DEF IInv, TypeOK, TaskOf
  <2>2. CASE k # d.key
    <3>1. k \in Linked /\ TaskOf(k)' = TaskOf(k) /\ TaskOf(k) \in Tasks
      BY <1>5, <2>2 DEF IInv, TypeOK, Linked, TaskOf
    <3> QED
      BY <1>7, <3>1 DEF IInv, LinkedPresent
  <2> QED
    BY <2>1, <2>2
<1>14. LastEventIsStatus'
  <2> SUFFICES ASSUME NEW t \in Tasks, owner'[t] # Null
               PROVE  IF EventsOf(owner[t])' = {}
                      THEN status'[t] \in {"PENDING", "SUBMITTING", "SUBMITTED"}
                      ELSE \E i \in EventsOf(owner[t])' :
                             /\ \A j \in EventsOf(owner[t])' : j <= i
                             /\ log'[i].kind = status'[t]
    BY DEF LastEventIsStatus
  <2>1. CASE owner'[t] = owner[t] /\ status'[t] = status[t]
    BY <1>1, <2>1 DEF IInv, LastEventIsStatus, EventsOf
  <2>2. CASE owner'[t] = OwnerFor(d) /\ status'[t] = "PENDING"
    <3>1. ASSUME NEW i \in DOMAIN log, Tells(log[i], OwnerFor(d)) PROVE FALSE
      <4>1. PICK u \in Tasks : owner[u] = [key |-> log[i].key, generation |-> log[i].generation]
        BY <3>1 DEF IInv, OwnersApart, Tells
      <4>2. owner[u] = OwnerFor(d)
        BY <1>4, <3>1, <4>1 DEF Tells, OwnerFor
      <4> QED
        BY <1>8, <4>2
    <3>2. EventsOf(owner[t])' = {}
      BY <1>1, <2>2, <3>1 DEF EventsOf
    <3> QED
      BY <2>2, <3>2
  <2> QED
    BY <1>7, <2>1, <2>2
<1>15. OnlyDesired'
  <2>1. \A e : DesiredOnce(e) => DesiredOnce(e)'
    BY <1>1 DEF DesiredOnce
  <2>2. DesiredOnce(d)
    BY DEF IInv, OnlyDesired
  <2>3. ASSUME NEW k \in Linked'
        PROVE  DesiredOnce([key |-> k, generation |-> component[k].generation,
                            task |-> TaskOf(k)])'
    <3>1. CASE k = d.key
      <4>1. d = [key |-> k, generation |-> component'[k].generation, task |-> component'[k].task]
        BY <1>2, <1>4, <1>5, <3>1 DEF Components
      <4> QED
        BY <2>1, <2>2, <4>1 DEF TaskOf
    <3>2. CASE k # d.key
      <4>1. k \in Linked /\ component'[k] = component[k]
        BY <1>5, <3>2 DEF Linked
      <4> QED
        BY <2>1, <4>1 DEF IInv, OnlyDesired, TaskOf
    <3> QED
      BY <3>1, <3>2
  <2>4. ASSUME NEW t \in Tasks, owner'[t] # Null
        PROVE  DesiredOnce([key |-> owner[t].key, generation |-> owner[t].generation,
                            task |-> t])'
    <3>1. CASE owner'[t] = owner[t]
      BY <2>1, <2>4, <3>1 DEF IInv, OnlyDesired
    <3>2. CASE t = d.task /\ owner'[t] = OwnerFor(d)
      <4>1. d = [key |-> owner'[t].key, generation |-> owner'[t].generation, task |-> t]
        BY <1>2, <1>4, <3>2 DEF Components
      <4> QED
        BY <2>1, <2>2, <4>1
    <3> QED
      BY <1>7, <3>1, <3>2
  <2>5. ASSUME NEW e \in Controllers, NEW f \in todo'[e] PROVE DesiredOnce(f)'
    <3>1. f \in todo[e]
      BY <1>1, <2>5 DEF IInv, TypeOK
    <3> QED
      BY <2>1, <3>1 DEF IInv, OnlyDesired
  <2> QED
    BY <2>3, <2>4, <2>5 DEF OnlyDesired
<1> QED
  BY <1>9, <1>10, <1>11, <1>12, <1>13, <1>14, <1>15 DEF IInv

\* A pass that ends leaves nothing behind but what it has written.
LEMMA LeaveStep ==
  ASSUME IInv, NEW c \in Controllers, Leave(c), UNCHANGED <<taskVars, component>>,
         flow'.state = flow.state, flow'.cursor = flow.cursor, flow'.status # "NONE",
         flow' \in [status : {"NONE", "ACTIVE"} \cup Verdicts,
                    state : Seq(Events), cursor : Nat],
         failures' \in 0..MaxFailures
  PROVE  IInv'
<1> USE DEF taskVars
<1>1. /\ at' = [at EXCEPT ![c] = "idle"]
      /\ copy' = [copy EXCEPT ![c] = NoEvents]
      /\ todo' = [todo EXCEPT ![c] = {}]
  BY DEF Leave, Goto
<1>2. TypeOK'
  <2>1. NoEvents \in [state : Seq(Events), cursor : Nat]
    BY DEF NoEvents
  <2>2. at' \in [Controllers -> Places]
    BY <1>1 DEF IInv, TypeOK, Places
  <2>3. copy' \in [Controllers -> [state : Seq(Events), cursor : Nat]]
    BY <1>1, <2>1 DEF IInv, TypeOK
  <2>4. todo' \in [Controllers -> SUBSET Components]
    BY <1>1 DEF IInv, TypeOK
  <2> QED
    BY <2>2, <2>3, <2>4 DEF IInv, TypeOK
<1>3. \A e \in Controllers : copy'[e] \in {copy[e], NoEvents}
  BY <1>1 DEF IInv, TypeOK
<1>4. StateIsReplay'
  BY <1>3, ReplayKept DEF LogKept
<1>5. \A e \in Controllers : \A d \in todo'[e] : DesiredOnce(d)
  BY <1>1 DEF IInv, TypeOK, OnlyDesired
<1> QED
  BY <1>2, <1>4, <1>5, PassStep

\* Where a pass is, the workflow has been submitted.
LEMMA Submitted ==
  ASSUME IInv, NEW c \in Controllers, at[c] # "idle"
  PROVE  flow.status # "NONE"
BY DEF IInv, Unborn

\* The pass starts from the stored state and cursor.
LEMMA ReadWorkflowStep ==
  ASSUME IInv, NEW c \in Controllers, ReadWorkflow(c)
  PROVE  IInv'
<1>1. /\ flow.status = "ACTIVE"
      /\ copy' = [copy EXCEPT ![c] = [state |-> flow.state, cursor |-> flow.cursor]]
      /\ at' = [at EXCEPT ![c] = "events"]
      /\ UNCHANGED <<taskVars, component, flow, todo, failures>>
  BY DEF ReadWorkflow, Reconcilable, Goto
<1>2. TypeOK'
  <2>1. copy' \in [Controllers -> [state : Seq(Events), cursor : Nat]]
    BY <1>1 DEF IInv, TypeOK
  <2>2. at' \in [Controllers -> Places]
    BY <1>1 DEF IInv, TypeOK, Places
  <2> QED
    BY <1>1, <2>1, <2>2 DEF IInv, TypeOK, taskVars
<1>3. StateIsReplay'
  <2>1. \A e \in Controllers :
          \/ copy'[e] = copy[e]
          \/ copy'[e] = [state |-> flow.state, cursor |-> flow.cursor]
    BY <1>1 DEF IInv, TypeOK
  <2> QED
    BY <1>1, <2>1 DEF IInv, StateIsReplay, IsReplay, taskVars
<1>4. \A e \in Controllers : \A d \in todo'[e] : DesiredOnce(d)
  BY <1>1 DEF IInv, OnlyDesired
<1> QED
  BY <1>1, <1>2, <1>3, <1>4, PassStep

\* The rest of the log after a replay makes the replay of the whole log.
LEMMA Replayed ==
  ASSUME TypeOK, NEW n \in 0..Len(log)
  PROVE  /\ SubSeq(log, 1, n) \o EventsAfter(n) = SubSeq(log, 1, Len(log))
         /\ n + Len(EventsAfter(n)) = Len(log)
         /\ SubSeq(log, 1, Len(log)) \in Seq(Events)
         /\ EventsAfter(n) \in Seq(Events)
<1>1. log \in Seq(Events) /\ Len(log) \in Nat
  BY DEF TypeOK
<1>2. 1 \in 1 .. Len(log) + 1 /\ n \in 1 - 1 .. Len(log) /\ Len(log) \in n .. Len(log)
  BY <1>1
<1>3. SubSeq(log, 1, n) \o SubSeq(log, n + 1, Len(log)) = SubSeq(log, 1, Len(log))
  BY <1>1, <1>2, ConcatAdjacentSubSeq
<1>4. /\ n + 1 \in Int /\ Len(log) \in Int
      /\ \A i \in n + 1 .. Len(log) : log[i] \in Events
  BY <1>1
<1>5. /\ EventsAfter(n) \in Seq(Events)
      /\ Len(EventsAfter(n)) = IF n + 1 <= Len(log) THEN Len(log) - (n + 1) + 1 ELSE 0
  BY <1>4, SubSeqProperties DEF EventsAfter
<1>6. SubSeq(log, 1, Len(log)) = log
  BY <1>1, SubSeqFull
<1>7. n + Len(EventsAfter(n)) = Len(log)
  BY <1>1, <1>5
<1> QED
  BY <1>1, <1>3, <1>5, <1>6, <1>7 DEF EventsAfter

\* The pass reduces the rest of the log.
LEMMA ReadEventsStep ==
  ASSUME IInv, NEW c \in Controllers, ReadEvents(c)
  PROVE  IInv'
<1> DEFINE n == copy[c].cursor
           all == SubSeq(log, 1, Len(log))
<1>1. /\ at[c] = "events"
      /\ copy' = [copy EXCEPT ![c] = [state |-> copy[c].state \o EventsAfter(n),
                                      cursor |-> n + Len(EventsAfter(n))]]
      /\ at' = [at EXCEPT ![c] = "components"]
      /\ UNCHANGED <<taskVars, component, flow, todo, failures>>
  BY DEF ReadEvents, Goto
<1>2. n \in 0..Len(log) /\ copy[c].state = SubSeq(log, 1, n)
  BY DEF IInv, StateIsReplay, IsReplay
<1>3. /\ copy[c].state \o EventsAfter(n) = all
      /\ n + Len(EventsAfter(n)) = Len(log)
      /\ all \in Seq(Events)
  BY <1>2, Replayed DEF IInv
<1>4. copy' = [copy EXCEPT ![c] = [state |-> all, cursor |-> Len(log)]]
  BY <1>1, <1>3
<1>5. Len(log) \in Nat /\ Len(log) \in 0..Len(log)
  BY DEF IInv, TypeOK
<1>6. TypeOK'
  <2>1. copy' \in [Controllers -> [state : Seq(Events), cursor : Nat]]
    BY <1>3, <1>4, <1>5 DEF IInv, TypeOK
  <2>2. at' \in [Controllers -> Places]
    BY <1>1 DEF IInv, TypeOK, Places
  <2> QED
    BY <1>1, <2>1, <2>2 DEF IInv, TypeOK, taskVars
<1>7. StateIsReplay'
  <2>1. \A e \in Controllers :
          copy'[e] = copy[e] \/ copy'[e] = [state |-> all, cursor |-> Len(log)]
    BY <1>4 DEF IInv, TypeOK
  <2>2. UNCHANGED <<log, flow>>
    BY <1>1 DEF taskVars
  <2>3. IsReplay(flow)'
    BY <2>2 DEF IInv, StateIsReplay, IsReplay
  <2>4. ASSUME NEW e \in Controllers PROVE IsReplay(copy[e])'
    <3>1. CASE copy'[e] = copy[e]
      BY <2>2, <3>1 DEF IInv, StateIsReplay, IsReplay
    <3>2. CASE copy'[e] = [state |-> all, cursor |-> Len(log)]
      BY <1>5, <2>2, <3>2 DEF IsReplay
    <3> QED
      BY <2>1, <3>1, <3>2
  <2> QED
    BY <2>3, <2>4 DEF StateIsReplay
<1>8. \A e \in Controllers : \A d \in todo'[e] : DesiredOnce(d)
  BY <1>1 DEF IInv, OnlyDesired
<1>9. flow'.status # "NONE"
  BY <1>1, Submitted
<1> QED
  BY <1>1, <1>6, <1>7, <1>8, <1>9, PassStep

\* What the pass is to replace, the handler desired for a prefix of the log.
LEMMA ReadComponentsStep ==
  ASSUME IInv, NEW c \in Controllers, ReadComponents(c)
  PROVE  IInv'
<1>1. /\ at[c] = "components"
      /\ todo' = [todo EXCEPT ![c] =
           {d \in Wanted(copy[c].state) :
              d.key \in Linked => d.generation > TaskGeneration(TaskOf(d.key))}]
      /\ at' = [at EXCEPT ![c] = "replace"]
      /\ UNCHANGED <<taskVars, component, flow, copy, failures>>
  BY DEF ReadComponents, Goto
<1>2. \A e \in Controllers :
        todo'[e] = todo[e] \/ (e = c /\ todo'[e] \subseteq Wanted(copy[c].state))
  BY <1>1 DEF IInv, TypeOK
<1>3. TypeOK'
  <2>1. todo' \in [Controllers -> SUBSET Components]
    BY <1>1 DEF IInv, TypeOK, Wanted
  <2>2. at' \in [Controllers -> Places]
    BY <1>1 DEF IInv, TypeOK, Places
  <2> QED
    BY <1>1, <2>1, <2>2 DEF IInv, TypeOK, taskVars
<1>4. StateIsReplay'
  BY <1>1 DEF IInv, StateIsReplay, IsReplay, taskVars
<1>5. ASSUME NEW d \in Wanted(copy[c].state) PROVE DesiredOnce(d)
  <2>1. copy[c].cursor \in 0..Len(log) /\ copy[c].state = SubSeq(log, 1, copy[c].cursor)
    BY DEF IInv, StateIsReplay, IsReplay
  <2> QED
    BY <2>1 DEF Wanted, DesiredOnce
<1>6. \A e \in Controllers : \A d \in todo'[e] : DesiredOnce(d)
  BY <1>2, <1>5 DEF IInv, OnlyDesired
<1>7. flow'.status # "NONE"
  BY <1>1, Submitted
<1> QED
  BY <1>1, <1>3, <1>4, <1>6, <1>7, PassStep

\* The component is as new as desired by now.
LEMMA ReplaceNothingStep ==
  ASSUME IInv, NEW c \in Controllers, NEW d \in todo[c], Replace(c, d), ~Newer(d)
  PROVE  IInv'
<1>1. /\ at[c] = "replace"
      /\ todo' = [todo EXCEPT ![c] = @ \ {d}]
      /\ UNCHANGED <<taskVars, component, flow, at, copy, failures>>
  BY DEF Replace, taskVars
<1>2. TypeOK'
  <2>1. todo' \in [Controllers -> SUBSET Components]
    BY <1>1 DEF IInv, TypeOK
  <2> QED
    BY <1>1, <2>1 DEF IInv, TypeOK, taskVars
<1>3. StateIsReplay'
  BY <1>1 DEF IInv, StateIsReplay, IsReplay, taskVars
<1>4. \A e \in Controllers : \A f \in todo'[e] : DesiredOnce(f)
  BY <1>1 DEF IInv, TypeOK, OnlyDesired
<1>5. flow'.status # "NONE"
  BY <1>1, Submitted
<1> QED
  BY <1>1, <1>2, <1>3, <1>4, <1>5, PassStep

\* What is saved is a replay, whatever was stored before.
LEMMA SaveStateStep ==
  ASSUME IInv, NEW c \in Controllers, SaveState(c)
  PROVE  IInv'
<1>1. /\ at[c] = "replace"
      /\ flow' = [flow EXCEPT !.state = copy[c].state, !.cursor = copy[c].cursor]
      /\ todo' = [todo EXCEPT ![c] = {}]
      /\ at' = [at EXCEPT ![c] = "saved"]
      /\ UNCHANGED <<taskVars, component, copy, failures>>
  BY DEF SaveState, Goto
<1>2. /\ flow' \in [status : {"NONE", "ACTIVE"} \cup Verdicts,
                    state : Seq(Events), cursor : Nat]
      /\ flow'.state = copy[c].state /\ flow'.cursor = copy[c].cursor
      /\ flow'.status = flow.status
  BY <1>1 DEF IInv, TypeOK
<1>3. TypeOK'
  <2>1. todo' \in [Controllers -> SUBSET Components] /\ at' \in [Controllers -> Places]
    BY <1>1 DEF IInv, TypeOK, Places
  <2> QED
    BY <1>1, <1>2, <2>1 DEF IInv, TypeOK, taskVars
<1>4. StateIsReplay'
  BY <1>1, <1>2 DEF IInv, StateIsReplay, IsReplay, taskVars
<1>5. \A e \in Controllers : \A d \in todo'[e] : DesiredOnce(d)
  BY <1>1 DEF IInv, TypeOK, OnlyDesired
<1>6. flow'.status # "NONE"
  BY <1>1, <1>2, Submitted
<1> QED
  BY <1>1, <1>3, <1>4, <1>5, <1>6, PassStep

\* The verdict changes only where the pass is.
LEMMA DecideStep ==
  ASSUME IInv, NEW c \in Controllers, Decide(c)
  PROVE  IInv'
<1>1. /\ at[c] = "saved"
      /\ \/ Goto(c, "SUCCEEDED") /\ UNCHANGED <<copy, todo>>
         \/ Goto(c, "FAILED") /\ UNCHANGED <<copy, todo>>
         \/ Leave(c)
      /\ UNCHANGED <<taskVars, component, flow, failures>>
  BY DEF Decide
<1>2. flow.status # "NONE"
  BY <1>1, Submitted
<1>3. CASE Leave(c)
  BY <1>1, <1>2, <1>3, LeaveStep DEF IInv, TypeOK
<1>4. CASE /\ Goto(c, "SUCCEEDED") \/ Goto(c, "FAILED")
           /\ UNCHANGED <<copy, todo>>
  <2>1. at' \in [Controllers -> Places]
    BY <1>4 DEF IInv, TypeOK, Goto, Places, Verdicts
  <2>2. TypeOK'
    BY <1>1, <1>4, <2>1 DEF IInv, TypeOK, taskVars
  <2>3. StateIsReplay'
    BY <1>1, <1>4 DEF IInv, StateIsReplay, IsReplay, taskVars
  <2>4. \A e \in Controllers : \A d \in todo'[e] : DesiredOnce(d)
    BY <1>4 DEF IInv, OnlyDesired
  <2> QED
    BY <1>1, <1>2, <2>2, <2>3, <2>4, PassStep
<1> QED
  BY <1>1, <1>3, <1>4

\* The end changes the status of the workflow alone.
LEMMA FinishStep ==
  ASSUME IInv, NEW c \in Controllers, Finish(c)
  PROVE  IInv'
<1>1. /\ at[c] \in Verdicts /\ Leave(c)
      /\ flow' = [flow EXCEPT !.status = at[c]]
      /\ UNCHANGED <<taskVars, component, failures>>
  BY DEF Finish
<1>2. /\ flow' \in [status : {"NONE", "ACTIVE"} \cup Verdicts,
                    state : Seq(Events), cursor : Nat]
      /\ flow'.state = flow.state /\ flow'.cursor = flow.cursor
      /\ flow'.status # "NONE"
  BY <1>1 DEF IInv, TypeOK, Verdicts
<1> QED
  BY <1>1, <1>2, LeaveStep DEF IInv, TypeOK

\* A pass that is cut short leaves what it has written.
LEMMA CutShortStep ==
  ASSUME IInv, NEW c \in Controllers, CutShort(c)
  PROVE  IInv'
<1>1. /\ at[c] # "idle" /\ failures < MaxFailures /\ failures' = failures + 1
      /\ Leave(c) /\ UNCHANGED <<taskVars, component, flow>>
  BY DEF CutShort
<1>2. failures' \in 0..MaxFailures
  BY <1>1, WorkflowAssumption DEF IInv, TypeOK
<1>3. flow.status # "NONE"
  BY <1>1, Submitted
<1> QED
  BY <1>1, <1>2, <1>3, LeaveStep DEF IInv, TypeOK

\* observe_job and fail_task, whatever the status was before.
LEMMA ObserveStep ==
  ASSUME IInv, NEW t \in Tasks, NEW s \in Observed, Observe(t, s)
  PROVE  IInv'
<1>1. /\ Become(t, s) /\ LogEvent(t, s)
      /\ UNCHANGED <<owner, component, flow, passVars, failures>>
  BY DEF Observe, ObserveTask
<1> QED
  BY <1>1, WriteStep

\* A failed task says so in the log.
LEMMA FailStep ==
  ASSUME IInv, NEW t \in Tasks, Fail(t)
  PROVE  IInv'
<1>1. /\ Become(t, "FAILED") /\ LogEvent(t, "FAILED")
      /\ UNCHANGED <<owner, component, flow, passVars, failures>>
  BY DEF Fail, FailTask
<1>2. "FAILED" \in Observed
  BY DEF Observed, Ended
<1> QED
  BY <1>1, <1>2, WriteStep

\* One case per action.
LEMMA ReconcileStep ==
  ASSUME IInv, NEW c \in Controllers, Reconcile(c)
  PROVE  IInv'
<1>1. ASSUME NEW d \in todo[c], ReplaceFails(c, d) PROVE IInv'
  <2>1. /\ at[c] = "replace" /\ Leave(c)
        /\ UNCHANGED <<taskVars, component, flow, failures>>
    BY <1>1 DEF ReplaceFails
  <2>2. flow.status # "NONE"
    BY <2>1, Submitted
  <2> QED
    BY <2>1, <2>2, LeaveStep DEF IInv, TypeOK
<1>2. ASSUME NEW d \in todo[c], Replace(c, d) PROVE IInv'
  BY <1>2, ReplaceStep, ReplaceNothingStep
<1> QED
  BY <1>1, <1>2, ReadWorkflowStep, ReadEventsStep, ReadComponentsStep,
     SaveStateStep, DecideStep, FinishStep DEF Reconcile

\* Every step keeps the invariant.
LEMMA NextStep == IInv /\ [Next]_vars => IInv'
<1> SUFFICES ASSUME IInv, [Next]_vars PROVE IInv'
  OBVIOUS
<1>1. CASE SubmitWorkflow
  BY <1>1, SubmitWorkflowStep
<1>2. ASSUME NEW t \in Tasks, SubmitTask(t) \/ MoveTask(t) \/ Fail(t) PROVE IInv'
  BY <1>2, SubmitTaskStep, MoveTaskStep, FailStep
<1>3. ASSUME NEW t \in Tasks, NEW s \in Observed, Observe(t, s) PROVE IInv'
  BY <1>3, ObserveStep
<1>4. ASSUME NEW b \in Barriers, CommitBarrier(b) PROVE IInv'
  BY <1>4, CommitBarrierStep
<1>5. ASSUME NEW c \in Controllers, Reconcile(c) \/ CutShort(c) PROVE IInv'
  BY <1>5, ReconcileStep, CutShortStep
<1>6. CASE UNCHANGED vars
  <2>1. UNCHANGED <<status, owner, component, log, flow, at, copy, todo, failures>>
    BY <1>6 DEF vars, taskVars, passVars
  <2>2. UNCHANGED <<Linked, Rows>> /\ \A k \in Keys : TaskOf(k)' = TaskOf(k)
    BY <2>1 DEF Linked, Rows, TaskOf, TaskGeneration
  <2>3. TypeOK' /\ Unborn'
    BY <2>1 DEF IInv, TypeOK, Unborn
  <2>4. StateIsReplay'
    BY <2>1 DEF IInv, StateIsReplay, IsReplay
  <2>5. OwnersApart' /\ LinkedPresent'
    <3>1. OwnersApart'
      BY <2>1, OwnersKept
    <3>2. \A k \in Linked : k \in Keys
      BY DEF Linked
    <3> QED
      BY <2>1, <2>2, <3>1, <3>2 DEF IInv, LinkedPresent
  <2>6. LastEventIsStatus'
    BY <2>1 DEF IInv, LastEventIsStatus, EventsOf
  <2>7. OnlyDesired'
    BY <2>1, OnlyDesiredKept DEF LogKept
  <2> QED
    BY <2>3, <2>4, <2>5, <2>6, <2>7 DEF IInv
<1> QED
  BY <1>1, <1>2, <1>3, <1>4, <1>5, <1>6 DEF Next

-----------------------------------------------------------------------------
(* The results.                                                            *)

\* The inductive invariant, of the transactions of observe_job, fail_task,
\* submit_workflow, replace_component and save_workflow_state in any order.
THEOREM WorkflowInvariant == Spec => []IInv
BY InitIInv, NextStep, PTL DEF Spec

\* save_workflow_state always stores a replay of the log up to the cursor it stores.
THEOREM StoredStateIsReplay == Spec => []StateIsReplay
<1>1. IInv => StateIsReplay
  BY DEF IInv
<1> QED
  BY <1>1, WorkflowInvariant, PTL

\* The log's last event of a component's task names the status in the task's row
\* (observe_job and fail_task).
THEOREM LogTellsTheTruth == Spec => []LastEventIsStatus
<1>1. IInv => LastEventIsStatus
  BY DEF IInv
<1> QED
  BY <1>1, WorkflowInvariant, PTL

\* Components and their tasks are those the handler asked for (replace_component).
THEOREM OnlyDesiredComponents == Spec => []OnlyDesired
<1>1. IInv => OnlyDesired
  BY DEF IInv
<1> QED
  BY <1>1, WorkflowInvariant, PTL

\* A component is replaced by a newer generation only (replace_component).
THEOREM OnlyNewerGenerations == Spec => GenerationsRise
<1>1. IInv /\ [Next]_vars =>
        [\A k \in Linked : component'[k] # component[k] =>
           component'[k] # Null /\ component'[k].generation > component[k].generation]_vars
  <2> SUFFICES ASSUME IInv, Next, NEW k \in Linked, component'[k] # component[k]
               PROVE  component'[k] # Null /\ component'[k].generation > component[k].generation
    OBVIOUS
  <2>1. ~SubmitWorkflow
    BY DEF IInv, Unborn, Linked, SubmitWorkflow
  <2>2. \E c \in Controllers : \E d \in todo[c] : Replace(c, d)
    <3>1. ASSUME NEW t \in Tasks
          PROVE  /\ ~SubmitTask(t) /\ ~MoveTask(t) /\ ~Fail(t)
                 /\ \A s \in Observed : ~Observe(t, s)
      BY DEF SubmitTask, MoveTask, Fail, Observe
    <3>2. ASSUME NEW b \in Barriers PROVE ~CommitBarrier(b)
      BY DEF CommitBarrier
    <3>3. ASSUME NEW c \in Controllers
          PROVE  /\ ~ReadWorkflow(c) /\ ~ReadEvents(c) /\ ~ReadComponents(c)
                 /\ ~SaveState(c) /\ ~Decide(c) /\ ~Finish(c) /\ ~CutShort(c)
                 /\ \A d \in todo[c] : ~ReplaceFails(c, d)
      <4>1. ~ReadWorkflow(c) /\ ~ReadEvents(c) /\ ~ReadComponents(c)
        BY DEF ReadWorkflow, ReadEvents, ReadComponents
      <4>2. ~SaveState(c) /\ ~Finish(c) /\ ~CutShort(c)
        BY DEF SaveState, Finish, CutShort
      <4>3. ~Decide(c) /\ \A d \in todo[c] : ~ReplaceFails(c, d)
        BY DEF Decide, ReplaceFails
      <4> QED
        BY <4>1, <4>2, <4>3
    <3> QED
      BY <2>1, <3>1, <3>2, <3>3 DEF Next, Reconcile
  <2> PICK c \in Controllers : \E d \in todo[c] : Replace(c, d)
    BY <2>2
  <2> PICK d \in todo[c] : Replace(c, d)
    OBVIOUS
  <2>3. Newer(d) /\ component' = [component EXCEPT ![d.key] = Link(d)]
    BY DEF Replace
  <2>4. k = d.key /\ component'[k] = Link(d)
    BY <2>3 DEF IInv, TypeOK, Linked
  <2>5. Link(d).generation = d.generation /\ Link(d) # Null
    <3>1. d \in Components
      BY DEF IInv, TypeOK
    <3> QED
      BY <3>1, NullAssumption DEF Link, Components
  <2> QED
    BY <2>3, <2>4, <2>5 DEF Newer
<1> QED
  BY <1>1, WorkflowInvariant, PTL DEF Spec, GenerationsRise
-----------------------------------------------------------------------------
(* With one leader at a time a workflow ends as its handler judges all that *)
(* happened to its tasks, none of the components asked for missing, and     *)
(* stays as it ended.  The handler must not give one task id to two keys.   *)

\* A task id names its key, as StaticMultiAutoResumable's "{workflow_id}-{key}-g{n}"
\* does: reconcile compares generations with the row of the task, not of the component.
TaskNamesKey ==
    \A p, q \in Seq(Events) : \A d \in Wanted(p), e \in Wanted(q) :
        d.task = e.task => d.key = e.key

\* One leader, and such a handler.
Leading == Overlap = FALSE /\ TaskNamesKey

-----------------------------------------------------------------------------
\* No pass runs.
LEMMA NoPass ==
  ASSUME \A c \in Controllers : at'[c] = "idle"
  PROVE  PassIsCurrent'
BY DEF PassIsCurrent, Current, Verdicts

\* All but one pass are idle.
LEMMA OnePass ==
  ASSUME NEW c \in Controllers, \A e \in Controllers \ {c} : at'[e] = "idle", Current(c)'
  PROVE  PassIsCurrent'
<1>1. ASSUME NEW e \in Controllers PROVE Current(e)'
  BY DEF Current, Verdicts
<1> QED
  BY <1>1 DEF PassIsCurrent

\* A pass that goes on is the only one.
LEMMA Alone ==
  ASSUME PassIsCurrent, NEW c \in Controllers, at[c] # "idle"
  PROVE  \A e \in Controllers \ {c} : at[e] = "idle"
BY DEF PassIsCurrent

\* What the handler sees depends on the linked tasks' rows only.
LEMMA RowsKept ==
  ASSUME UNCHANGED <<component, owner>>, \A k \in Linked : status'[TaskOf(k)] = status[TaskOf(k)]
  PROVE  Rows' = Rows
<1>1. Linked' = Linked /\ \A k \in Linked : TaskOf(k)' = TaskOf(k)
  BY DEF Linked, TaskOf
<1>2. \A k \in Linked : TaskGeneration(TaskOf(k))' = TaskGeneration(TaskOf(k))
  BY <1>1 DEF TaskGeneration
<1> QED
  BY <1>1, <1>2 DEF Rows

\* What a row of a component and the row of its task say, the handler asked for.
ComponentRow(k) == [key |-> k, generation |-> component[k].generation, task |-> TaskOf(k)]
TaskRow(t) == [key |-> owner[t].key, generation |-> owner[t].generation, task |-> t]

\* A part of the log from its start is a sequence of events.
LEMMA PrefixesOfLog ==
  ASSUME IInv
  PROVE  \A n \in 0..Len(log) : SubSeq(log, 1, n) \in Seq(Events)
<1> TAKE n \in 0..Len(log)
<1>1. log \in Seq(Events) /\ Len(log) \in Nat
  BY DEF IInv, TypeOK
<1>2. 1 \in Int /\ n \in Int
  BY <1>1
<1>3. \A i \in 1..n : i \in 1..Len(log)
  BY <1>1
<1>4. \A i \in 1..n : log[i] \in Events
  BY <1>1, <1>3
<1> QED
  BY <1>2, <1>4, SubSeqProperties

\* What is linked or owned was asked for after some events.
LEMMA RowsWanted ==
  ASSUME IInv
  PROVE  /\ \A k \in Linked : \E p \in Seq(Events) : ComponentRow(k) \in Wanted(p)
         /\ \A t \in Tasks : owner[t] # Null =>
              \E p \in Seq(Events) : TaskRow(t) \in Wanted(p)
<1>1. ASSUME NEW k \in Linked PROVE \E p \in Seq(Events) : ComponentRow(k) \in Wanted(p)
  <2>1. PICK n \in 0..Len(log) : ComponentRow(k) \in Desired(SubSeq(log, 1, n))
    BY DEF IInv, OnlyDesired, DesiredOnce, ComponentRow
  <2>2. ComponentRow(k) \in Components
    BY DEF ComponentRow, IInv, TypeOK, Linked, TaskOf, Components
  <2> QED
    BY <2>1, <2>2, PrefixesOfLog DEF Wanted
<1>2. ASSUME NEW t \in Tasks, owner[t] # Null
      PROVE  \E p \in Seq(Events) : TaskRow(t) \in Wanted(p)
  <2>1. PICK n \in 0..Len(log) : TaskRow(t) \in Desired(SubSeq(log, 1, n))
    BY <1>2 DEF IInv, OnlyDesired, DesiredOnce, TaskRow
  <2>2. TaskRow(t) \in Components
    BY <1>2 DEF TaskRow, IInv, TypeOK, Owners, Components
  <2> QED
    BY <2>1, <2>2, PrefixesOfLog DEF Wanted
<1> QED
  BY <1>1, <1>2

\* A component's task was inserted for its key, or by a session.
LEMMA TaskOfItsKey ==
  ASSUME IInv, TaskNamesKey, NEW k \in Linked
  PROVE  /\ TaskGeneration(TaskOf(k)) \in Nat /\ component[k].generation \in Nat
         /\ TaskGeneration(TaskOf(k)) <= component[k].generation
<1> DEFINE t == TaskOf(k)
<1>1. t \in Tasks /\ component[k].generation \in Nat
  BY WorkflowAssumption DEF IInv, TypeOK, Linked, TaskOf
<1>2. CASE owner[t] = Null
  BY <1>1, <1>2 DEF TaskGeneration
<1>3. CASE owner[t] # Null
  <2>1. /\ owner[t].generation <= component[owner[t].key].generation
        /\ owner[t].generation \in Nat
    BY <1>1, <1>3, WorkflowAssumption DEF IInv, OwnersApart, TypeOK, Owners
  <2>2. ComponentRow(k).task = TaskRow(t).task
    BY DEF ComponentRow, TaskRow
  <2>3. ComponentRow(k).key = TaskRow(t).key
    BY <1>1, <1>3, <2>2, RowsWanted DEF TaskNamesKey
  <2>4. owner[t].key = k
    BY <2>3 DEF ComponentRow, TaskRow
  <2> QED
    BY <1>1, <1>3, <2>1, <2>4 DEF TaskGeneration
<1> QED
  BY <1>2, <1>3

-----------------------------------------------------------------------------
(* The steps.                                                              *)

\* The tasks move between passes; sessions submit tasks that are nobody's.
LEMMA TasksCurrent ==
  ASSUME IInv, Overlap = FALSE, PassIsCurrent, NEW t \in Tasks,
         \/ SubmitTask(t) \/ MoveTask(t) \/ Fail(t)
         \/ \E s \in Observed : Observe(t, s)
  PROVE  PassIsCurrent'
<1>1. CASE SubmitTask(t)
  <2>1. /\ status[t] = "ABSENT" /\ status' = [status EXCEPT ![t] = "PENDING"]
        /\ UNCHANGED <<owner, log, component, flow, at, copy, todo>>
    BY <1>1, EnterOne DEF SubmitTask, passVars
  <2>2. \A k \in Linked : status'[TaskOf(k)] = status[TaskOf(k)]
    <3> TAKE k \in Linked
    <3>1. TaskOf(k) # t
      BY <2>1 DEF IInv, LinkedPresent
    <3> QED
      BY <2>1, <3>1 DEF IInv, TypeOK
  <2>3. UNCHANGED Rows
    BY <2>1, <2>2, RowsKept
  <2>4. ASSUME NEW c \in Controllers PROVE Current(c)'
    <3>1. Current(c)
      BY DEF PassIsCurrent
    <3>2. UNCHANGED OnlyBarriersAfter(copy[c].cursor)
      BY <2>1 DEF OnlyBarriersAfter
    <3>3. \A d \in Wanted(copy[c].state) : UNCHANGED UpToDate(d)
      BY <2>1 DEF UpToDate, Linked
    <3>4. UNCHANGED Wanted(copy[c].state)
      BY <2>1 DEF Wanted
    <3> QED
      BY <2>1, <2>3, <3>1, <3>2, <3>3, <3>4 DEF Current
  <2> QED
    BY <2>1, <2>4 DEF PassIsCurrent
<1>2. CASE MoveTask(t) \/ Fail(t) \/ \E s \in Observed : Observe(t, s)
  <2>1. UNCHANGED at /\ \A c \in Controllers : at[c] = "idle"
    BY <1>2 DEF MoveTask, Fail, Observe, MayChangeTasks, passVars
  <2> QED
    BY <2>1, NoPass
<1> QED
  BY <1>1, <1>2

\* Barriers come in at any time.
LEMMA BarrierCurrent ==
  ASSUME IInv, PassIsCurrent, NEW b \in Barriers, CommitBarrier(b)
  PROVE  PassIsCurrent'
<1> DEFINE e == [kind |-> "BarrierCommitted", barrier |-> b]
<1>1. /\ log' = Append(log, e) /\ e \in Events
      /\ UNCHANGED <<status, owner, component, flow, at, copy, todo>>
  BY DEF CommitBarrier, passVars, Events, BarrierEvents
<1>2. /\ Len(log) \in Nat /\ Len(log') = Len(log) + 1
      /\ \A i \in 1..Len(log) : log'[i] = log[i]
      /\ log'[Len(log) + 1].kind = "BarrierCommitted"
  BY <1>1, AppendProperties DEF IInv, TypeOK
<1>3. UNCHANGED Rows
  BY <1>1, RowsKept
<1>4. ASSUME NEW c \in Controllers PROVE Current(c)'
  <2>1. Current(c) /\ copy[c].cursor \in Nat
    BY DEF PassIsCurrent, IInv, TypeOK
  <2>2. OnlyBarriersAfter(copy[c].cursor) => OnlyBarriersAfter(copy[c].cursor)'
    <3> SUFFICES ASSUME OnlyBarriersAfter(copy[c].cursor),
                        NEW i \in copy[c].cursor + 1 .. Len(log')
                 PROVE  log'[i].kind = "BarrierCommitted"
      BY <1>1 DEF OnlyBarriersAfter
    <3>1. CASE i = Len(log) + 1
      BY <1>2, <3>1
    <3>2. CASE i # Len(log) + 1
      <4>1. i \in copy[c].cursor + 1 .. Len(log) /\ i \in 1..Len(log)
        BY <1>2, <2>1, <3>2
      <4> QED
        BY <1>2, <4>1 DEF OnlyBarriersAfter
    <3> QED
      BY <3>1, <3>2
  <2>3. \A d \in Wanted(copy[c].state) : UNCHANGED UpToDate(d)
    BY <1>1 DEF UpToDate, Linked
  <2>4. UNCHANGED Wanted(copy[c].state)
    BY <1>1 DEF Wanted
  <2> QED
    BY <1>1, <1>3, <2>1, <2>2, <2>3, <2>4 DEF Current
<1> QED
  BY <1>1, <1>4 DEF PassIsCurrent

\* The pass reads the row, and then all events there are.
LEMMA ReadCurrent ==
  ASSUME IInv, Overlap = FALSE, PassIsCurrent, NEW c \in Controllers,
         ReadWorkflow(c) \/ ReadEvents(c)
  PROVE  PassIsCurrent'
<1>1. CASE ReadWorkflow(c)
  <2>1. /\ flow'.status = "ACTIVE" /\ \A e \in Controllers : at[e] = "idle"
        /\ at' = [at EXCEPT ![c] = "events"]
    BY <1>1 DEF ReadWorkflow, Reconcilable, Goto
  <2>2. /\ \A e \in Controllers \ {c} : at'[e] = "idle"
        /\ at'[c] = "events"
    BY <2>1 DEF IInv, TypeOK
  <2>3. Current(c)'
    BY <2>1, <2>2 DEF Current, Verdicts
  <2> QED
    BY <2>2, <2>3, OnePass
<1>2. CASE ReadEvents(c)
  <2>1. /\ at[c] = "events" /\ at' = [at EXCEPT ![c] = "components"]
        /\ copy' = [copy EXCEPT ![c] =
             [state |-> copy[c].state \o EventsAfter(copy[c].cursor),
              cursor |-> copy[c].cursor + Len(EventsAfter(copy[c].cursor))]]
        /\ UNCHANGED <<log, flow>>
    BY <1>2 DEF ReadEvents, Goto, taskVars
  <2>2. /\ \A e \in Controllers \ {c} : at'[e] = "idle"
        /\ at'[c] = "components"
    BY <2>1, Alone DEF IInv, TypeOK
  <2>3. copy'[c].cursor = Len(log) /\ Len(log) \in Nat
    <3>1. copy[c].cursor \in 0..Len(log)
      BY DEF IInv, StateIsReplay, IsReplay
    <3>2. copy[c].cursor + Len(EventsAfter(copy[c].cursor)) = Len(log)
      BY <3>1, Replayed DEF IInv
    <3> QED
      BY <2>1, <3>2 DEF IInv, TypeOK
  <2>4. OnlyBarriersAfter(copy[c].cursor)'
    BY <2>1, <2>3 DEF OnlyBarriersAfter
  <2>5. flow'.status = "ACTIVE"
    BY <2>1 DEF PassIsCurrent, Current
  <2>6. Current(c)'
    BY <2>2, <2>4, <2>5 DEF Current, Verdicts
  <2> QED
    BY <2>2, <2>6, OnePass
<1> QED
  BY <1>1, <1>2

\* What is not to be replaced is there already.
LEMMA ComponentsCurrent ==
  ASSUME IInv, TaskNamesKey, PassIsCurrent, NEW c \in Controllers, ReadComponents(c)
  PROVE  PassIsCurrent'
<1>1. /\ at[c] = "components" /\ at' = [at EXCEPT ![c] = "replace"]
      /\ todo' = [todo EXCEPT ![c] =
           {d \in Wanted(copy[c].state) :
              d.key \in Linked => d.generation > TaskGeneration(TaskOf(d.key))}]
      /\ UNCHANGED <<status, owner, log, component, flow, copy>>
  BY DEF ReadComponents, Goto, taskVars
<1>2. /\ \A e \in Controllers \ {c} : at'[e] = "idle"
      /\ at'[c] = "replace"
  BY <1>1, Alone DEF IInv, TypeOK
<1>3. flow'.status = "ACTIVE" /\ OnlyBarriersAfter(copy[c].cursor)'
  BY <1>1 DEF PassIsCurrent, Current, OnlyBarriersAfter
<1>4. ASSUME NEW d \in Wanted(copy[c].state), d \notin todo'[c]
      PROVE  UpToDate(d)'
  <2>1. d.key \in Linked /\ ~(d.generation > TaskGeneration(TaskOf(d.key)))
    BY <1>1, <1>4 DEF IInv, TypeOK
  <2>2. /\ TaskGeneration(TaskOf(d.key)) \in Nat /\ component[d.key].generation \in Nat
        /\ TaskGeneration(TaskOf(d.key)) <= component[d.key].generation
    BY <2>1, TaskOfItsKey
  <2>3. d.generation \in Nat
    BY <1>4, WorkflowAssumption DEF Wanted, Components
  <2>4. component[d.key].generation >= d.generation
    BY <2>1, <2>2, <2>3
  <2> QED
    BY <1>1, <2>1, <2>4 DEF UpToDate, Linked
<1>5. UNCHANGED Wanted(copy[c].state)
  BY <1>1 DEF Wanted
<1>6. Current(c)'
  BY <1>1, <1>2, <1>3, <1>4, <1>5 DEF Current, Verdicts
<1> QED
  BY <1>2, <1>6, OnePass

\* A component replaced is up to date, and no other becomes outdated.
LEMMA ReplaceCurrent ==
  ASSUME IInv, PassIsCurrent, NEW c \in Controllers, NEW d \in todo[c], Replace(c, d)
  PROVE  PassIsCurrent'
<1>1. /\ at[c] = "replace" /\ todo' = [todo EXCEPT ![c] = @ \ {d}]
      /\ UNCHANGED <<log, flow, at, copy>>
      /\ \/ Newer(d) /\ component' = [component EXCEPT ![d.key] = Link(d)]
         \/ ~Newer(d) /\ UNCHANGED component
  BY DEF Replace
<1>2. d.key \in Keys /\ d.generation \in Nat
  <2>1. d \in Components
    BY DEF IInv, TypeOK
  <2> QED
    BY <2>1, WorkflowAssumption DEF Components
<1>3. Link(d) # Null /\ Link(d).generation = d.generation
  <2>1. d \in Components
    BY DEF IInv, TypeOK
  <2> QED
    BY <2>1, NullAssumption DEF Link, Components
<1>4. /\ \A e \in Controllers \ {c} : at'[e] = "idle"
      /\ at'[c] = "replace"
  BY <1>1, Alone
<1>5. flow'.status = "ACTIVE" /\ OnlyBarriersAfter(copy[c].cursor)'
  BY <1>1 DEF PassIsCurrent, Current, OnlyBarriersAfter
<1>6. \A k \in Linked : component[k].generation \in Nat
  BY WorkflowAssumption DEF IInv, TypeOK, Linked
<1>7. UpToDate(d)'
  <2>1. CASE Newer(d) /\ component' = [component EXCEPT ![d.key] = Link(d)]
    <3>1. component'[d.key] = Link(d)
      BY <1>2, <2>1 DEF IInv, TypeOK
    <3>2. d.generation >= d.generation
      BY <1>2
    <3> QED
      BY <1>2, <1>3, <3>1, <3>2 DEF UpToDate, Linked
  <2>2. CASE ~Newer(d) /\ UNCHANGED component
    <3>1. d.key \in Linked /\ ~(d.generation > component[d.key].generation)
      BY <2>2 DEF Newer
    <3>2. component[d.key].generation >= d.generation
      BY <1>2, <1>6, <3>1
    <3> QED
      BY <2>2, <3>1, <3>2 DEF UpToDate, Linked
  <2> QED
    BY <1>1, <2>1, <2>2
<1>8. ASSUME NEW e \in Wanted(copy[c].state), UpToDate(e)
      PROVE  UpToDate(e)'
  <2>1. CASE component'[e.key] = component[e.key]
    BY <1>8, <2>1 DEF UpToDate, Linked
  <2>2. CASE component'[e.key] # component[e.key]
    <3>1. Newer(d) /\ component' = [component EXCEPT ![d.key] = Link(d)]
      BY <1>1, <2>2
    <3>2. e.key = d.key /\ component'[e.key] = Link(d)
      BY <1>2, <2>2, <3>1 DEF IInv, TypeOK
    <3>3. /\ e.key \in Linked /\ component[e.key].generation >= e.generation
          /\ d.generation > component[e.key].generation
      BY <1>8, <3>1, <3>2 DEF UpToDate, Newer
    <3>4. e.generation \in Nat
      BY WorkflowAssumption DEF Wanted, Components
    <3>5. d.generation >= e.generation
      BY <1>2, <1>6, <3>3, <3>4
    <3> QED
      BY <1>2, <1>3, <3>2, <3>5 DEF UpToDate, Linked
  <2> QED
    BY <2>1, <2>2
<1>9. ASSUME NEW e \in Wanted(copy[c].state) PROVE e \in todo'[c] \/ UpToDate(e)'
  <2>1. e \in todo[c] \/ UpToDate(e)
    BY <1>1 DEF PassIsCurrent, Current
  <2>2. e \in todo[c] /\ e # d => e \in todo'[c]
    BY <1>1 DEF IInv, TypeOK
  <2> QED
    BY <1>7, <1>8, <2>1, <2>2
<1>10. UNCHANGED Wanted(copy[c].state)
  BY <1>1 DEF Wanted
<1>11. Current(c)'
  BY <1>1, <1>4, <1>5, <1>9, <1>10 DEF Current, Verdicts
<1> QED
  BY <1>4, <1>11, OnePass

\* All has been replaced when the state is saved.
LEMMA SaveCurrent ==
  ASSUME IInv, PassIsCurrent, NEW c \in Controllers, SaveState(c)
  PROVE  PassIsCurrent'
<1>1. /\ at[c] = "replace" /\ todo[c] = {}
      /\ flow' = [flow EXCEPT !.state = copy[c].state, !.cursor = copy[c].cursor]
      /\ at' = [at EXCEPT ![c] = "saved"]
      /\ UNCHANGED <<log, component, copy>>
  BY DEF SaveState, Replaced, Goto, taskVars
<1>2. /\ \A e \in Controllers \ {c} : at'[e] = "idle"
      /\ at'[c] = "saved"
  BY <1>1, Alone DEF IInv, TypeOK
<1>3. /\ flow'.status = "ACTIVE" /\ flow'.state = copy[c].state
      /\ flow'.cursor = copy[c].cursor
      /\ OnlyBarriersAfter(copy[c].cursor)'
  BY <1>1 DEF IInv, TypeOK, PassIsCurrent, Current, OnlyBarriersAfter
<1>4. \A d \in Wanted(copy[c].state) : UpToDate(d)'
  BY <1>1 DEF PassIsCurrent, Current, UpToDate, Linked
<1>5. UNCHANGED Wanted(copy[c].state)
  BY <1>1 DEF Wanted
<1>6. Current(c)'
  BY <1>1, <1>2, <1>3, <1>4, <1>5 DEF Current, Verdicts
<1> QED
  BY <1>2, <1>6, OnePass

\* The verdict is the handler's, of what is there.
LEMMA DecideCurrent ==
  ASSUME IInv, PassIsCurrent, NEW c \in Controllers, Decide(c)
  PROVE  PassIsCurrent'
<1>1. at[c] = "saved" /\ UNCHANGED <<status, owner, log, component, flow>>
  BY DEF Decide, taskVars
<1>2. \A e \in Controllers \ {c} : at[e] = "idle"
  BY <1>1, Alone
<1>3. CASE Leave(c)
  <2>1. \A e \in Controllers : at'[e] = "idle"
    BY <1>2, <1>3 DEF Leave, Goto, IInv, TypeOK
  <2> QED
    BY <2>1, NoPass
<1>4. ASSUME NEW v \in Verdicts, Goto(c, v), UNCHANGED <<copy, todo>>,
             Completes(copy[c].state, Rows) <=> v = "SUCCEEDED",
             Fails(copy[c].state, Rows) \/ v = "SUCCEEDED"
      PROVE  PassIsCurrent'
  <2>1. /\ \A e \in Controllers \ {c} : at'[e] = "idle"
        /\ at'[c] = v
    BY <1>2, <1>4 DEF Goto, IInv, TypeOK
  <2>2. UNCHANGED Rows
    BY <1>1, RowsKept
  <2>3. /\ flow'.status = "ACTIVE"
        /\ flow'.state = copy'[c].state /\ flow'.cursor = copy'[c].cursor
        /\ OnlyBarriersAfter(copy[c].cursor)'
    BY <1>1, <1>4 DEF PassIsCurrent, Current, OnlyBarriersAfter
  <2>4. \A d \in Wanted(copy[c].state) : UpToDate(d)'
    BY <1>1 DEF PassIsCurrent, Current, UpToDate, Linked
  <2>5. UNCHANGED Wanted(copy[c].state)
    BY <1>4 DEF Wanted
  <2>6. Completes(copy[c].state, Rows)' <=> v = "SUCCEEDED"
    BY <1>4, <2>2
  <2>7. Fails(copy[c].state, Rows)' \/ v = "SUCCEEDED"
    BY <1>4, <2>2
  <2>8. Current(c)'
    BY <1>4, <2>1, <2>3, <2>4, <2>5, <2>6, <2>7 DEF Current, Verdicts
  <2> QED
    BY <2>1, <2>8, OnePass
<1>5. CASE Completes(copy[c].state, Rows)
  <2>1. Goto(c, "SUCCEEDED") /\ UNCHANGED <<copy, todo>>
    BY <1>5 DEF Decide
  <2> QED
    BY <1>4, <1>5, <2>1 DEF Verdicts
<1>6. CASE ~Completes(copy[c].state, Rows) /\ Fails(copy[c].state, Rows)
  <2>1. Goto(c, "FAILED") /\ UNCHANGED <<copy, todo>>
    BY <1>6 DEF Decide
  <2> QED
    BY <1>4, <1>6, <2>1 DEF Verdicts
<1>7. CASE ~Completes(copy[c].state, Rows) /\ ~Fails(copy[c].state, Rows)
  <2>1. Leave(c)
    BY <1>7 DEF Decide
  <2> QED
    BY <1>3, <2>1
<1> QED
  BY <1>5, <1>6, <1>7

\* A pass that ends leaves none.
LEMMA LeaveCurrent ==
  ASSUME IInv, PassIsCurrent, NEW c \in Controllers, at[c] # "idle", Leave(c)
  PROVE  PassIsCurrent'
<1>1. \A e \in Controllers : at'[e] = "idle"
  BY Alone DEF Leave, Goto, IInv, TypeOK
<1> QED
  BY <1>1, NoPass

\* With one leader each step of its pass leaves what it has read current.
LEMMA PassCurrent ==
  ASSUME IInv, Leading, PassIsCurrent, NEW c \in Controllers, Reconcile(c) \/ CutShort(c)
  PROVE  PassIsCurrent'
<1>1. Overlap = FALSE /\ TaskNamesKey
  BY DEF Leading
<1>2. CASE CutShort(c)
  BY <1>2, LeaveCurrent DEF CutShort
<1>3. CASE Finish(c)
  BY <1>3, LeaveCurrent DEF Finish, Verdicts
<1>4. ASSUME NEW d \in todo[c], ReplaceFails(c, d) PROVE PassIsCurrent'
  BY <1>4, LeaveCurrent DEF ReplaceFails
<1>5. ASSUME NEW d \in todo[c], Replace(c, d) PROVE PassIsCurrent'
  BY <1>5, ReplaceCurrent
<1>6. CASE ReadWorkflow(c) \/ ReadEvents(c)
  BY <1>1, <1>6, ReadCurrent
<1>7. CASE ReadComponents(c)
  BY <1>1, <1>7, ComponentsCurrent
<1>8. CASE SaveState(c)
  BY <1>8, SaveCurrent
<1>9. CASE Decide(c)
  BY <1>9, DecideCurrent
<1> QED
  BY <1>2, <1>3, <1>4, <1>5, <1>6, <1>7, <1>8, <1>9 DEF Reconcile

\* One case per action.
LEMMA CurrentStep ==
  ASSUME Leading, IInv, PassIsCurrent, [Next]_vars
  PROVE  PassIsCurrent'
<1>1. Overlap = FALSE
  BY DEF Leading
<1>2. CASE SubmitWorkflow
  <2>1. UNCHANGED at /\ \A c \in Controllers : at[c] = "idle"
    BY <1>2 DEF SubmitWorkflow, passVars, IInv, Unborn
  <2> QED
    BY <2>1, NoPass
<1>3. ASSUME NEW t \in Tasks, SubmitTask(t) \/ MoveTask(t) \/ Fail(t) PROVE PassIsCurrent'
  BY <1>1, <1>3, TasksCurrent
<1>4. ASSUME NEW t \in Tasks, NEW s \in Observed, Observe(t, s) PROVE PassIsCurrent'
  BY <1>1, <1>4, TasksCurrent
<1>5. ASSUME NEW b \in Barriers, CommitBarrier(b) PROVE PassIsCurrent'
  BY <1>5, BarrierCurrent
<1>6. ASSUME NEW c \in Controllers, Reconcile(c) \/ CutShort(c) PROVE PassIsCurrent'
  BY <1>6, PassCurrent
<1>7. CASE UNCHANGED vars
  <2>1. UNCHANGED <<status, owner, component, log, flow, at, copy, todo, failures>>
    BY <1>7 DEF vars, taskVars, passVars
  <2>2. UNCHANGED Rows
    BY <2>1, RowsKept
  <2>3. ASSUME NEW c \in Controllers PROVE Current(c)'
    <3>1. Current(c)
      BY DEF PassIsCurrent
    <3>2. UNCHANGED OnlyBarriersAfter(copy[c].cursor)
      BY <2>1 DEF OnlyBarriersAfter
    <3>3. \A d \in Wanted(copy[c].state) : UNCHANGED UpToDate(d)
      BY <2>1 DEF UpToDate, Linked
    <3>4. UNCHANGED Wanted(copy[c].state)
      BY <2>1 DEF Wanted
    <3> QED
      BY <2>1, <2>2, <3>1, <3>2, <3>3, <3>4 DEF Current
  <2> QED
    BY <2>1, <2>3 DEF PassIsCurrent
<1> QED
  BY <1>2, <1>3, <1>4, <1>5, <1>6, <1>7 DEF Next

-----------------------------------------------------------------------------
(* Tasks of one leader.                                                    *)

\* A pass touches a task only by inserting its row.
LEMMA ReconcileLife ==
  ASSUME IInv, NEW c \in Controllers, Reconcile(c) \/ CutShort(c)
  PROVE  LifeNext \/ UNCHANGED status
<1>1. CASE ReadWorkflow(c) \/ ReadEvents(c) \/ ReadComponents(c)
  BY <1>1 DEF ReadWorkflow, ReadEvents, ReadComponents, taskVars
<1>2. CASE SaveState(c) \/ Decide(c) \/ Finish(c) \/ CutShort(c)
  BY <1>2 DEF SaveState, Decide, Finish, CutShort, taskVars
<1>3. ASSUME NEW d \in todo[c], ReplaceFails(c, d) PROVE UNCHANGED status
  BY <1>3 DEF ReplaceFails, taskVars
<1>4. ASSUME NEW d \in todo[c], Replace(c, d) PROVE LifeNext \/ UNCHANGED status
  <2>1. d.task \in Tasks
    BY DEF IInv, TypeOK, Components
  <2>2. EnterTask(d.task) \/ UNCHANGED status
    BY <1>4 DEF Replace, Insert
  <2>3. CASE EnterTask(d.task)
    <3>1. {d.task} \in SUBSET Tasks /\ EnterTasks({d.task})
      BY <2>1, <2>3 DEF EnterTask
    <3> QED
      BY <3>1 DEF LifeNext
  <2> QED
    BY <2>2, <2>3
<1> QED
  BY <1>1, <1>2, <1>3, <1>4 DEF Reconcile

\* Every step is one of TaskLife or leaves every status alone.
LEMMA PlainStep ==
  ASSUME IInv, Overlap = FALSE, [Next]_vars
  PROVE  LifeNext \/ UNCHANGED status
<1>1. CASE SubmitWorkflow
  <2> DEFINE S == {d.task : d \in {e \in Wanted(<<>>) : status[e.task] = "ABSENT"}}
  <2>1. EnterTasks(S)
    BY <1>1 DEF SubmitWorkflow
  <2>2. S \in SUBSET Tasks
    BY DEF Wanted, Components
  <2> HIDE DEF S
  <2> QED
    BY <2>1, <2>2 DEF LifeNext
<1>2. ASSUME NEW t \in Tasks, SubmitTask(t) \/ MoveTask(t) \/ Fail(t) PROVE LifeNext
  <2>1. \/ EnterTasks({t}) \/ AdmitTasks({t})
        \/ BindTask(t) \/ ResetTask(t) \/ FailTask(t)
    BY <1>2 DEF SubmitTask, EnterTask, MoveTask, Fail
  <2>2. {t} \in SUBSET Tasks
    OBVIOUS
  <2> QED
    BY <2>1, <2>2 DEF LifeNext
<1>3. ASSUME NEW t \in Tasks, NEW s \in Observed, Observe(t, s) PROVE LifeNext
  BY <1>3 DEF Observe, LifeNext
<1>4. ASSUME NEW b \in Barriers, CommitBarrier(b) PROVE UNCHANGED status
  BY <1>4 DEF CommitBarrier
<1>5. CASE UNCHANGED vars
  BY <1>5 DEF vars, taskVars
<1> QED
  BY <1>1, <1>2, <1>3, <1>4, <1>5, ReconcileLife DEF Next

\* In a plain life the end is the end.
LEMMA EndIsEnd ==
  ASSUME status \in [Tasks -> Statuses], LifeNext, NEW t \in Tasks, status[t] \in Ended
  PROVE  status'[t] = status[t]
<1>1. status[t] \notin {"ABSENT", "PENDING", "SUBMITTING"} /\ Follows(status[t]) = {}
  BY DEF Ended, Follows
<1>2. ASSUME NEW S \in SUBSET Tasks, EnterTasks(S) \/ AdmitTasks(S) PROVE status'[t] = status[t]
  BY <1>1, <1>2 DEF EnterTasks, AdmitTasks
<1>3. ASSUME NEW u \in Tasks, BindTask(u) \/ ResetTask(u) \/ FailTask(u)
      PROVE  status'[t] = status[t]
  BY <1>1, <1>3 DEF BindTask, ResetTask, FailTask, Become
<1>4. ASSUME NEW u \in Tasks, NEW s \in Observed, ObserveTask(u, s) PROVE status'[t] = status[t]
  BY <1>1, <1>4 DEF ObserveTask, Become
<1> QED
  BY <1>2, <1>3, <1>4 DEF LifeNext

\* With one leader a task that has ended never changes.
LEMMA EndedStays ==
  ASSUME IInv, Overlap = FALSE, [Next]_vars, NEW t \in Tasks, status[t] \in Ended
  PROVE  status'[t] = status[t]
BY PlainStep, EndIsEnd DEF IInv, TypeOK

\* A workflow's tasks live the plain life that reconciliation keeps to (submit_workflow and
\* replace_component insert rows, and write to none that is there).
THEOREM WorkflowsKeepTaskLife ==
  ASSUME Overlap = FALSE
  PROVE  Spec => TasksLivePlainly
<1>1. Init => LifeInit
  BY DEF Init
<1>2. IInv /\ [Next]_vars => [LifeNext]_status
  BY PlainStep
<1> QED
  BY <1>1, <1>2, WorkflowInvariant, PTL DEF Spec, TasksLivePlainly, LifeSpec

-----------------------------------------------------------------------------
(* The results.                                                            *)

\* Whatever a pass has read is still so when it uses it (reconcile).
THEOREM ReadsStayCurrent ==
  ASSUME Leading
  PROVE  Spec => []PassIsCurrent
<1>1. Init => PassIsCurrent
  BY DEF Init, PassIsCurrent, Current, Verdicts
<1>2. IInv /\ PassIsCurrent /\ [Next]_vars => PassIsCurrent'
  BY CurrentStep
<1> QED
  BY <1>1, <1>2, WorkflowInvariant, PTL DEF Spec

\* What changes the row of the workflow: its submission, a pass that saves, and an end.
LEMMA FlowChanges ==
  ASSUME [Next]_vars, flow' # flow
  PROVE  SubmitWorkflow \/ \E c \in Controllers : SaveState(c) \/ Finish(c)
<1>1. ASSUME NEW t \in Tasks
      PROVE  /\ ~SubmitTask(t) /\ ~MoveTask(t) /\ ~Fail(t)
             /\ \A s \in Observed : ~Observe(t, s)
  BY DEF SubmitTask, MoveTask, Fail, Observe
<1>2. ASSUME NEW b \in Barriers PROVE ~CommitBarrier(b)
  BY DEF CommitBarrier
<1>3. ASSUME NEW c \in Controllers
      PROVE  /\ ~ReadWorkflow(c) /\ ~ReadEvents(c) /\ ~ReadComponents(c)
             /\ ~Decide(c) /\ ~CutShort(c)
             /\ \A d \in todo[c] : ~Replace(c, d) /\ ~ReplaceFails(c, d)
  <2>1. ~ReadWorkflow(c) /\ ~ReadEvents(c) /\ ~ReadComponents(c)
    BY DEF ReadWorkflow, ReadEvents, ReadComponents
  <2>2. ~Decide(c) /\ ~CutShort(c)
    BY DEF Decide, CutShort
  <2>3. \A d \in todo[c] : ~Replace(c, d) /\ ~ReplaceFails(c, d)
    BY DEF Replace, ReplaceFails
  <2> QED
    BY <2>1, <2>2, <2>3
<1>4. ~UNCHANGED vars
  BY DEF vars
<1> QED
  BY <1>1, <1>2, <1>3, <1>4 DEF Next, Reconcile

\* An end is a pass's verdict (complete_workflow, fail_workflow).
LEMMA EndIsFinish ==
  ASSUME IInv, [Next]_vars, ~HasEnded, HasEnded'
  PROVE  \E c \in Controllers : Finish(c)
<1>1. flow' # flow
  BY DEF HasEnded
<1>2. ~SubmitWorkflow
  BY DEF SubmitWorkflow, HasEnded, Verdicts, IInv, TypeOK
<1>3. \A c \in Controllers : ~SaveState(c)
  BY DEF SaveState, HasEnded, IInv, TypeOK
<1> QED
  BY <1>1, <1>2, <1>3, FlowChanges

\* A workflow ends as its handler judges it, with nothing it asked for missing
\* (reconcile, complete_workflow and fail_workflow).
THEOREM EndsAreTrue ==
  ASSUME Leading
  PROVE  Spec => EndIsTrue
<1>1. IInv /\ PassIsCurrent /\ [Next]_vars =>
        [~HasEnded /\ HasEnded' =>
           /\ Completes(flow.state, Rows) <=> flow.status' = "SUCCEEDED"
           /\ Fails(flow.state, Rows) \/ flow.status' = "SUCCEEDED"
           /\ \A d \in Wanted(flow.state) : UpToDate(d)]_vars
  <2> SUFFICES ASSUME IInv, PassIsCurrent, [Next]_vars, ~HasEnded, HasEnded'
               PROVE  /\ Completes(flow.state, Rows) <=> flow.status' = "SUCCEEDED"
                      /\ Fails(flow.state, Rows) \/ flow.status' = "SUCCEEDED"
                      /\ \A d \in Wanted(flow.state) : UpToDate(d)
    OBVIOUS
  <2>1. PICK c \in Controllers : Finish(c)
    BY EndIsFinish
  <2>2. at[c] \in Verdicts /\ flow'.status = at[c]
    BY <2>1 DEF Finish, IInv, TypeOK
  <2>3. Current(c)
    BY DEF PassIsCurrent
  <2> QED
    BY <2>2, <2>3 DEF Current
<1> QED
  BY <1>1, WorkflowInvariant, ReadsStayCurrent, PTL DEF Spec, EndIsTrue

\* The handler has reduced every event of its tasks by then (get_workflow_events).
THEOREM EndsKnowAllTasks ==
  ASSUME Leading
  PROVE  Spec => EndKnowsTasks
<1>1. IInv /\ PassIsCurrent /\ [Next]_vars =>
        [~HasEnded /\ HasEnded' => OnlyBarriersAfter(flow.cursor)]_vars
  <2> SUFFICES ASSUME IInv, PassIsCurrent, [Next]_vars, ~HasEnded, HasEnded'
               PROVE  OnlyBarriersAfter(flow.cursor)
    OBVIOUS
  <2>1. PICK c \in Controllers : Finish(c)
    BY EndIsFinish
  <2>2. at[c] \in Verdicts /\ Current(c)
    BY <2>1 DEF Finish, PassIsCurrent
  <2> QED
    BY <2>2 DEF Current, Verdicts
<1> QED
  BY <1>1, WorkflowInvariant, ReadsStayCurrent, PTL DEF Spec, EndKnowsTasks

\* An ended workflow stays as it is (_finish_workflow, save_workflow_state).
THEOREM EndsAreFinal ==
  ASSUME Leading
  PROVE  Spec => EndIsFinal
<1>1. IInv /\ PassIsCurrent /\ [Next]_vars => [HasEnded => UNCHANGED flow]_vars
  <2> SUFFICES ASSUME IInv, PassIsCurrent, [Next]_vars, HasEnded, flow' # flow
               PROVE  FALSE
    OBVIOUS
  <2>1. ~SubmitWorkflow
    BY DEF SubmitWorkflow, HasEnded, Verdicts
  <2>2. PICK c \in Controllers : SaveState(c) \/ Finish(c)
    BY <2>1, FlowChanges
  <2>3. at[c] # "idle"
    BY <2>2 DEF SaveState, Finish, Verdicts
  <2>4. flow.status = "ACTIVE"
    BY <2>3 DEF PassIsCurrent, Current
  <2> QED
    BY <2>4 DEF HasEnded, Verdicts
<1> QED
  BY <1>1, WorkflowInvariant, ReadsStayCurrent, PTL DEF Spec, EndIsFinal
=============================================================================

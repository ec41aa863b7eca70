------------------------- MODULE StaticWorkflowProofs -------------------------
(* What the built-in handler sees and what its verdicts are worth: its view *)
(* is the view of the whole log, it shows the status of every component's   *)
(* present task, and a workflow that it has ended stays what it was called. *)
EXTENDS StaticWorkflow, WorkflowProofs, FiniteSetTheorems

-----------------------------------------------------------------------------
(* reduce, event by event, and the view of all events at once.             *)

IsBarrier(e) == e.kind = "BarrierCommitted"

\* The events of a key, and the barriers, among those at the positions S.
OfKey(events, S, k) == {i \in S : ~IsBarrier(events[i]) /\ events[i].key = k}
BarriersIn(events, S) == {i \in S : IsBarrier(events[i])}

\* The view, as what it is meant to be rather than by how it is reduced.
Seen(events, S) ==
    [component_status |->
        [k \in {events[i].key : i \in S \ BarriersIn(events, S)} |->
            events[Max(OfKey(events, S, k))].kind],
     last_barrier |-> IF BarriersIn(events, S) = {} THEN NoBarrier
                      ELSE events[Max(BarriersIn(events, S))].barrier]

\* Positions that are not empty have a last one, the only one at or after all others.
LEMMA LastPosition ==
  ASSUME NEW n \in Nat, NEW S \in SUBSET (1..n), S # {}
  PROVE  /\ Max(S) \in S /\ \A i \in S : i <= Max(S)
         /\ \A m \in S : (\A i \in S : i <= m) => m = Max(S)
<1> DEFINE R == {p \in Nat \X Nat : p[1] < p[2]}
           T == {x \in Nat : n - x \in S}
<1>0. \A i \in S : i \in 1..n /\ n - i \in T
  <2> TAKE i \in S
  <2>1. i \in 1..n
    OBVIOUS
  <2>2. n - i \in Nat /\ n - (n - i) = i
    BY <2>1
  <2> QED
    BY <2>1, <2>2
<1>1. T \subseteq Nat /\ T # {}
  BY <1>0
<1>2. IsWellFoundedOn(R, Nat)
  BY NatLessThanWellFounded DEF OpToRel
<1>3. PICK x \in T : \A y \in T : <<y, x>> \notin R
  <2> HIDE DEF R, T
  <2> QED
    BY <1>1, <1>2, WFMin
<1>4. \A y \in T : ~ (y < x)
  BY <1>1, <1>3
<1>5. PICK m \in S : m = n - x
  BY <1>3
<1>6. \A i \in S : m >= i
  BY <1>0, <1>3, <1>4, <1>5
<1>7. Max(S) \in S /\ \A i \in S : Max(S) >= i
  BY <1>6 DEF Max
<1>8. \A i, j \in S : i \in Int /\ (i >= j <=> j <= i) /\ (i <= j /\ j <= i => i = j)
  OBVIOUS
<1> HIDE DEF R, T
<1> QED
  BY <1>7, <1>8

\* Nothing seen is the empty view (initial_state).
LEMMA SeenNothing ==
  ASSUME NEW events
  PROVE  Seen(events, {}) = EmptyView
<1>1. BarriersIn(events, {}) = {}
  BY DEF BarriersIn
<1>2. {events[i].key : i \in {} \ BarriersIn(events, {})} = {}
  OBVIOUS
<1>3. \A f : [k \in {} |-> f[k]] = <<>>
  OBVIOUS
<1> QED
  BY <1>1, <1>2, <1>3 DEF Seen, EmptyView

\* What the last position adds is what reduce does with its event.
LEMMA SeenStep ==
  ASSUME NEW n \in Nat, NEW events, NEW S \in SUBSET (1..n), S # {}
  PROVE  Seen(events, S) = Reduce(Seen(events, S \ {Max(S)}), events[Max(S)])
<1> DEFINE x == Max(S)
           R == S \ {x}
           e == events[x]
<1>1. x \in S /\ \A i \in S : i <= x
  BY LastPosition
<1> HIDE DEF x
<1>2. CASE IsBarrier(e)
  <2>1. S \ BarriersIn(events, S) = R \ BarriersIn(events, R)
    BY <1>1, <1>2 DEF BarriersIn
  <2>2. \A k : OfKey(events, S, k) = OfKey(events, R, k)
    BY <1>1, <1>2 DEF OfKey
  <2>3. Seen(events, S).component_status = Seen(events, R).component_status
    BY <2>1, <2>2 DEF Seen
  <2>4. BarriersIn(events, S) \in SUBSET (1..n) /\ x \in BarriersIn(events, S)
    BY <1>1, <1>2 DEF BarriersIn
  <2>5. x = Max(BarriersIn(events, S))
    <3>1. \A i \in BarriersIn(events, S) : i <= x
      BY <1>1 DEF BarriersIn
    <3> QED
      BY <2>4, <3>1, LastPosition
  <2>6. Seen(events, S).last_barrier = e.barrier
    BY <2>4, <2>5 DEF Seen
  <2> QED
    BY <1>2, <2>3, <2>6 DEF Seen, Reduce, IsBarrier, x
<1>3. CASE ~IsBarrier(e)
  <2>1. BarriersIn(events, S) = BarriersIn(events, R)
    BY <1>1, <1>3 DEF BarriersIn
  <2>2. Seen(events, S).last_barrier = Seen(events, R).last_barrier
    BY <2>1 DEF Seen
  <2> DEFINE old == Seen(events, R).component_status
             new == Seen(events, S).component_status
  <2>3. /\ DOMAIN new = {events[i].key : i \in S \ BarriersIn(events, S)}
        /\ DOMAIN old = {events[i].key : i \in R \ BarriersIn(events, R)}
    BY DEF Seen
  <2>4. S \ BarriersIn(events, S) = (R \ BarriersIn(events, R)) \cup {x}
    BY <1>1, <1>3, <2>1 DEF BarriersIn
  <2>5. DOMAIN new = DOMAIN old \cup {e.key}
    BY <2>3, <2>4
  <2>6. new[e.key] = e.kind
    <3>1. OfKey(events, S, e.key) \in SUBSET (1..n) /\ x \in OfKey(events, S, e.key)
      BY <1>1, <1>3 DEF OfKey
    <3>2. \A i \in OfKey(events, S, e.key) : i <= x
      BY <1>1 DEF OfKey
    <3>3. x = Max(OfKey(events, S, e.key))
      BY <3>1, <3>2, LastPosition
    <3>4. e.key \in DOMAIN new
      BY <2>5
    <3> QED
      BY <3>3, <3>4, <2>3 DEF Seen
  <2>7. \A k \in DOMAIN old : k # e.key => new[k] = old[k]
    <3> TAKE k \in DOMAIN old
    <3> HAVE k # e.key
    <3>1. OfKey(events, S, k) = OfKey(events, R, k)
      BY DEF OfKey
    <3>2. k \in DOMAIN new
      BY <2>5
    <3> QED
      BY <2>3, <3>1, <3>2 DEF Seen
  <2>8. new = [k \in DOMAIN old \cup {e.key} |-> IF k = e.key THEN e.kind ELSE old[k]]
    <3>1. new = [k \in DOMAIN new |-> new[k]]
      BY DEF Seen
    <3> HIDE DEF new, old
    <3> QED
      BY <2>5, <2>6, <2>7, <3>1
  <2>9. Seen(events, S) = [component_status |-> new, last_barrier |-> Seen(events, S).last_barrier]
    BY DEF Seen
  <2>10. Seen(events, R) = [component_status |-> old, last_barrier |-> Seen(events, R).last_barrier]
    BY DEF Seen
  <2> DEFINE v == Seen(events, R)
  <2>11. [v EXCEPT !.component_status = new] = Seen(events, S)
    <3> HIDE DEF new, old
    <3> QED
      BY <2>2, <2>9, <2>10
  <2>12. Reduce(v, e) = [v EXCEPT !.component_status =
           [k \in DOMAIN old \cup {e.key} |-> IF k = e.key THEN e.kind ELSE old[k]]]
    <3>1. e.kind # "BarrierCommitted"
      BY <1>3 DEF IsBarrier
    <3> QED
      BY <2>10, <3>1 DEF Reduce
  <2> QED
    BY <2>8, <2>11, <2>12 DEF x
<1> QED
  BY <1>2, <1>3

\* Reducing the events one by one gives the view of all of them: Seen solves the equation of
\* the fold, and no other function does, for it would differ first at some least set.
LEMMA FoldIsSeen ==
  ASSUME NEW events \in Seq(Events)
  PROVE  View(events) = Seen(events, DOMAIN events)
<1> DEFINE D == DOMAIN events
           Step(f, S) == IF S = {} THEN EmptyView
                         ELSE Reduce(f[S \ {Max(S)}], events[Max(S)])
           F == CHOOSE f : f = [S \in SUBSET D |-> Step(f, S)]
<1>1. View(events) = F[D]
  BY DEF View, FoldLeft, MapThenFoldSet
<1>2. PICK n \in Nat : D = 1..n
  OBVIOUS
<1> HIDE DEF D
<1>3. \A f, S : S \in SUBSET D /\ S # {} /\ f[S \ {Max(S)}] = Seen(events, S \ {Max(S)})
                => Step(f, S) = Seen(events, S)
  BY <1>2, SeenStep
<1>4. \A f : Step(f, {}) = Seen(events, {})
  BY SeenNothing
<1>5. F = [S \in SUBSET D |-> Step(F, S)]
  <2> DEFINE G == [S \in SUBSET D |-> Seen(events, S)]
  <2>1. ASSUME NEW S \in SUBSET D PROVE G[S] = Step(G, S)
    <3>1. S # {} => G[S \ {Max(S)}] = Seen(events, S \ {Max(S)})
      OBVIOUS
    <3> HIDE DEF Step
    <3> QED
      BY <1>3, <1>4, <3>1
  <2>2. G = [S \in SUBSET D |-> Step(G, S)]
    <3> HIDE DEF Step
    <3> QED
      BY <2>1
  <2> HIDE DEF G, Step
  <2> QED
    BY <2>2
<1> HIDE DEF F, Step
<1> DEFINE Wrong == {S \in SUBSET D : F[S] # Seen(events, S)}
<1>6. Wrong = {}
  <2> SUFFICES ASSUME Wrong # {} PROVE FALSE
    OBVIOUS
  <2>1. IsFiniteSet(D)
    BY <1>2, FS_Interval
  <2>2. Wrong \subseteq FiniteSubsetsOf(D)
    BY <2>1, FS_Subset DEF FiniteSubsetsOf
  <2>3. PICK S \in Wrong : \A R \in Wrong : <<R, S>> \notin StrictSubsetOrdering(D)
    <3> HIDE DEF Wrong
    <3> QED
      BY <2>2, FS_StrictSubsetOrderingWellFounded, WFMin
  <2>4. S # {}
    BY <1>4, <1>5
  <2> DEFINE R == S \ {Max(S)}
  <2>5. R \subseteq S /\ R # S /\ R \in SUBSET D
    BY <1>2, <2>4, LastPosition
  <2>6. R \notin Wrong
    BY <2>3, <2>5 DEF StrictSubsetOrdering
  <2>7. F[R] = Seen(events, R)
    BY <2>5, <2>6
  <2>8. F[S] = Step(F, S)
    BY <1>5
  <2> QED
    BY <1>3, <2>3, <2>4, <2>7, <2>8
<1> QED
  BY <1>1, <1>6 DEF D

-----------------------------------------------------------------------------
(* Handlers that restart components.                                       *)

\* A task id names one generation of one key.
TaskNamesGeneration ==
    \A p, q \in Seq(Events) : \A d \in Wanted(p), e \in Wanted(q) :
        d.task = e.task => d.key = e.key /\ d.generation = e.generation

\* A generation that is not there from the start is asked for when the one before has been
\* seen to end (or again, once it has told something itself).
RestartsEnded ==
    \A p \in Seq(Events) : \A d \in Wanted(p) :
        \/ d \in Wanted(<<>>)
        \/ \E i \in DOMAIN p :
             /\ p[i].kind # "BarrierCommitted" /\ p[i].key = d.key
             /\ \/ p[i].generation = d.generation - 1 /\ p[i].kind \in Ended
                \/ p[i].generation >= d.generation

\* One leader, and such a handler.
RestartsInTurn == Overlap = FALSE /\ TaskNamesGeneration /\ RestartsEnded

\* The components of the start stay linked, with their generation or a newer one.
StartLinked == flow.status # "NONE" => \A d \in Wanted(<<>>) : UpToDate(d)

\* The task t, not ended before, becomes s, and the log says so.
Tell(t, s) ==
    /\ owner[t] # Null /\ status[t] \notin Ended /\ s \in Observed /\ status'[t] = s
    /\ log' = Append(log, [kind |-> s, key |-> owner[t].key, generation |-> owner[t].generation])
    /\ UNCHANGED <<owner, component, flow>>

\* The steps by what they mean for the events of tasks.
LEMMA StepKinds ==
  ASSUME IInv, Overlap = FALSE, [Next]_vars
  PROVE  \/ /\ Quiet /\ UNCHANGED <<owner, component>>
            /\ flow.status = "NONE" => flow'.status = "NONE"
         \/ \E t \in Tasks, s \in Observed : Tell(t, s)
         \/ SubmitWorkflow
         \/ \E c \in Controllers : \E d \in todo[c] : Replace(c, d) /\ Newer(d)
<1> DEFINE Silent == /\ Quiet /\ UNCHANGED <<owner, component>>
                     /\ flow.status = "NONE" => flow'.status = "NONE"
<1>1. ASSUME NEW t \in Tasks, SubmitTask(t) \/ MoveTask(t) PROVE Silent
  BY <1>1 DEF SubmitTask, MoveTask, Quiet
<1>2. ASSUME NEW t \in Tasks, NEW s \in Observed, status[t] \notin Ended,
             Become(t, s), LogEvent(t, s), UNCHANGED <<owner, component, flow>>
      PROVE  Silent \/ Tell(t, s)
  BY <1>2 DEF Become, LogEvent, Quiet, Tell, IInv, TypeOK
<1>3. ASSUME NEW t \in Tasks, Fail(t) PROVE Silent \/ Tell(t, "FAILED")
  <2>1. status[t] = "SUBMITTING" /\ "FAILED" \in Observed /\ "SUBMITTING" \notin Ended
    BY <1>3 DEF Fail, FailTask, Observed, Ended
  <2> QED
    BY <1>2, <1>3, <2>1 DEF Fail, FailTask
<1>4. ASSUME NEW t \in Tasks, NEW s \in Observed, Observe(t, s) PROVE Silent \/ Tell(t, s)
  <2>1. s \in Follows(status[t]) /\ status[t] \notin Ended
    BY <1>4 DEF Observe, ObserveTask, Follows, Ended
  <2> QED
    BY <1>2, <1>4, <2>1 DEF Observe, ObserveTask
<1>5. ASSUME NEW b \in Barriers, CommitBarrier(b) PROVE Silent
  BY <1>5 DEF CommitBarrier, Quiet, Events, BarrierEvents
<1>6. ASSUME NEW c \in Controllers,
             \/ ReadWorkflow(c) \/ ReadEvents(c) \/ ReadComponents(c)
             \/ Decide(c) \/ CutShort(c)
      PROVE  Silent
  BY <1>6 DEF ReadWorkflow, ReadEvents, ReadComponents, Decide, CutShort, Quiet, taskVars
<1>7. ASSUME NEW c \in Controllers, SaveState(c) \/ Finish(c) PROVE Silent
  <2>1. flow.status # "NONE"
    BY <1>7 DEF SaveState, Finish, Verdicts, IInv, Unborn
  <2> QED
    BY <1>7, <2>1 DEF SaveState, Finish, Quiet, taskVars
<1>8. ASSUME NEW c \in Controllers, NEW d \in todo[c], ReplaceFails(c, d) \/ Replace(c, d),
             ~(Replace(c, d) /\ Newer(d))
      PROVE  Silent
  BY <1>8 DEF ReplaceFails, Replace, Quiet, taskVars
<1>9. UNCHANGED vars => Silent
  BY DEF vars, taskVars, Quiet
<1> HIDE DEF Silent
<1> DEFINE Telling == \E t \in Tasks, s \in Observed : Tell(t, s)
           Replacing == \E c \in Controllers : \E d \in todo[c] : Replace(c, d) /\ Newer(d)
<1>10. (\E t \in Tasks : SubmitTask(t) \/ MoveTask(t) \/ Fail(t)) => Silent \/ Telling
  <2>1. "FAILED" \in Observed
    BY DEF Observed, Ended
  <2> QED
    BY <1>1, <1>3, <2>1
<1>11. (\E t \in Tasks, s \in Observed : Observe(t, s)) => Silent \/ Telling
  BY <1>4
<1>12. (\E b \in Barriers : CommitBarrier(b)) => Silent
  BY <1>5
<1>13. (\E c \in Controllers : Reconcile(c) \/ CutShort(c)) => Silent \/ Replacing
  BY <1>6, <1>7, <1>8 DEF Reconcile
<1> HIDE DEF Telling, Replacing
<1>14. Silent \/ Telling \/ SubmitWorkflow \/ Replacing
  BY <1>9, <1>10, <1>11, <1>12, <1>13 DEF Next
<1> QED
  BY <1>14 DEF Silent, Telling, Replacing

\* Numbers that the rows hold.
LEMMA RowTypes ==
  ASSUME IInv
  PROVE  /\ \A t \in Tasks : owner[t] # Null =>
              /\ owner[t] \in Owners /\ owner[t].key \in Keys /\ owner[t].generation \in Nat
              /\ owner[t] = [key |-> owner[t].key, generation |-> owner[t].generation]
         /\ \A k \in Linked : k \in Keys /\ component[k].generation \in Nat
         /\ Len(log) \in Nat /\ DOMAIN log = 1..Len(log)
         /\ \A i \in DOMAIN log : log[i].kind # "BarrierCommitted" =>
              log[i].generation \in Nat /\ log[i].kind \in Observed
<1>1. ASSUME NEW t \in Tasks, owner[t] # Null
      PROVE  /\ owner[t] \in Owners /\ owner[t].key \in Keys /\ owner[t].generation \in Nat
             /\ owner[t] = [key |-> owner[t].key, generation |-> owner[t].generation]
  <2>1. owner[t] \in Owners
    BY <1>1 DEF IInv, TypeOK
  <2> QED
    BY <2>1, WorkflowAssumption DEF Owners
<1>2. \A k \in Linked : k \in Keys /\ component[k].generation \in Nat
  BY WorkflowAssumption DEF IInv, TypeOK, Linked
<1>3. Len(log) \in Nat /\ DOMAIN log = 1..Len(log)
  BY DEF IInv, TypeOK
<1>4. ASSUME NEW i \in DOMAIN log, log[i].kind # "BarrierCommitted"
      PROVE  log[i].generation \in Nat /\ log[i].kind \in Observed
  <2>1. log[i] \in TaskEvents
    BY <1>4 DEF IInv, TypeOK, Events, BarrierEvents
  <2> QED
    BY <2>1, WorkflowAssumption DEF TaskEvents
<1> QED
  BY <1>1, <1>2, <1>3, <1>4

\* The events of a key are of its generations so far.
LEMMA EventsSoFar ==
  ASSUME IInv, NEW i \in DOMAIN log, log[i].kind # "BarrierCommitted"
  PROVE  /\ log[i].key \in Linked /\ log[i].generation <= component[log[i].key].generation
         /\ \E t \in Tasks : /\ owner[t] # Null /\ owner[t].key = log[i].key
                             /\ owner[t].generation = log[i].generation
<1>1. PICK t \in Tasks : owner[t] = [key |-> log[i].key, generation |-> log[i].generation]
  BY DEF IInv, OwnersApart
<1>2. log[i].key \in Keys /\ log[i].generation \in Generations
  BY DEF IInv, TypeOK, Events, TaskEvents, BarrierEvents
<1>3. owner[t] # Null
  BY <1>1, <1>2, NullAssumption DEF Owners
<1> QED
  BY <1>1, <1>3 DEF IInv, OwnersApart

\* Nothing new of any task.
LEMMA QuietTurns ==
  ASSUME IInv, Overlap = FALSE, [Next]_vars, GenerationsInTurn, Quiet,
         UNCHANGED <<owner, component>>
  PROVE  GenerationsInTurn'
<1>1. \A t \in Tasks : status[t] \in Ended => status'[t] \in Ended
  BY EndedStays
<1>2. ASSUME NEW t \in Tasks, owner'[t] # Null
      PROVE  /\ \A i \in EventsOf(owner[t])' : log'[i].kind \in Ended => status'[t] \in Ended
             /\ owner'[t].generation < component'[owner'[t].key].generation => status'[t] \in Ended
  <2>1. /\ EventsOf(owner[t])' = EventsOf(owner[t])
        /\ \A i \in EventsOf(owner[t]) : log'[i] = log[i]
    BY QuietEvents DEF EventsOf
  <2> QED
    BY <1>1, <1>2, <2>1 DEF GenerationsInTurn
<1>3. ASSUME NEW i \in DOMAIN log', log'[i].kind # "BarrierCommitted"
      PROVE  i \in DOMAIN log /\ log'[i] = log[i]
  <2>1. CASE UNCHANGED log
    BY <1>3, <2>1
  <2>2. ASSUME NEW e \in Events, log' = Append(log, e), e.kind = "BarrierCommitted"
        PROVE  i \in DOMAIN log /\ log'[i] = log[i]
    <3>1. /\ DOMAIN log' = 1..(Len(log) + 1) /\ log'[Len(log) + 1] = e
          /\ \A j \in 1..Len(log) : log'[j] = log[j]
      BY <2>2, AppendProperties DEF IInv, TypeOK
    <3>2. i # Len(log) + 1
      BY <1>3, <2>2, <3>1
    <3> QED
      BY <3>1, <3>2, RowTypes
  <2> QED
    BY <2>1, <2>2 DEF Quiet
<1>4. ASSUME NEW i \in DOMAIN log', NEW j \in DOMAIN log', i < j,
             log'[i].kind # "BarrierCommitted", log'[j].kind # "BarrierCommitted",
             log'[i].key = log'[j].key
      PROVE  log'[i].generation <= log'[j].generation
  BY <1>3, <1>4 DEF GenerationsInTurn
<1> QED
  BY <1>2, <1>4 DEF GenerationsInTurn

\* Only the present task of a component tells anything.
LEMMA TellTurns ==
  ASSUME IInv, Overlap = FALSE, [Next]_vars, GenerationsInTurn,
         NEW t \in Tasks, NEW s \in Observed, Tell(t, s)
  PROVE  GenerationsInTurn'
<1> DEFINE e == [kind |-> s, key |-> owner[t].key, generation |-> owner[t].generation]
           n == Len(log) + 1
           k == owner[t].key
<1>1. /\ owner[t] # Null /\ status[t] \notin Ended /\ status'[t] = s
      /\ log' = Append(log, e) /\ UNCHANGED <<owner, component>>
  BY DEF Tell
<1>2. e \in Events /\ e.kind # "BarrierCommitted"
  BY <1>1, RowTypes DEF Events, TaskEvents, Owners, Observed, Ended
<1>3. /\ DOMAIN log' = 1..n /\ log'[n] = e /\ DOMAIN log = 1..(n - 1) /\ n - 1 \in Nat
      /\ \A j \in DOMAIN log : log'[j] = log[j]
  BY <1>1, <1>2, AppendProperties, RowTypes DEF IInv, TypeOK
<1>4. \A u \in Tasks : status[u] \in Ended => status'[u] \in Ended
  BY EndedStays
<1>5. component[k].generation = owner[t].generation
  <2>1. ~(owner[t].generation < component[k].generation)
    BY <1>1 DEF GenerationsInTurn
  <2>2. k \in Linked /\ owner[t].generation <= component[k].generation
    BY <1>1 DEF IInv, OwnersApart
  <2>3. owner[t].generation \in Nat /\ component[k].generation \in Nat
    BY <1>1, <2>2, RowTypes
  <2> QED
    BY <2>1, <2>2, <2>3
<1>6. ASSUME NEW u \in Tasks, owner[u] # Null, NEW i \in DOMAIN log', Tells(log'[i], owner[u]),
             log'[i].kind \in Ended
      PROVE  status'[u] \in Ended
  <2>1. CASE i = n
    <3>1. owner[u].key = owner[t].key /\ owner[u].generation = owner[t].generation
      BY <1>3, <1>6, <2>1 DEF Tells
    <3>2. owner[u] = owner[t]
      BY <1>1, <1>6, <3>1, RowTypes
    <3>3. u = t
      BY <1>1, <1>6, <3>2 DEF IInv, OwnersApart
    <3> QED
      BY <1>1, <1>3, <1>6, <2>1, <3>3
  <2>2. CASE i # n
    <3>1. i \in DOMAIN log
      BY <1>3, <2>2
    <3>2. i \in EventsOf(owner[u]) /\ log[i].kind \in Ended
      BY <1>3, <1>6, <3>1 DEF EventsOf
    <3> QED
      BY <1>4, <1>6, <3>2 DEF GenerationsInTurn
  <2> QED
    BY <2>1, <2>2
<1>7. ASSUME NEW u \in Tasks, owner[u] # Null,
             owner[u].generation < component[owner[u].key].generation
      PROVE  status'[u] \in Ended
  BY <1>4, <1>7 DEF GenerationsInTurn
<1>8. ASSUME NEW i \in DOMAIN log', NEW j \in DOMAIN log', i < j,
             log'[i].kind # "BarrierCommitted", log'[j].kind # "BarrierCommitted",
             log'[i].key = log'[j].key
      PROVE  log'[i].generation <= log'[j].generation
  <2>1. i \in DOMAIN log /\ log'[i] = log[i]
    BY <1>3, <1>8
  <2>2. CASE j = n
    BY <1>3, <1>5, <1>8, <2>1, <2>2, EventsSoFar
  <2>3. CASE j # n
    <3>1. j \in DOMAIN log /\ log'[j] = log[j]
      BY <1>3, <2>3
    <3> QED
      BY <1>8, <2>1, <3>1 DEF GenerationsInTurn
  <2> QED
    BY <2>2, <2>3
<1> HIDE DEF e, n, k
<1> QED
  BY <1>1, <1>6, <1>7, <1>8 DEF GenerationsInTurn, EventsOf

\* The first tasks have told nothing.
LEMMA SubmitTurns ==
  ASSUME IInv, GenerationsInTurn, SubmitWorkflow
  PROVE  GenerationsInTurn'
<1>1. flow.status = "NONE" /\ UNCHANGED log
  BY DEF SubmitWorkflow
<1>2. \A t \in Tasks : owner[t] = Null
  BY <1>1 DEF IInv, Unborn
<1>3. \A i \in DOMAIN log : log[i].kind = "BarrierCommitted"
  BY <1>2, EventsSoFar
<1>4. ASSUME NEW t \in Tasks, owner'[t] # Null
      PROVE  /\ EventsOf(owner[t])' = {}
             /\ ~(owner'[t].generation < component'[owner'[t].key].generation)
  <2>1. PICK d \in Wanted(<<>>) : owner'[t] = OwnerFor(d)
    BY <1>4, FirstLinks
  <2>2. component'[d.key] = Link(d)
    BY FirstLinks
  <2>3. d.generation \in Nat
    BY WorkflowAssumption DEF Wanted, Components
  <2>4. ~(d.generation < d.generation)
    BY <2>3
  <2>5. EventsOf(owner[t])' = {}
    BY <1>1, <1>3 DEF EventsOf, Tells
  <2> QED
    BY <2>1, <2>2, <2>4, <2>5 DEF OwnerFor, Link
<1> QED
  BY <1>1, <1>3, <1>4 DEF GenerationsInTurn

\* A newer generation is wanted only once the one before has ended.
LEMMA OlderHaveEnded ==
  ASSUME IInv, RestartsEnded, GenerationsInTurn, StartLinked,
         NEW c \in Controllers, NEW d \in todo[c], at[c] # "idle", d.key \in Linked, Newer(d),
         NEW t \in Tasks, owner[t] # Null, owner[t].key = d.key
  PROVE  status[t] \in Ended
<1> DEFINE k == d.key
           g == component[k].generation
<1>1. d \in Components /\ d.generation \in Nat
  <2>1. d \in Components
    BY DEF IInv, TypeOK
  <2> QED
    BY <2>1, WorkflowAssumption DEF Components
<1>2. d.generation > g /\ g \in Nat /\ owner[t].generation \in Nat /\ owner[t].generation <= g
  BY RowTypes DEF Newer, IInv, OwnersApart
<1>3. PICK n \in 0..Len(log) : d \in Desired(SubSeq(log, 1, n))
  BY DEF IInv, OnlyDesired, DesiredOnce
<1> DEFINE p == SubSeq(log, 1, n)
<1>4. p \in Seq(Events) /\ d \in Wanted(p)
  BY <1>1, <1>3, PrefixesOfLog DEF Wanted
<1>5. \A i \in DOMAIN p : i \in DOMAIN log /\ p[i] = log[i]
  <2>1. log \in Seq(Events) /\ Len(log) \in Nat /\ DOMAIN log = 1..Len(log) /\ n \in Int
    BY RowTypes DEF IInv, TypeOK
  <2>2. \A i \in 1..n : i \in 1..Len(log)
    BY <2>1
  <2>3. p = [i \in 1..n |-> log[i]]
    BY <2>1
  <2> QED
    BY <2>1, <2>2, <2>3
<1>6. d \notin Wanted(<<>>)
  <2>1. flow.status # "NONE"
    BY DEF IInv, Unborn
  <2> QED
    BY <1>1, <1>2, <2>1 DEF StartLinked, UpToDate
<1> HIDE DEF p
<1>7. PICK i \in DOMAIN log :
        /\ log[i].kind # "BarrierCommitted" /\ log[i].key = d.key
        /\ \/ log[i].generation = d.generation - 1 /\ log[i].kind \in Ended
           \/ log[i].generation >= d.generation
  BY <1>4, <1>5, <1>6 DEF RestartsEnded
<1>8. log[i].generation \in Nat /\ log[i].generation <= g
  BY <1>7, RowTypes, EventsSoFar
<1>9. log[i].generation = g /\ log[i].kind \in Ended
  BY <1>1, <1>2, <1>7, <1>8
<1>10. CASE owner[t].generation = g
  <2>1. i \in EventsOf(owner[t])
    BY <1>7, <1>9, <1>10 DEF EventsOf, Tells
  <2> QED
    BY <1>9, <2>1 DEF GenerationsInTurn
<1>11. CASE owner[t].generation # g
  <2>1. owner[t].generation < g
    BY <1>2, <1>11
  <2> QED
    BY <2>1 DEF GenerationsInTurn
<1> QED
  BY <1>10, <1>11

\* A replacement finds the generation before it ended, since the handler saw it end.
LEMMA ReplaceTurns ==
  ASSUME IInv, Overlap = FALSE, RestartsEnded, [Next]_vars, GenerationsInTurn, StartLinked,
         NEW c \in Controllers, NEW d \in todo[c], Replace(c, d), Newer(d)
  PROVE  GenerationsInTurn' /\ StartLinked'
<1>1. at[c] # "idle" /\ UNCHANGED <<log, flow>>
  BY DEF Replace
<1>2. \A t \in Tasks : status[t] \in Ended => status'[t] \in Ended
  BY EndedStays
<1>3. /\ d.key \in Keys /\ d.generation \in Nat
      /\ component'[d.key] = Link(d) /\ Link(d) # Null /\ Link(d).generation = d.generation
      /\ OwnerFor(d).generation = d.generation /\ OwnerFor(d).key = d.key
      /\ \A k \in Keys : k # d.key => component'[k] = component[k]
  BY ReplaceLinks, WorkflowAssumption
<1>4. ASSUME NEW t \in Tasks, owner'[t] # Null
      PROVE  /\ \A i \in EventsOf(owner[t])' : log'[i].kind \in Ended => status'[t] \in Ended
             /\ owner'[t].generation < component'[owner'[t].key].generation => status'[t] \in Ended
  <2>1. CASE owner'[t] = owner[t]
    <3>1. EventsOf(owner[t])' = EventsOf(owner[t])
      BY <1>1, <2>1 DEF EventsOf
    <3>2. CASE owner[t].key = d.key
      <4>1. d.key \in Linked
        BY <1>4, <2>1, <3>2 DEF IInv, OwnersApart
      <4>2. status'[t] \in Ended
        BY <1>1, <1>2, <1>4, <2>1, <3>2, <4>1, OlderHaveEnded
      <4> QED
        BY <4>2
    <3>3. CASE owner[t].key # d.key
      <4>1. component'[owner[t].key] = component[owner[t].key]
        BY <1>3, <1>4, <2>1, <3>3, RowTypes
      <4> QED
        BY <1>1, <1>2, <1>4, <2>1, <3>1, <4>1 DEF GenerationsInTurn
    <3> QED
      BY <3>2, <3>3
  <2>2. CASE owner'[t] = OwnerFor(d)
    <3>1. ASSUME NEW i \in DOMAIN log, Tells(log[i], OwnerFor(d)) PROVE FALSE
      <4>1. log[i].kind # "BarrierCommitted"
        BY <3>1 DEF Tells
      <4>2. PICK u \in Tasks : owner[u] = [key |-> log[i].key, generation |-> log[i].generation]
        BY <4>1 DEF IInv, OwnersApart
      <4>3. owner[u] = OwnerFor(d)
        BY <3>1, <4>2 DEF Tells, OwnerFor
      <4> QED
        BY <4>3, ReplaceLinks
    <3>2. EventsOf(owner[t])' = {}
      BY <1>1, <2>2, <3>1 DEF EventsOf
    <3>3. ~(d.generation < d.generation)
      BY <1>3
    <3> QED
      BY <1>3, <2>2, <3>2, <3>3
  <2> QED
    BY <1>4, <2>1, <2>2, ReplaceLinks
<1>5. GenerationsInTurn'
  BY <1>1, <1>4 DEF GenerationsInTurn
<1>6. ASSUME NEW e \in Wanted(<<>>), flow'.status # "NONE" PROVE UpToDate(e)'
  <2>1. UpToDate(e) /\ e.generation \in Nat
    BY <1>1, <1>6, WorkflowAssumption DEF StartLinked, Wanted, Components
  <2>2. e.key \in Linked /\ component[e.key].generation >= e.generation
        /\ component[e.key].generation \in Nat /\ e.key \in Keys
    BY <2>1, RowTypes DEF UpToDate
  <2>3. CASE e.key = d.key
    <3>1. d.generation >= e.generation
      BY <1>3, <2>1, <2>2, <2>3 DEF Newer
    <3> QED
      BY <1>3, <2>3, <3>1 DEF UpToDate, Linked
  <2>4. CASE e.key # d.key
    BY <1>3, <2>2, <2>4 DEF UpToDate, Linked
  <2> QED
    BY <2>3, <2>4
<1>7. StartLinked'
  BY <1>6 DEF StartLinked, Wanted
<1> QED
  BY <1>5, <1>7

\* Each step of a leader keeps the turns of the generations.
LEMMA TurnsStep ==
  ASSUME IInv, RestartsInTurn, [Next]_vars, GenerationsInTurn, StartLinked
  PROVE  GenerationsInTurn' /\ StartLinked'
<1>1. Overlap = FALSE /\ RestartsEnded
  BY DEF RestartsInTurn
<1>2. ASSUME UNCHANGED component, flow'.status # "NONE", flow.status # "NONE" PROVE StartLinked'
  BY <1>2 DEF StartLinked, UpToDate, Linked, Wanted
<1>3. CASE /\ Quiet /\ UNCHANGED <<owner, component>>
           /\ flow.status = "NONE" => flow'.status = "NONE"
  <2>1. StartLinked'
    BY <1>2, <1>3 DEF StartLinked
  <2> QED
    BY <1>1, <1>3, <2>1, QuietTurns
<1>4. ASSUME NEW t \in Tasks, NEW s \in Observed, Tell(t, s)
      PROVE  GenerationsInTurn' /\ StartLinked'
  <2>1. UNCHANGED <<component, flow>>
    BY <1>4 DEF Tell
  <2>2. StartLinked'
    BY <1>2, <2>1 DEF StartLinked
  <2> QED
    BY <1>1, <1>4, <2>2, TellTurns
<1>5. CASE SubmitWorkflow
  <2>1. ASSUME NEW d \in Wanted(<<>>) PROVE UpToDate(d)'
    <3>1. component'[d.key] = Link(d) /\ d.key \in Keys /\ d.generation \in Nat
      BY <1>5, FirstLinks, WorkflowAssumption DEF Wanted, Components
    <3>2. Link(d) # Null /\ Link(d).generation = d.generation
      BY NullAssumption DEF Link, Wanted, Components
    <3> QED
      BY <3>1, <3>2 DEF UpToDate, Linked
  <2>2. StartLinked'
    BY <2>1 DEF StartLinked, Wanted
  <2> QED
    BY <1>5, <2>2, SubmitTurns
<1>6. ASSUME NEW c \in Controllers, NEW d \in todo[c], Replace(c, d), Newer(d)
      PROVE  GenerationsInTurn' /\ StartLinked'
  BY <1>1, <1>6, ReplaceTurns
<1> HIDE DEF StartLinked, GenerationsInTurn
<1> QED
  BY <1>1, <1>3, <1>4, <1>5, <1>6, StepKinds

\* Generations of a component take turns (replace_component asks no status).
THEOREM GenerationsTakeTurns ==
  ASSUME RestartsInTurn
  PROVE  Spec => []GenerationsInTurn
<1>1. Init => GenerationsInTurn /\ StartLinked
  BY DEF Init, GenerationsInTurn, StartLinked
<1>2. IInv /\ GenerationsInTurn /\ StartLinked /\ [Next]_vars => GenerationsInTurn' /\ StartLinked'
  BY TurnsStep
<1> QED
  BY <1>1, <1>2, WorkflowInvariant, PTL DEF Spec

-----------------------------------------------------------------------------
(* The view.                                                               *)

\* A task that belongs to the workflow has the generation of the component it is linked to.
LEMMA LinkedOwner ==
  ASSUME IInv, TaskNamesGeneration, NEW k \in Linked, owner[TaskOf(k)] # Null
  PROVE  owner[TaskOf(k)].key = k /\ owner[TaskOf(k)].generation = component[k].generation
<1>1. TaskOf(k) \in Tasks
  BY DEF IInv, TypeOK, Linked, TaskOf
<1>2. ComponentRow(k).task = TaskRow(TaskOf(k)).task
  BY DEF ComponentRow, TaskRow
<1>3. /\ ComponentRow(k).key = TaskRow(TaskOf(k)).key
      /\ ComponentRow(k).generation = TaskRow(TaskOf(k)).generation
  BY <1>1, <1>2, RowsWanted DEF TaskNamesGeneration
<1> QED
  BY <1>3 DEF ComponentRow, TaskRow

\* The last event of a key is the last event of its present task.
LEMMA LastOfKey ==
  ASSUME IInv, TaskNamesGeneration, GenerationsInTurn, NEW k \in Linked,
         owner[TaskOf(k)] # Null, EventsOf(owner[TaskOf(k)]) # {}
  PROVE  /\ OfKey(log, DOMAIN log, k) # {}
         /\ log[Max(OfKey(log, DOMAIN log, k))].kind = status[TaskOf(k)]
<1> DEFINE t == TaskOf(k)
           K == OfKey(log, DOMAIN log, k)
<1>1. t \in Tasks
  BY DEF IInv, TypeOK, Linked, TaskOf
<1>2. owner[t].key = k /\ owner[t].generation = component[k].generation
  BY LinkedOwner
<1>3. PICK i \in EventsOf(owner[t]) : /\ \A j \in EventsOf(owner[t]) : j <= i
                                      /\ log[i].kind = status[t]
  BY <1>1 DEF IInv, LastEventIsStatus
<1>4. i \in K /\ log[i].generation = component[k].generation
  BY <1>2, <1>3 DEF EventsOf, Tells, OfKey, IsBarrier
<1>5. K \in SUBSET (1..Len(log)) /\ Len(log) \in Nat
  BY RowTypes DEF OfKey
<1>6. ASSUME NEW j \in K PROVE j <= i
  <2>1. j \in DOMAIN log /\ log[j].kind # "BarrierCommitted" /\ log[j].key = k
    BY DEF OfKey, IsBarrier
  <2>2. i \in DOMAIN log /\ log[i].kind # "BarrierCommitted" /\ log[i].key = k
    BY <1>4 DEF OfKey, IsBarrier
  <2>3. i \in Nat /\ j \in Nat
    BY <2>1, <2>2, RowTypes
  <2>4. CASE i < j
    <3>1. log[i].generation <= log[j].generation
      BY <2>1, <2>2, <2>4 DEF GenerationsInTurn
    <3>2. log[j].generation <= component[k].generation
      BY <2>1, EventsSoFar
    <3>3. log[j].generation = component[k].generation
      BY <1>4, <2>1, <2>2, <3>1, <3>2, RowTypes
    <3>4. j \in EventsOf(owner[t])
      BY <1>2, <2>1, <3>3 DEF EventsOf, Tells
    <3> QED
      BY <1>3, <3>4
  <2> QED
    BY <2>3, <2>4
<1>7. i = Max(K)
  BY <1>4, <1>5, <1>6, LastPosition
<1> QED
  BY <1>3, <1>4, <1>7

\* What the log holds, the handler that has read it all sees (reduce).
LEMMA ViewOfLog ==
  ASSUME IInv, Linked = {} \/ (TaskNamesGeneration /\ GenerationsInTurn)
  PROVE  ViewIsCurrent
<1> SUFFICES ASSUME flow.cursor = Len(log)
             PROVE  /\ \A k \in Linked :
                         owner[TaskOf(k)] # Null /\ EventsOf(owner[TaskOf(k)]) # {} =>
                           /\ k \in DOMAIN View(flow.state).component_status
                           /\ View(flow.state).component_status[k] = status[TaskOf(k)]
                    /\ LET barriers == {i \in DOMAIN log : log[i].kind = "BarrierCommitted"}
                       IN  IF barriers = {} THEN View(flow.state).last_barrier = NoBarrier
                           ELSE View(flow.state).last_barrier = log[Max(barriers)].barrier
  BY DEF ViewIsCurrent
<1>1. log \in Seq(Events)
  BY DEF IInv, TypeOK
<1>2. flow.state = log
  <2>1. flow.state = SubSeq(log, 1, Len(log))
    BY DEF IInv, StateIsReplay, IsReplay
  <2> QED
    BY <1>1, <2>1
<1>3. View(flow.state) = Seen(log, DOMAIN log)
  BY <1>1, <1>2, FoldIsSeen
<1>4. ASSUME NEW k \in Linked, owner[TaskOf(k)] # Null, EventsOf(owner[TaskOf(k)]) # {}
      PROVE  /\ k \in DOMAIN View(flow.state).component_status
             /\ View(flow.state).component_status[k] = status[TaskOf(k)]
  <2>1. /\ OfKey(log, DOMAIN log, k) # {}
        /\ log[Max(OfKey(log, DOMAIN log, k))].kind = status[TaskOf(k)]
    BY <1>4, LastOfKey
  <2>2. k \in {log[i].key : i \in DOMAIN log \ BarriersIn(log, DOMAIN log)}
    BY <2>1 DEF OfKey, BarriersIn
  <2> QED
    BY <1>3, <2>1, <2>2 DEF Seen
<1>5. BarriersIn(log, DOMAIN log) = {i \in DOMAIN log : log[i].kind = "BarrierCommitted"}
  BY DEF BarriersIn, IsBarrier
<1>6. View(flow.state).last_barrier =
        IF BarriersIn(log, DOMAIN log) = {} THEN NoBarrier
        ELSE log[Max(BarriersIn(log, DOMAIN log))].barrier
  BY <1>3 DEF Seen
<1> QED
  BY <1>4, <1>5, <1>6

\* A handler that has read the whole log sees every component's present task as it is, and
\* the last barrier (StaticMultiAutoResumable.reduce).
THEOREM ViewStaysCurrent ==
  ASSUME RestartsInTurn
  PROVE  Spec => []ViewIsCurrent
<1>1. IInv /\ GenerationsInTurn => ViewIsCurrent
  BY ViewOfLog DEF RestartsInTurn
<1> QED
  BY <1>1, WorkflowInvariant, GenerationsTakeTurns, PTL

-----------------------------------------------------------------------------
(* What a verdict is worth once the workflow has ended.                    *)

\* completion_result and failure_reason are those of StaticMultiAutoResumable.
JudgesByRows ==
    \A past, rows : /\ Completes(past, rows) <=> StaticCompletes(past, rows)
                    /\ Fails(past, rows) <=> StaticFails(past, rows)

\* The rows that a verdict is about stay: the components when no pass is under way, and
\* the status of what has ended (replace_component, observe_job, fail_task).
LEMMA EndedRowsStay ==
  ASSUME IInv, Leading, PassIsCurrent, [Next]_vars, HasEnded
  PROVE  /\ flow' = flow /\ DOMAIN Rows' = DOMAIN Rows
         /\ \A k \in DOMAIN Rows :
              Rows[k].status \in Ended => Rows'[k].status = Rows[k].status
<1>1. \A c \in Controllers : at[c] = "idle"
  BY DEF PassIsCurrent, Current, HasEnded, Verdicts
<1>2. ~SubmitWorkflow
  BY DEF SubmitWorkflow, HasEnded, Verdicts
<1>3. flow' = flow
  <2>1. \A c \in Controllers : ~SaveState(c) /\ ~Finish(c)
    BY <1>1 DEF SaveState, Finish, Verdicts
  <2> QED
    BY <1>2, <2>1, FlowChanges
<1>4. component' = component
  <2>1. ASSUME NEW t \in Tasks, SubmitTask(t) \/ MoveTask(t) \/ Fail(t) PROVE component' = component
    BY <2>1 DEF SubmitTask, MoveTask, Fail
  <2>2. ASSUME NEW t \in Tasks, NEW s \in Observed, Observe(t, s) PROVE component' = component
    BY <2>2 DEF Observe
  <2>3. ASSUME NEW b \in Barriers, CommitBarrier(b) PROVE component' = component
    BY <2>3 DEF CommitBarrier
  <2>4. ASSUME NEW c \in Controllers, Reconcile(c) \/ CutShort(c) PROVE component' = component
    <3>1. CASE ReadWorkflow(c)
      BY <3>1 DEF ReadWorkflow
    <3>2. CASE CutShort(c)
      BY <3>2 DEF CutShort
    <3>3. ~ReadEvents(c) /\ ~ReadComponents(c) /\ ~SaveState(c) /\ ~Decide(c) /\ ~Finish(c)
      BY <1>1 DEF ReadEvents, ReadComponents, SaveState, Decide, Finish, Verdicts
    <3>4. \A d \in todo[c] : ~Replace(c, d) /\ ~ReplaceFails(c, d)
      BY <1>1 DEF Replace, ReplaceFails
    <3> QED
      BY <2>4, <3>1, <3>2, <3>3, <3>4 DEF Reconcile
  <2>5. CASE UNCHANGED vars
    BY <2>5 DEF vars
  <2> QED
    BY <1>2, <2>1, <2>2, <2>3, <2>4, <2>5 DEF Next
<1>5. Linked' = Linked /\ \A k \in Linked : TaskOf(k)' = TaskOf(k) /\ TaskOf(k) \in Tasks
  BY <1>4 DEF Linked, TaskOf, IInv, TypeOK
<1>6. \A k \in Linked : status[TaskOf(k)] \in Ended => status'[TaskOf(k)] = status[TaskOf(k)]
  BY <1>5, EndedStays DEF Leading
<1>7. DOMAIN Rows = Linked /\ \A k \in Linked : Rows[k].status = status[TaskOf(k)]
  BY DEF Rows
<1>8. DOMAIN Rows' = Linked /\ \A k \in Linked : Rows'[k].status = status'[TaskOf(k)]
  BY <1>5 DEF Rows
<1>9. ASSUME NEW k \in DOMAIN Rows, Rows[k].status \in Ended
      PROVE  Rows'[k].status = Rows[k].status
  BY <1>6, <1>7, <1>8, <1>9
<1> QED
  BY <1>3, <1>7, <1>8, <1>9

\* A workflow that was called SUCCEEDED keeps SUCCEEDED tasks only, and one that was called
\* FAILED keeps a failed component (complete_workflow, fail_workflow).
THEOREM VerdictsStand ==
  ASSUME Leading, JudgesByRows
  PROVE  Spec => []VerdictStands
<1>1. Init => VerdictStands
  BY DEF Init, VerdictStands
<1>2. IInv /\ PassIsCurrent /\ VerdictStands /\ [Next]_vars => VerdictStands'
  <2> SUFFICES ASSUME IInv, PassIsCurrent, VerdictStands, [Next]_vars
               PROVE  VerdictStands'
    OBVIOUS
  <2>1. CASE HasEnded
    <3>1. flow' = flow /\ DOMAIN Rows' = DOMAIN Rows
      BY <2>1, EndedRowsStay
    <3>2. \A k \in DOMAIN Rows :
            Rows[k].status \in Ended => Rows'[k].status = Rows[k].status
      BY <2>1, EndedRowsStay
    <3>3. {"SUCCEEDED", "FAILED"} \subseteq Ended
      BY DEF Ended
    <3>4. StaticCompletes(flow.state, Rows) => StaticCompletes(flow.state, Rows)'
      BY <3>1, <3>2, <3>3 DEF StaticCompletes
    <3>5. StaticFails(flow.state, Rows) => StaticFails(flow.state, Rows)'
      BY <3>1, <3>2, <3>3 DEF StaticFails
    <3> QED
      BY <3>1, <3>4, <3>5 DEF VerdictStands
  <2>2. CASE ~HasEnded /\ HasEnded'
    <3>1. PICK c \in Controllers : Finish(c)
      BY <2>2, EndIsFinish
    <3>2. at[c] \in Verdicts /\ Current(c)
      BY <3>1 DEF Finish, PassIsCurrent
    <3>3. /\ flow'.status = at[c] /\ flow'.state = flow.state
          /\ UNCHANGED <<status, owner, component>>
      BY <3>1 DEF Finish, taskVars, IInv, TypeOK
    <3>4. UNCHANGED Rows
      BY <3>3, RowsKept
    <3>5. /\ StaticCompletes(flow.state, Rows) <=> at[c] = "SUCCEEDED"
          /\ StaticFails(flow.state, Rows) \/ at[c] = "SUCCEEDED"
      BY <3>2 DEF Current, JudgesByRows
    <3> QED
      BY <3>2, <3>3, <3>4, <3>5 DEF VerdictStands, Verdicts, StaticCompletes, StaticFails
  <2>3. CASE ~HasEnded'
    BY <2>3 DEF HasEnded, Verdicts, VerdictStands
  <2> QED
    BY <2>1, <2>2, <2>3
<1> QED
  BY <1>1, <1>2, WorkflowInvariant, ReadsStayCurrent, PTL DEF Spec

-----------------------------------------------------------------------------
(* The built-in handler itself: nothing is assumed of its components, since *)
(* submit_workflow refuses those that share a task.                         *)

\* desired_components and the verdicts of StaticMultiAutoResumable, and one leader.
BuiltIn ==
    /\ Overlap = FALSE /\ JudgesByRows
    /\ \A past \in Seq(Events) : Desired(past) = StaticDesired(past)

TasksDiffer ==
    \A d, e \in Components \cap Specified : d.key = e.key \/ d.task = e.task => d = e

\* A handler that always wants the same components restarts none.
LEMMA BuiltInRestartsInTurn ==
  ASSUME BuiltIn, TasksDiffer
  PROVE  RestartsInTurn /\ Leading
<1>1. <<>> \in Seq(Events)
  OBVIOUS
<1>2. \A p \in Seq(Events) : Wanted(p) = Components \cap Specified
  BY DEF BuiltIn, StaticDesired, Wanted
<1>3. TaskNamesKey /\ TaskNamesGeneration
  BY <1>2 DEF TaskNamesKey, TaskNamesGeneration, TasksDiffer
<1>4. RestartsEnded
  BY <1>1, <1>2 DEF RestartsEnded
<1> QED
  BY <1>3, <1>4 DEF RestartsInTurn, Leading, BuiltIn

\* Components with one task are never submitted (the UNIQUE columns).
LEMMA NeverSubmitted ==
  ASSUME BuiltIn, ~TasksDiffer
  PROVE  Spec => [](flow.status = "NONE")
<1>1. Init => flow.status = "NONE"
  BY DEF Init
<1>2. IInv /\ flow.status = "NONE" /\ [Next]_vars => (flow.status = "NONE")'
  <2> SUFFICES ASSUME IInv, flow.status = "NONE", [Next]_vars
               PROVE  flow'.status = "NONE"
    OBVIOUS
  <2>1. ~SubmitWorkflow
    <3>1. <<>> \in Seq(Events)
      OBVIOUS
    <3>2. Wanted(<<>>) = Components \cap Specified
      BY <3>1 DEF BuiltIn, StaticDesired, Wanted
    <3>3. ASSUME SubmitWorkflow
          PROVE  \A d, e \in Wanted(<<>>) : d.key = e.key \/ d.task = e.task => d = e
      BY <3>3 DEF SubmitWorkflow
    <3> QED
      BY <3>2, <3>3 DEF TasksDiffer
  <2>2. \A c \in Controllers : ~SaveState(c) /\ ~Finish(c)
    BY DEF SaveState, Finish, Verdicts, IInv, Unborn
  <2>3. flow' = flow
    BY <2>1, <2>2, FlowChanges
  <2> QED
    BY <2>3
<1> QED
  BY <1>1, <1>2, WorkflowInvariant, PTL DEF Spec

\* With one leader and the built-in handler: what a pass reads stays so, the view of the
\* log is that of the tasks, and ends are true, final and borne out by the tasks for ever,
\* whatever the components are.
THEOREM BuiltInHandler ==
  ASSUME BuiltIn
  PROVE  Spec => /\ []PassIsCurrent /\ []GenerationsInTurn /\ []ViewIsCurrent
                 /\ []VerdictStands
                 /\ EndIsTrue /\ EndKnowsTasks /\ EndIsFinal
<1>1. CASE TasksDiffer
  <2>1. Leading /\ RestartsInTurn
    BY <1>1, BuiltInRestartsInTurn
  <2>2. Spec => []PassIsCurrent /\ EndIsTrue /\ EndKnowsTasks /\ EndIsFinal
    BY <2>1, ReadsStayCurrent, EndsAreTrue, EndsKnowAllTasks, EndsAreFinal
  <2>3. Spec => []GenerationsInTurn /\ []ViewIsCurrent /\ []VerdictStands
    BY <2>1, GenerationsTakeTurns, ViewStaysCurrent, VerdictsStand DEF BuiltIn
  <2> QED
    BY <2>2, <2>3
<1>2. CASE ~TasksDiffer
  <2>1. Spec => [](flow.status = "NONE")
    BY <1>2, NeverSubmitted
  <2>2. IInv /\ flow.status = "NONE" => PassIsCurrent /\ GenerationsInTurn /\ ViewIsCurrent
    <3> SUFFICES ASSUME IInv, flow.status = "NONE"
                 PROVE  PassIsCurrent /\ GenerationsInTurn /\ ViewIsCurrent
      OBVIOUS
    <3>1. /\ \A t \in Tasks : owner[t] = Null
          /\ Linked = {} /\ \A c \in Controllers : at[c] = "idle"
      BY DEF IInv, Unborn, Linked
    <3>2. PassIsCurrent
      BY <3>1 DEF PassIsCurrent, Current, Verdicts
    <3>3. \A i \in DOMAIN log : log[i].kind = "BarrierCommitted"
      BY <3>1, EventsSoFar
    <3>4. GenerationsInTurn
      BY <3>1, <3>3 DEF GenerationsInTurn
    <3>5. ViewIsCurrent
      BY <3>1, ViewOfLog
    <3> QED
      BY <3>2, <3>4, <3>5
  <2>3. flow.status = "NONE" => ~HasEnded /\ VerdictStands
    BY DEF HasEnded, Verdicts, VerdictStands
  <2>4. (flow.status = "NONE")' => ~HasEnded'
    BY DEF HasEnded, Verdicts
  <2> QED
    BY <2>1, <2>2, <2>3, <2>4, WorkflowInvariant, PTL DEF EndIsTrue, EndKnowsTasks, EndIsFinal
<1> QED
  BY <1>1, <1>2
=============================================================================

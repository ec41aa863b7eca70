----------------------------- MODULE StaticMulti -----------------------------
(***************************************************************************)
(* StaticMultiAutoResumable: the handler of a fixed set of components.     *)
(* Its state is a view of the events: the last event of each key, and the  *)
(* last barrier.  Results of tasks and reasons of failure are left out.    *)
(***************************************************************************)
EXTENDS SequencesExt

CONSTANTS
    Specified,    \* payload["components"]: key, generation and task of each
    NoBarrier     \* last_barrier None

\* initial_state; () is the empty dict.
EmptyView == [component_status |-> <<>>, last_barrier |-> NoBarrier]

\* Mutant: the first status of a component is kept.
ReduceFirst(view, event) ==
    IF event.kind = "BarrierCommitted"
    THEN [view EXCEPT !.last_barrier = event.barrier]
    ELSE [view EXCEPT !.component_status = [k \in DOMAIN @ \cup {event.key} |->
                                              IF k \in DOMAIN @ THEN @[k] ELSE event.kind]]

\* reduce: barriers have no component_key.
Reduce(view, event) ==
    IF event.kind = "BarrierCommitted"
    THEN [view EXCEPT !.last_barrier = event.barrier]
    ELSE [view EXCEPT !.component_status = [k \in DOMAIN @ \cup {event.key} |->
                                              IF k = event.key THEN event.kind ELSE @[k]]]

\* The state after the events.
View(events) == FoldLeft(Reduce, EmptyView, events)

\* desired_components, whatever the state is.
StaticDesired(events) == Specified

\* Mutant: the components are judged by the events reduced.
StaticCompletesByEvents(events, rows) ==
    LET seen == View(events).component_status IN
    /\ DOMAIN seen = DOMAIN rows
    /\ \A k \in DOMAIN seen : seen[k] = "SUCCEEDED"

\* completion_result is not None: the rows of the tasks are all that counts.
StaticCompletes(events, rows) ==
    DOMAIN rows # {} /\ \A k \in DOMAIN rows : rows[k].status = "SUCCEEDED"

\* failure_reason is not None.
StaticFails(events, rows) == \E k \in DOMAIN rows : rows[k].status = "FAILED"
=============================================================================

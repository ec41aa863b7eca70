--------------------------- MODULE StaticWorkflow ---------------------------
(***************************************************************************)
(* A workflow led by StaticMultiAutoResumable, or by a handler derived     *)
(* from it: Workflow with reduce, completion_result and failure_reason     *)
(* those of StaticMulti.                                                   *)
(***************************************************************************)
EXTENDS Workflow, StaticMulti

\* Whenever the handler has caught up with the log, its view shows the status of each
\* component's present task that has told any, and the barrier that was committed last
\* (reduce keeps one status per key whatever the generation, from events that other
\* transactions wrote, some of them of tasks that have been replaced).
ViewIsCurrent ==
    flow.cursor = Len(log) =>
        LET view == View(flow.state)
            barriers == {i \in DOMAIN log : log[i].kind = "BarrierCommitted"}
        IN  /\ \A k \in Linked :
                 LET t == TaskOf(k) IN
                 owner[t] # Null /\ EventsOf(owner[t]) # {} =>
                     k \in DOMAIN view.component_status /\ view.component_status[k] = status[t]
            /\ IF barriers = {} THEN view.last_barrier = NoBarrier
               ELSE view.last_barrier = log[Max(barriers)].barrier

\* No two generations of a component ever run at once, nor do their events mix: one is
\* replaced only after it has ended, and what has ended never writes again.  It is what
\* the view relies on, which keeps one status per key (replace_component looks at no
\* status: this rests on when the handler asks, and on one leader).
GenerationsInTurn ==
    /\ \A t \in Tasks : owner[t] # Null =>
         /\ \A i \in EventsOf(owner[t]) : log[i].kind \in Ended => status[t] \in Ended
         /\ owner[t].generation < component[owner[t].key].generation => status[t] \in Ended
    /\ \A i, j \in DOMAIN log :
         /\ i < j /\ log[i].kind # "BarrierCommitted" /\ log[j].kind # "BarrierCommitted"
         /\ log[i].key = log[j].key
         => log[i].generation <= log[j].generation

\* A verdict stays true: no task of a workflow that has succeeded is ever anything but
\* SUCCEEDED, and one that has failed keeps a failed component (complete_workflow and
\* fail_workflow freeze the workflow, not its tasks).
VerdictStands ==
    /\ flow.status = "SUCCEEDED" => StaticCompletes(flow.state, Rows)
    /\ flow.status = "FAILED" => StaticFails(flow.state, Rows)
=============================================================================

------------------------------ MODULE MCWorkflow ------------------------------
(* Model-checking instances of Workflow with a handler that restarts what     *)
(* failed and adds a child, and of StaticWorkflow with a restarted root.      *)
EXTENDS StaticWorkflow

CONSTANTS root, child, r0, r1, r2, ch0, ch1, s, c1, c2, MaxRestarts

Atmost(n, m) == IF n < m THEN n ELSE m

RootTask == <<r0, r1, r2>>
ChildTask == <<ch0, ch1>>

Times(events, k, kind) ==
    Cardinality({i \in DOMAIN events : /\ events[i].kind = kind /\ kind \in Observed
                                       /\ events[i].key = k})

\* A new generation of the root after each failure, a new child after each success.
MCDesired(events) ==
    LET fails == Atmost(Times(events, root, "FAILED"), MaxRestarts)
        successes == Atmost(Times(events, root, "SUCCEEDED"), 2)
    IN  {[key |-> root, generation |-> fails, task |-> RootTask[fails + 1]]}
        \cup {[key |-> child, generation |-> n - 1, task |-> ChildTask[n]] : n \in {successes} \ {0}}

MCCompletes(events, rows) == StaticCompletes(events, rows)

MCFails(events, rows) ==
    \E k \in DOMAIN rows : rows[k].status \in {"FAILED", "CANCELLED"}

\* Two components; a session may submit the task of the second by itself.
MCSpecified == {[key |-> root, generation |-> 0, task |-> r0],
                [key |-> child, generation |-> 0, task |-> s]}

\* StaticMultiAutoResumable with desired_components overridden: a failed root is restarted.
MCRestarting(events) ==
    LET fails == Atmost(Times(events, root, "FAILED"), MaxRestarts)
    IN  {IF d.key = root THEN [d EXCEPT !.generation = fails, !.task = RootTask[fails + 1]] ELSE d
            : d \in StaticDesired(events)}

MCSymmetry == Permutations({c1, c2})
=============================================================================

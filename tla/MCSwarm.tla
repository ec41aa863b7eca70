------------------------------- MODULE MCSwarm -------------------------------
(* Model-checking instances of SwarmController.                             *)
EXTENDS SwarmController, TLC

CONSTANTS c1, c2, ordinary, second, recovery, pool

MCTasks == {ordinary, recovery}
MCClassOf == [t \in MCTasks |-> pool]
MCPriorityOf == [t \in MCTasks |-> IF t = recovery THEN 800 ELSE 500]

MCOrdinary == {ordinary, second}
MCOrdinaryClass == [t \in MCOrdinary |-> pool]
MCOrdinaryPriority == [t \in MCOrdinary |-> 500]

MCOneClass == [t \in {ordinary} |-> pool]
MCOnePriority == [t \in {ordinary} |-> 500]

MCOneWorker == {[target |-> 1, reserve |-> 0]}

Ids == Permutations({c1, c2}) \cup Permutations(MCOrdinary)

\* Two workers, one of them kept for recoveries.
MCPolicies == {[target |-> 2, reserve |-> 1]}
=============================================================================

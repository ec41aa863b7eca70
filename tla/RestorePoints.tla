---------------------------- MODULE RestorePoints ----------------------------
(***************************************************************************)
(* What checkpoints and barriers promise: a task publishes at most one URI *)
(* per sequence number for ever, and a barrier, once chosen, is for ever   *)
(* one consistent cut, a published checkpoint with the barrier's number    *)
(* for each of its keys, no two of them of one task.                       *)
(***************************************************************************)
CONSTANTS
    Keys,             \* component keys
    Tasks,            \* task ids
    SequenceNumbers,  \* checkpoint sequence numbers, and barriers
    Uris,             \* where checkpoints are stored
    Null              \* nothing chosen

VARIABLES
    published,   \* the checkpoints published so far, [task, sequence, uri]
    points       \* of each barrier its checkpoint per key, or Null

pointVars == <<published, points>>

PointsInit ==
    /\ published = {}
    /\ points = [b \in SequenceNumbers |-> Null]

\* A task publishes its checkpoint s, which has no other URI yet.
Publish(t, s, u) ==
    /\ \A p \in published : p.task = t /\ p.sequence = s => p.uri = u
    /\ published' = published \cup {[task |-> t, sequence |-> s, uri |-> u]}
    /\ UNCHANGED points

\* Barrier b becomes the cut through one published checkpoint b of each source task.
Choose(b, sources, uris) ==
    /\ points[b] = Null
    /\ \A k, o \in DOMAIN sources : sources[k] = sources[o] => k = o
    /\ \A k \in DOMAIN sources :
         [task |-> sources[k], sequence |-> b, uri |-> uris[k]] \in published
    /\ points' = [points EXCEPT ![b] =
                    [k \in DOMAIN sources |-> [sequence |-> b, uri |-> uris[k]]]]
    /\ UNCHANGED published

PointsNext ==
    \/ \E t \in Tasks, s \in SequenceNumbers, u \in Uris : Publish(t, s, u)
    \/ \E b \in SequenceNumbers, cut \in SUBSET Keys :
         \E sources \in [cut -> Tasks], uris \in [cut -> Uris] : Choose(b, sources, uris)

PointsSpec == PointsInit /\ [][PointsNext]_pointVars

\* A task has one URI per sequence number, and a barrier that was chosen is a cut through
\* published checkpoints of its own number, each of another task: a restart from it loads
\* one moment of the workflow (commit_barrier checks this once; nothing checks it again).
CutsConsistent ==
    /\ \A p, q \in published : p.task = q.task /\ p.sequence = q.sequence => p = q
    /\ \A b \in SequenceNumbers : points[b] # Null =>
         \E sources \in [DOMAIN points[b] -> Tasks] :
           /\ \A k, o \in DOMAIN sources : sources[k] = sources[o] => k = o
           /\ \A k \in DOMAIN sources :
                [task |-> sources[k], sequence |-> b, uri |-> points[b][k].uri] \in published

CutsKept ==
    /\ published \subseteq published'
    /\ \A b \in SequenceNumbers : points[b] # Null => points'[b] = points[b]

\* A checkpoint once published and a barrier once chosen stay as they are
\* (record_checkpoint and commit_barrier are asked again, late and in any order).
CutsStay == [][CutsKept]_pointVars
=============================================================================

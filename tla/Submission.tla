----------------------------- MODULE Submission -----------------------------
(***************************************************************************)
(* Idempotent submission: POST /v1/tasks by sessions that may repeat any   *)
(* request, because its answer was lost or because another session asks    *)
(* for the same work.  Only the two unique columns of the table tasks      *)
(* matter here, task_id and idempotency_key.                               *)
(***************************************************************************)
EXTENDS Integers, FiniteSets

CONSTANTS
    Ids,         \* task_id values, those given by clients and generated ones
    Generated,   \* the ids uuid4() may give
    Keys,        \* idempotency_key values
    NoKey,       \* idempotency_key NULL
    NoId,        \* no task_id in the request
    Requests     \* the requests clients send, and send again

ASSUME SubmissionAssumption ==
    /\ Generated \subseteq Ids
    /\ NoKey \notin Keys
    /\ NoId \notin Ids
    /\ Requests \subseteq [id : (Ids \ Generated) \cup {NoId}, key : Keys \cup {NoKey}]

Absent == "ABSENT"    \* there is no such row

ASSUME AbsentAssumption == Absent \notin Keys \cup {NoKey}

VARIABLES
    keyOf,      \* idempotency_key of each row, Absent where there is no row
    answers     \* the task ids each request has been answered with

vars == <<keyOf, answers>>

Init ==
    /\ keyOf = [i \in Ids |-> Absent]
    /\ answers = [r \in Requests |-> {}]

Rows == {i \in Ids : keyOf[i] # Absent}
RowsWithKey(k) == {i \in Rows : keyOf[i] = k}

\* The task_id of the row to insert: the request's, or a new uuid.
IdFor(r) == IF r.id = NoId THEN Generated \ Rows ELSE {r.id}

\* Mutant: idempotency_key has no UNIQUE constraint.
ConflictsById(r, i) == {u \in Rows : u = i}

\* The rows the INSERT collides with, by primary key or by UNIQUE idempotency_key.
Conflicts(r, i) ==
    {u \in Rows : u = i \/ (r.key # NoKey /\ keyOf[u] = r.key)}

\* Mutant: after a collision the row is always looked up by id.
AnswersById(r, i) == {i}

\* After a collision the row is looked up by key when there is one, then by id.
Answers(r, i) ==
    IF r.key # NoKey /\ RowsWithKey(r.key) # {} THEN RowsWithKey(r.key) ELSE {i}

\* submit_task inserts a row.
Insert(r) ==
    \E i \in IdFor(r) :
        /\ Conflicts(r, i) = {}
        /\ keyOf' = [keyOf EXCEPT ![i] = r.key]
        /\ answers' = [answers EXCEPT ![r] = @ \cup {i}]

\* submit_task finds the work already submitted and answers with the row it finds.
Repeat(r) ==
    \E i \in IdFor(r) :
        /\ Conflicts(r, i) # {}
        /\ \E a \in Answers(r, i) : answers' = [answers EXCEPT ![r] = @ \cup {a}]
        /\ UNCHANGED keyOf

Next == \E r \in Requests : Insert(r) \/ Repeat(r)

Spec == Init /\ [][Next]_vars

-----------------------------------------------------------------------------
\* A client never uses one task_id with two keys, or with and without a key.
OneKeyPerId ==
    \A r, s \in Requests : r.id = s.id /\ r.id # NoId => r.key = s.key

TypeOK ==
    /\ keyOf \in [Ids -> Keys \cup {NoKey, Absent}]
    /\ answers \in [Requests -> SUBSET Ids]

\* However often and in whatever order requests are repeated, a request that names
\* itself, by task_id or by key, is always answered with the same task (_insert_task
\* answers with the row found by key, or else by id).
Idempotent ==
    \A r \in Requests : r.key # NoKey \/ r.id # NoId =>
        \A a, b \in answers[r] : a = b

\* Sessions that share a key share the task, whichever of them came first, and tasks
\* with different keys stay apart.
KeyNamesTask ==
    \A r, s \in Requests : r.key # NoKey =>
        \A a \in answers[r], b \in answers[s] : a = b <=> r.key = s.key

\* The inductive invariant: keys are unique, a row given by a client carries the key of
\* the requests for its id, and answers carry the request's key or are its id.
IInv ==
    /\ TypeOK
    /\ \A i, j \in Rows : keyOf[i] = keyOf[j] /\ keyOf[i] # NoKey => i = j
    /\ \A r \in Requests : r.id \in Rows => keyOf[r.id] = r.key
    /\ \A r \in Requests : \A a \in answers[r] :
         /\ a \in Rows
         /\ keyOf[a] = r.key
         /\ r.key = NoKey /\ r.id # NoId => a = r.id
=============================================================================

--------------------------- MODULE SubmissionProofs ---------------------------
(* Submission is idempotent for every set of ids, keys and requests, as long *)
(* as no task_id is used with two keys.                                      *)
EXTENDS Submission, TLAPS

\* The row a request is answered with belongs to it: it has the request's key, and it is
\* the row of the request's id when there is no key to go by.
LEMMA AnswerBelongs ==
  ASSUME IInv, NEW r \in Requests, NEW i \in IdFor(r), Conflicts(r, i) # {},
         NEW a \in Answers(r, i)
  PROVE  a \in Rows /\ keyOf[a] = r.key /\ (r.key = NoKey /\ r.id # NoId => a = r.id)
<1>1. CASE r.key # NoKey /\ RowsWithKey(r.key) # {}
  BY <1>1 DEF Answers, RowsWithKey
<1>2. CASE ~(r.key # NoKey /\ RowsWithKey(r.key) # {})
  <2>1. a = i
    BY <1>2 DEF Answers
  <2>2. i \in Rows
    BY <1>2 DEF Conflicts, RowsWithKey
  <2>3. i = r.id /\ r.id # NoId
    BY <2>2 DEF IdFor
  <2>4. keyOf[i] = r.key
    BY <2>2, <2>3 DEF IInv
  <2> QED
    BY <2>1, <2>2, <2>3, <2>4
<1> QED
  BY <1>1, <1>2

\* An insert keeps the invariant: the new row is alone under its id and under its key.
LEMMA InsertStep ==
  ASSUME OneKeyPerId, IInv, NEW r \in Requests, Insert(r)
  PROVE  IInv'
<1>1. PICK i \in IdFor(r) :
        /\ Conflicts(r, i) = {}
        /\ keyOf' = [keyOf EXCEPT ![i] = r.key]
        /\ answers' = [answers EXCEPT ![r] = @ \cup {i}]
  BY DEF Insert
<1>2. /\ r.key \in Keys \cup {NoKey}
      /\ r.id = NoId \/ r.id \in Ids \ Generated
  BY SubmissionAssumption
<1>3. i \in Ids /\ i \notin Rows /\ (r.id # NoId => i = r.id)
  BY <1>1, <1>2, SubmissionAssumption DEF IdFor, Conflicts
<1>4. TypeOK'
  BY <1>1, <1>2, <1>3 DEF IInv, TypeOK
<1>5. Rows' = Rows \cup {i} /\ keyOf'[i] = r.key
  BY <1>1, <1>2, <1>3, AbsentAssumption DEF IInv, TypeOK, Rows
<1>6. \A j \in Rows : keyOf'[j] = keyOf[j] /\ j # i
  BY <1>1, <1>3 DEF IInv, TypeOK, Rows
<1>7. \A j, k \in Rows' : keyOf'[j] = keyOf'[k] /\ keyOf'[j] # NoKey => j = k
  BY <1>1, <1>5, <1>6 DEF IInv, Conflicts
<1>8. \A s \in Requests : s.id \in Rows' => keyOf'[s.id] = s.key
  <2> SUFFICES ASSUME NEW s \in Requests, s.id \in Rows' PROVE keyOf'[s.id] = s.key
    OBVIOUS
  <2>1. CASE s.id \in Rows
    BY <2>1, <1>6 DEF IInv
  <2>2. CASE s.id = i
    <3>1. r.id = i
      BY <2>2, <1>1, SubmissionAssumption DEF IdFor
    <3>2. i # NoId
      BY <1>3, SubmissionAssumption
    <3> QED
      BY <2>2, <3>1, <3>2, <1>5 DEF OneKeyPerId
  <2> QED
    BY <2>1, <2>2, <1>5
<1>9. \A s \in Requests : \A a \in answers'[s] :
        a \in Rows' /\ keyOf'[a] = s.key /\ (s.key = NoKey /\ s.id # NoId => a = s.id)
  <2> SUFFICES ASSUME NEW s \in Requests, NEW a \in answers'[s]
               PROVE  /\ a \in Rows' /\ keyOf'[a] = s.key
                      /\ s.key = NoKey /\ s.id # NoId => a = s.id
    OBVIOUS
  <2>1. CASE a \in answers[s]
    BY <2>1, <1>5, <1>6 DEF IInv
  <2>2. CASE s = r /\ a = i
    BY <2>2, <1>3, <1>5
  <2> QED
    BY <2>1, <2>2, <1>1 DEF IInv, TypeOK
<1> QED
  BY <1>4, <1>7, <1>8, <1>9 DEF IInv

\* A repeated submission only records an answer, and the answer belongs to the request.
LEMMA RepeatStep ==
  ASSUME IInv, NEW r \in Requests, Repeat(r)
  PROVE  IInv'
<1>0. PICK i \in IdFor(r) :
        /\ Conflicts(r, i) # {}
        /\ \E a \in Answers(r, i) : answers' = [answers EXCEPT ![r] = @ \cup {a}]
  BY DEF Repeat
<1>1. PICK a \in Answers(r, i) : answers' = [answers EXCEPT ![r] = @ \cup {a}]
  BY <1>0
<1>2. keyOf' = keyOf /\ Rows' = Rows
  BY DEF Repeat, Rows
<1>3. a \in Rows /\ keyOf[a] = r.key /\ (r.key = NoKey /\ r.id # NoId => a = r.id)
  BY <1>0, <1>1, AnswerBelongs
<1>4. TypeOK'
  BY <1>1, <1>2, <1>3 DEF IInv, TypeOK, Rows
<1>5. \A s \in Requests : \A b \in answers'[s] :
        b \in Rows /\ keyOf[b] = s.key /\ (s.key = NoKey /\ s.id # NoId => b = s.id)
  BY <1>1, <1>3 DEF IInv, TypeOK
<1> QED
  BY <1>2, <1>4, <1>5 DEF IInv

\* The unique columns, and the key every answer was given for.
THEOREM SubmissionInvariant ==
  ASSUME OneKeyPerId PROVE Spec => []IInv
<1>1. Init => IInv
  BY AbsentAssumption DEF Init, IInv, TypeOK, Rows
<1>2. IInv /\ [Next]_vars => IInv'
  <2> SUFFICES ASSUME IInv, [Next]_vars PROVE IInv'
    OBVIOUS
  <2>1. CASE Next
    BY <2>1, InsertStep, RepeatStep DEF Next
  <2>2. CASE UNCHANGED vars
    BY <2>2 DEF vars, IInv, TypeOK, Rows
  <2> QED
    BY <2>1, <2>2
<1> QED
  BY <1>1, <1>2, PTL DEF Spec

\* Every request that names itself is always answered with one task.
THEOREM SubmissionIdempotent ==
  ASSUME OneKeyPerId PROVE Spec => []Idempotent
<1>1. IInv => Idempotent
  BY DEF IInv, Idempotent
<1> QED
  BY <1>1, SubmissionInvariant, PTL

\* Sessions share a task exactly when they share its key.
THEOREM SubmissionKeys ==
  ASSUME OneKeyPerId PROVE Spec => []KeyNamesTask
<1>1. IInv => KeyNamesTask
  BY DEF IInv, KeyNamesTask
<1> QED
  BY <1>1, SubmissionInvariant, PTL
=============================================================================

---------------------------- MODULE BarrierProofs ----------------------------
(* The reference of a task is its newest checkpoint, every barrier has one  *)
(* event and one answer, and the barriers are write-once cuts through       *)
(* published checkpoints, for every set of tasks, keys and numbers.         *)
EXTENDS Barrier, FiniteSetTheorems, TLAPS

\* No task is reported on, and no barrier committed, when the workflow starts.
LEMMA InitIInv == Init => IInv
<1> SUFFICES ASSUME Init PROVE IInv
  OBVIOUS
<1>1. TypeOK
  BY DEF Init, TypeOK, Linked, TaskOf, Components
<1>2. RefIsNewest
  BY DEF Init, RefIsNewest
<1>3. EventPerCommit
  BY DEF Init, EventPerCommit, Committed
<1>4. TasksApart /\ AnswersAgree
  BY DEF Init, TasksApart, AnswersAgree
<1> QED
  BY <1>1, <1>2, <1>3, <1>4 DEF IInv

\* Only RecordCheckpoint moves references, and only CommitBarrier writes commits: the
\* others keep every part of the invariant but the links between keys and tasks.
LEMMA LinksStep ==
  ASSUME IInv, TypeOK', TasksApart',
         UNCHANGED <<checkpoints, ref, commits, events, told>>
  PROVE  IInv'
<1>1. RefIsNewest'
  BY DEF IInv, RefIsNewest
<1>2. EventPerCommit' /\ AnswersAgree'
  BY DEF IInv, EventPerCommit, Committed, AnswersAgree
<1> QED
  BY <1>1, <1>2 DEF IInv

\* A replaced component is linked to a task that is no other component's.
LEMMA ReplaceStep ==
  ASSUME IInv, NEW k \in Keys, NEW g \in Generations, NEW t \in Tasks,
         NEW r \in BOOLEAN, ReplaceComponent(k, g, t, r)
  PROVE  IInv'
<1> DEFINE new == [generation |-> g, task |-> t, required |-> r]
<1>1. new \in Components
  BY DEF Components
<1>2. component' = [component EXCEPT ![k] = new] /\ CanLink(k, t)
  BY DEF ReplaceComponent
<1>3. TypeOK'
  BY <1>1, <1>2 DEF ReplaceComponent, IInv, TypeOK
<1>4. TasksApart'
  <2> SUFFICES ASSUME NEW a \in Linked', NEW b \in Linked', TaskOf(a)' = TaskOf(b)'
               PROVE  a = b
    BY DEF TasksApart
  <2>1. \A o \in Keys : o # k => component'[o] = component[o]
    BY <1>2 DEF IInv, TypeOK
  <2>2. component'[k].task = t
    BY <1>2 DEF IInv, TypeOK
  <2>3. a # k => a \in Linked /\ TaskOf(a)' = TaskOf(a)
    BY <2>1 DEF Linked, TaskOf
  <2>4. b # k => b \in Linked /\ TaskOf(b)' = TaskOf(b)
    BY <2>1 DEF Linked, TaskOf
  <2> QED
    BY <1>2, <2>2, <2>3, <2>4 DEF CanLink, TaskOf, IInv, TasksApart
<1> QED
  BY <1>3, <1>4, LinksStep DEF ReplaceComponent

\* A report moves the reference exactly when it is newer than all before it.
LEMMA RecordStep ==
  ASSUME IInv, NEW t \in Tasks, NEW s \in SequenceNumbers, NEW u \in Uris,
         RecordCheckpoint(t, s, u)
  PROVE  IInv'
<1> USE DEF IInv
<1>1. checkpoints' = [checkpoints EXCEPT ![t][s] = u] /\ checkpoints[t][s] \in {Null, u}
  BY DEF RecordCheckpoint
<1>2. ref' = IF Newer(t, s) THEN [ref EXCEPT ![t] = [sequence |-> s, uri |-> u]] ELSE ref
  BY DEF RecordCheckpoint
<1>3. UNCHANGED <<rows, component, commits, events, told>>
  BY DEF RecordCheckpoint
<1>4. [sequence |-> s, uri |-> u] \in Refs
  BY DEF Refs
<1>5. TypeOK'
  BY <1>1, <1>2, <1>3, <1>4 DEF TypeOK
<1>6. TasksApart' /\ EventPerCommit' /\ AnswersAgree'
  BY <1>3 DEF TasksApart, Linked, TaskOf, EventPerCommit, Committed, AnswersAgree
<1>7. RefIsNewest'
  <2> SUFFICES ASSUME NEW v \in Tasks
        PROVE  \/ ref'[v] = NoRef /\ \A n \in SequenceNumbers : checkpoints'[v][n] = Null
               \/ /\ ref'[v].sequence \in SequenceNumbers
                  /\ checkpoints'[v][ref'[v].sequence] # Null
                  /\ ref'[v].uri = checkpoints'[v][ref'[v].sequence]
                  /\ \A n \in SequenceNumbers :
                       checkpoints'[v][n] # Null => n <= ref'[v].sequence
    BY DEF RefIsNewest
  <2>0. \/ ref[v] = NoRef /\ \A n \in SequenceNumbers : checkpoints[v][n] = Null
        \/ /\ ref[v].sequence \in SequenceNumbers
           /\ checkpoints[v][ref[v].sequence] # Null
           /\ ref[v].uri = checkpoints[v][ref[v].sequence]
           /\ \A n \in SequenceNumbers : checkpoints[v][n] # Null => n <= ref[v].sequence
    BY DEF RefIsNewest
  <2>1. CASE v # t
    <3>1. checkpoints'[v] = checkpoints[v] /\ ref'[v] = ref[v]
      BY <2>1, <1>1, <1>2 DEF TypeOK
    <3> QED
      BY <2>0, <3>1
  <2>2. CASE v = t
    <3>1. /\ checkpoints'[t][s] = u
          /\ \A n \in SequenceNumbers : n # s => checkpoints'[t][n] = checkpoints[t][n]
      BY <1>1 DEF TypeOK
    <3>2. u # Null /\ s # Null /\ s \in Int
      BY BarrierAssumption
    <3>3. CASE Newer(t, s)
      <4>1. ref'[t] = [sequence |-> s, uri |-> u]
        BY <1>2, <3>3 DEF TypeOK
      <4>2. \A n \in SequenceNumbers : checkpoints[t][n] # Null => n <= s
        <5> SUFFICES ASSUME NEW n \in SequenceNumbers, checkpoints[t][n] # Null
                     PROVE  n <= s
          OBVIOUS
        <5>1. ref[t].sequence \in SequenceNumbers /\ n <= ref[t].sequence
          BY <2>0, <2>2
        <5>2. s > ref[t].sequence
          BY <5>1, <3>3, BarrierAssumption DEF Newer
        <5> QED
          BY <5>1, <5>2, BarrierAssumption
      <4>3. ref'[t].sequence = s /\ ref'[t].uri = u
        BY <4>1
      <4>4. \A n \in SequenceNumbers : checkpoints'[t][n] # Null => n <= s
        BY <3>1, <3>2, <4>2
      <4> QED
        BY <2>2, <3>1, <3>2, <4>3, <4>4
    <3>4. CASE ~Newer(t, s)
      <4>1. ref' = ref
        BY <1>2, <3>4
      <4>2. ref[t].sequence \in SequenceNumbers /\ s <= ref[t].sequence
        <5>1. ref[t] # NoRef
          BY <3>4 DEF Newer, NoRef
        <5>2. ref[t].sequence \in SequenceNumbers
          BY <5>1, <2>0, <2>2
        <5>3. ~(s > ref[t].sequence)
          BY <3>4 DEF Newer
        <5>4. s \in Int /\ ref[t].sequence \in Int
          BY <5>2, BarrierAssumption
        <5> HIDE DEF IInv
        <5> QED
          BY <5>2, <5>3, <5>4
      <4>3. ref[t].sequence = s => checkpoints[t][s] = u
        BY <4>2, <2>0, <2>2, <1>1, BarrierAssumption DEF NoRef
      <4>4. ref[t] # NoRef
        BY <3>4 DEF Newer, NoRef
      <4> QED
        BY <2>0, <2>2, <3>1, <3>2, <4>1, <4>2, <4>3, <4>4
    <3> QED
      BY <3>3, <3>4
  <2> QED
    BY <2>1, <2>2
<1> QED
  BY <1>5, <1>6, <1>7

\* What a barrier that is ready answers is a commit, and its checkpoints bear its number.
LEMMA ReadyAnswer ==
  ASSUME TypeOK, NEW b \in SequenceNumbers, NEW c \in ControllerUris, Ready(b)
  PROVE  /\ Answer(c) \in Commits
         /\ \A k \in Required : ref[TaskOf(k)] \in Refs /\ ref[TaskOf(k)].sequence = b
<1>1. \A k \in Required : k \in Keys /\ TaskOf(k) \in Tasks
  BY DEF Required, Linked, TaskOf, TypeOK, Components
<1>2. \A k \in Required : ref[TaskOf(k)] \in Refs /\ ref[TaskOf(k)].sequence = b
  BY <1>1 DEF Ready, TypeOK, NoRef
<1>3. Required \in SUBSET Keys
  BY <1>1
<1>4. [k \in Required |-> ref[TaskOf(k)]] \in [Required -> Refs]
  BY <1>2
<1>5. [k \in Required |-> ref[TaskOf(k)]] \in Manifests
  BY <1>3, <1>4 DEF Manifests
<1> QED
  BY <1>2, <1>5 DEF Answer, Commits

\* A commit writes the barrier and its event together, or answers what is stored.
LEMMA CommitStep ==
  ASSUME IInv, NEW b \in SequenceNumbers, NEW c \in ControllerUris, CommitBarrier(b, c)
  PROVE  IInv'
<1> USE DEF IInv
<1>1. /\ Ready(b)
      /\ commits[b] # Null => commits[b] = Answer(c)
      /\ told' = [told EXCEPT ![b] = @ \cup {Answer(c)}]
      /\ UNCHANGED <<rows, component, checkpoints, ref>>
  BY DEF CommitBarrier, Accepts
<1>2. Answer(c) \in Commits /\ Answer(c) # Null
  BY <1>1, ReadyAnswer, NullAssumption
<1>3. \/ /\ commits[b] = Null
         /\ commits' = [commits EXCEPT ![b] = Answer(c)]
         /\ events' = Append(events, b)
      \/ commits[b] # Null /\ UNCHANGED <<commits, events>>
  BY DEF CommitBarrier, KeepCommit
<1>4. TypeOK'
  <2>1. commits' \in [SequenceNumbers -> Commits \cup {Null}]
    BY <1>2, <1>3 DEF TypeOK
  <2>2. events' \in Seq(SequenceNumbers)
    BY <1>3 DEF TypeOK
  <2>3. told' \in [SequenceNumbers -> SUBSET Commits]
    <3>1. told[b] \cup {Answer(c)} \in SUBSET Commits
      BY <1>2 DEF TypeOK
    <3> QED
      BY <1>1, <3>1 DEF TypeOK
  <2> QED
    BY <1>1, <2>1, <2>2, <2>3 DEF TypeOK
<1>5. RefIsNewest' /\ TasksApart'
  BY <1>1 DEF RefIsNewest, TasksApart, Linked, TaskOf
<1>6. commits'[b] = Answer(c) /\ \A o \in SequenceNumbers : o # b => commits'[o] = commits[o]
  BY <1>1, <1>3 DEF TypeOK
<1>7. AnswersAgree'
  <2> SUFFICES ASSUME NEW o \in SequenceNumbers, NEW a \in told'[o] PROVE commits'[o] = a
    BY DEF AnswersAgree
  <2>1. a \in told[o] \/ (o = b /\ a = Answer(c))
    BY <1>1 DEF TypeOK
  <2>2. a \in told[o] => commits[o] = a /\ a # Null
    BY NullAssumption DEF AnswersAgree, TypeOK
  <2> QED
    BY <1>1, <1>6, <2>1, <2>2
<1>8. EventPerCommit'
  <2>1. CASE commits[b] # Null
    BY <2>1, <1>3 DEF EventPerCommit, Committed
  <2>2. CASE commits[b] = Null
    <3>1. events' = Append(events, b) /\ events \in Seq(SequenceNumbers)
      BY <2>2, <1>3 DEF TypeOK
    <3>2. /\ DOMAIN events = 1..Len(events)
          /\ DOMAIN events' = 1..(Len(events) + 1)
          /\ events'[Len(events) + 1] = b
          /\ \A i \in DOMAIN events : events'[i] = events[i]
          /\ Len(events) \in Nat
      BY <3>1
    <3>3. Committed' = Committed \cup {b}
      BY <1>2, <1>6, <2>2 DEF Committed
    <3>4. \A i \in DOMAIN events : events[i] # b
      BY <2>2 DEF EventPerCommit, Committed
    <3>5. \A o \in SequenceNumbers : o \in Committed' <=> \E i \in DOMAIN events' : events'[i] = o
      <4> SUFFICES ASSUME NEW o \in SequenceNumbers
                   PROVE  o \in Committed' <=> \E i \in DOMAIN events' : events'[i] = o
        OBVIOUS
      <4>1. o \in Committed <=> \E i \in DOMAIN events : events[i] = o
        BY DEF EventPerCommit
      <4>2. (\E i \in DOMAIN events' : events'[i] = o)
              <=> o = b \/ \E i \in DOMAIN events : events[i] = o
        BY <3>2
      <4> QED
        BY <3>3, <4>1, <4>2
    <3>6. \A i, j \in DOMAIN events' : events'[i] = events'[j] => i = j
      <4> SUFFICES ASSUME NEW i \in DOMAIN events', NEW j \in DOMAIN events',
                          events'[i] = events'[j]
                   PROVE  i = j
        OBVIOUS
      <4>1. i \in DOMAIN events \/ i = Len(events) + 1
        BY <3>2
      <4>2. j \in DOMAIN events \/ j = Len(events) + 1
        BY <3>2
      <4> QED
        BY <3>2, <3>4, <4>1, <4>2 DEF EventPerCommit
    <3> QED
      BY <3>5, <3>6 DEF EventPerCommit
  <2> QED
    BY <2>1, <2>2
<1> QED
  BY <1>4, <1>5, <1>7, <1>8

\* References, events and answers stay right under every operation of the store.
THEOREM BarrierInvariant == Spec => []IInv
<1>1. IInv /\ [Next]_vars => IInv'
  <2> SUFFICES ASSUME IInv, [Next]_vars PROVE IInv'
    OBVIOUS
  <2>1. ASSUME NEW t \in Tasks, SubmitTask(t) PROVE IInv'
    <3>1. TypeOK'
      BY <2>1 DEF SubmitTask, IInv, TypeOK
    <3>2. TasksApart'
      BY <2>1 DEF SubmitTask, IInv, TasksApart, Linked, TaskOf
    <3> QED
      BY <2>1, <3>1, <3>2, LinksStep DEF SubmitTask
  <2>2. CASE UNCHANGED vars
    <3>1. TypeOK' /\ TasksApart'
      BY <2>2 DEF vars, IInv, TypeOK, TasksApart, Linked, TaskOf
    <3> QED
      BY <2>2, <3>1, LinksStep DEF vars
  <2> QED
    BY <2>1, <2>2, ReplaceStep, RecordStep, CommitStep DEF Next
<1> QED
  BY <1>1, InitIInv, PTL DEF Spec

\* The reference in a task's row is its newest checkpoint, whatever the order of reports.
THEOREM ReferenceIsNewest == Spec => []RefIsNewest
<1>1. IInv => RefIsNewest
  BY DEF IInv
<1> QED
  BY <1>1, BarrierInvariant, PTL

\* The log has one event for every barrier in the commit table.
THEOREM OneEventPerCommit == Spec => []EventPerCommit
<1>1. IInv => EventPerCommit
  BY DEF IInv
<1> QED
  BY <1>1, BarrierInvariant, PTL

\* Whoever is told of a barrier is told the same.
THEOREM OneAnswerPerBarrier == Spec => []AnswersAgree
<1>1. IInv => AnswersAgree
  BY DEF IInv
<1> QED
  BY <1>1, BarrierInvariant, PTL

\* A report publishes a checkpoint that has no other URI, or repeats one.
LEMMA RecordPublishes ==
  ASSUME IInv, NEW t \in Tasks, NEW s \in SequenceNumbers, NEW u \in Uris,
         RecordCheckpoint(t, s, u)
  PROVE  Points!Publish(t, s, u)
<1>1. checkpoints' = [checkpoints EXCEPT ![t][s] = u] /\ checkpoints[t][s] \in {Null, u}
  BY DEF RecordCheckpoint
<1>2. checkpoints \in [Tasks -> [SequenceNumbers -> Uris \cup {Null}]] /\ u # Null
  BY BarrierAssumption DEF IInv, TypeOK
<1>3. \A p \in PublishedCheckpoints : p.task = t /\ p.sequence = s => p.uri = u
  BY <1>1, BarrierAssumption DEF PublishedCheckpoints
<1> DEFINE All == [task : Tasks, sequence : SequenceNumbers, uri : Uris]
           new == [task |-> t, sequence |-> s, uri |-> u]
<1>4. ASSUME NEW p \in All
      PROVE  p \in PublishedCheckpoints' <=> p \in PublishedCheckpoints \/ p = new
  <2>1. checkpoints'[p.task][p.sequence] =
          IF p.task = t /\ p.sequence = s THEN u ELSE checkpoints[p.task][p.sequence]
    BY <1>1, <1>2
  <2>2. p \in PublishedCheckpoints' <=> checkpoints'[p.task][p.sequence] = p.uri
    BY DEF PublishedCheckpoints
  <2>3. p \in PublishedCheckpoints <=> checkpoints[p.task][p.sequence] = p.uri
    BY DEF PublishedCheckpoints
  <2>4. p = new <=> p.task = t /\ p.sequence = s /\ p.uri = u
    OBVIOUS
  <2>5. p.uri # Null
    BY BarrierAssumption
  <2> QED
    BY <1>1, <2>1, <2>2, <2>3, <2>4, <2>5
<1>5. PublishedCheckpoints' = PublishedCheckpoints \cup {new}
  <2>1. PublishedCheckpoints \subseteq All /\ PublishedCheckpoints' \subseteq All
    BY DEF PublishedCheckpoints
  <2>2. new \in All
    OBVIOUS
  <2> HIDE DEF All, new
  <2> QED
    BY <1>4, <2>1, <2>2
<1>6. UNCHANGED [b \in SequenceNumbers |-> RestorePoint(b)]
  BY DEF RecordCheckpoint, RestorePoint
<1> QED
  BY <1>3, <1>5, <1>6 DEF Points!Publish

\* The first commit of a barrier chooses the checkpoints of the required components.
LEMMA CommitChooses ==
  ASSUME IInv, NEW b \in SequenceNumbers, NEW c \in ControllerUris, CommitBarrier(b, c),
         commits[b] = Null
  PROVE  \E cut \in SUBSET Keys : \E sources \in [cut -> Tasks], uris \in [cut -> Uris] :
           Points!Choose(b, sources, uris)
<1> DEFINE sources == [k \in Required |-> TaskOf(k)]
           uris == [k \in Required |-> ref[TaskOf(k)].uri]
           points == [o \in SequenceNumbers |-> RestorePoint(o)]
           cutAt == [k \in DOMAIN sources |-> [sequence |-> b, uri |-> uris[k]]]
<1>1. TypeOK /\ RefIsNewest /\ TasksApart /\ Ready(b)
  BY DEF IInv, CommitBarrier
<1>2. \A k \in Required : k \in Linked /\ k \in Keys /\ TaskOf(k) \in Tasks
  BY <1>1 DEF Required, Linked, TaskOf, TypeOK, Components
<1>3. \A k \in Required : ref[TaskOf(k)] \in Refs /\ ref[TaskOf(k)].sequence = b
  BY <1>1, ReadyAnswer
<1>4. Required \in SUBSET Keys /\ sources \in [Required -> Tasks] /\ uris \in [Required -> Uris]
  BY <1>2, <1>3 DEF Refs
<1>5. points[b] = Null
  BY DEF RestorePoint
<1>6. \A k, o \in DOMAIN sources : sources[k] = sources[o] => k = o
  BY <1>1, <1>2 DEF TasksApart
<1>7. \A k \in DOMAIN sources :
        [task |-> sources[k], sequence |-> b, uri |-> uris[k]] \in PublishedCheckpoints
  <2> SUFFICES ASSUME NEW k \in Required
               PROVE  [task |-> TaskOf(k), sequence |-> b, uri |-> ref[TaskOf(k)].uri]
                        \in PublishedCheckpoints
    OBVIOUS
  <2>1. TaskOf(k) \in Tasks /\ ref[TaskOf(k)].sequence = b /\ ref[TaskOf(k)].uri \in Uris
    BY <1>2, <1>3 DEF Refs
  <2>2. ref[TaskOf(k)] # NoRef
    BY <2>1, BarrierAssumption DEF NoRef
  <2>3. ref[TaskOf(k)].uri = checkpoints[TaskOf(k)][b]
    BY <1>1, <2>1, <2>2 DEF RefIsNewest
  <2> QED
    BY <2>1, <2>3 DEF PublishedCheckpoints
<1>8. points' = [points EXCEPT ![b] = cutAt]
  <2>1. Answer(c).manifest = cutAt
    <3>1. \A k \in Required : ref[TaskOf(k)] = [sequence |-> b, uri |-> ref[TaskOf(k)].uri]
      BY <1>3 DEF Refs
    <3> QED
      BY <3>1 DEF Answer
  <2>2. Answer(c) # Null
    BY <1>1, ReadyAnswer, NullAssumption
  <2>3. commits' = [commits EXCEPT ![b] = Answer(c)]
    BY DEF CommitBarrier
  <2>4. RestorePoint(b)' = cutAt
    BY <1>1, <2>1, <2>2, <2>3 DEF RestorePoint, TypeOK
  <2>5. \A o \in SequenceNumbers : o # b => RestorePoint(o)' = RestorePoint(o)
    BY <1>1, <2>3 DEF RestorePoint, TypeOK
  <2> QED
    BY <2>4, <2>5
<1>9. UNCHANGED PublishedCheckpoints
  BY DEF CommitBarrier, PublishedCheckpoints
<1>10. Points!Choose(b, sources, uris)
  BY <1>5, <1>6, <1>7, <1>8, <1>9 DEF Points!Choose
<1> QED
  BY <1>4, <1>10

\* The other steps leave checkpoints and commits, and with them the restore points, alone.
LEMMA PointsStutter ==
  ASSUME UNCHANGED <<checkpoints, commits>>
  PROVE  UNCHANGED Points!pointVars
BY DEF Points!pointVars, PublishedCheckpoints, RestorePoint

\* The store's checkpoints and commits implement the write-once cuts of RestorePoints.
THEOREM RestorePointsRefined == Spec => ImplementsRestorePoints
<1>1. Init => Points!PointsInit
  BY BarrierAssumption DEF Init, Points!PointsInit, PublishedCheckpoints, RestorePoint
<1>2. IInv /\ [Next]_vars => [Points!PointsNext]_(Points!pointVars)
  <2> SUFFICES ASSUME IInv, [Next]_vars
               PROVE  Points!PointsNext \/ UNCHANGED Points!pointVars
    OBVIOUS
  <2>1. ASSUME NEW t \in Tasks, SubmitTask(t) PROVE UNCHANGED Points!pointVars
    BY <2>1, PointsStutter DEF SubmitTask
  <2>2. ASSUME NEW k \in Keys, NEW g \in Generations, NEW t \in Tasks,
               NEW r \in BOOLEAN, ReplaceComponent(k, g, t, r)
        PROVE  UNCHANGED Points!pointVars
    BY <2>2, PointsStutter DEF ReplaceComponent
  <2>3. ASSUME NEW t \in Tasks, NEW s \in SequenceNumbers, NEW u \in Uris,
               RecordCheckpoint(t, s, u)
        PROVE  Points!PointsNext
    BY <2>3, RecordPublishes DEF Points!PointsNext
  <2>4. ASSUME NEW b \in SequenceNumbers, NEW c \in ControllerUris, CommitBarrier(b, c)
        PROVE  Points!PointsNext \/ UNCHANGED Points!pointVars
    <3>1. CASE commits[b] = Null
      BY <2>4, <3>1, CommitChooses DEF Points!PointsNext
    <3>2. CASE commits[b] # Null
      BY <2>4, <3>2, PointsStutter DEF CommitBarrier, KeepCommit
    <3> QED
      BY <3>1, <3>2
  <2>5. CASE UNCHANGED vars
    BY <2>5, PointsStutter DEF vars
  <2> QED
    BY <2>1, <2>2, <2>3, <2>4, <2>5 DEF Next
<1> QED
  BY <1>1, <1>2, BarrierInvariant, PTL DEF Spec, ImplementsRestorePoints, Points!PointsSpec

\* A step of RestorePoints leaves every cut consistent and as it was.
LEMMA CutsStep ==
  ASSUME Points!CutsConsistent, Points!PointsNext
  PROVE  Points!CutsConsistent' /\ Points!CutsKept
<1> DEFINE pub == PublishedCheckpoints
           points == [b \in SequenceNumbers |-> RestorePoint(b)]
           All == [task : Tasks, sequence : SequenceNumbers, uri : Uris]
           OneUri(P) == \A p, q \in P : p.task = q.task /\ p.sequence = q.sequence => p = q
           Cut(P, b, f) ==
             \E sources \in [DOMAIN f -> Tasks] :
               /\ \A k, o \in DOMAIN sources : sources[k] = sources[o] => k = o
               /\ \A k \in DOMAIN sources :
                    [task |-> sources[k], sequence |-> b, uri |-> f[k].uri] \in P
<1>1. OneUri(pub) /\ \A b \in SequenceNumbers : points[b] # Null => Cut(pub, b, points[b])
  BY DEF Points!CutsConsistent
<1>2. SUFFICES
        /\ OneUri(pub') /\ \A b \in SequenceNumbers : points'[b] # Null => Cut(pub', b, points'[b])
        /\ pub \subseteq pub'
        /\ \A b \in SequenceNumbers : points[b] # Null => points'[b] = points[b]
  BY DEF Points!CutsConsistent, Points!CutsKept
<1>3. \A P, b, f : Cut(P, b, f) => \A Q : P \subseteq Q => Cut(Q, b, f)
  OBVIOUS
<1>4. pub \subseteq All
  BY DEF PublishedCheckpoints
<1>5. CASE \E t \in Tasks, s \in SequenceNumbers, u \in Uris : Points!Publish(t, s, u)
  <2>1. PICK t \in Tasks, s \in SequenceNumbers, u \in Uris :
          /\ \A p \in pub : p.task = t /\ p.sequence = s => p.uri = u
          /\ pub' = pub \cup {[task |-> t, sequence |-> s, uri |-> u]}
          /\ points' = points
    BY <1>5 DEF Points!Publish
  <2> HIDE DEF pub, points, Cut
  <2>2. OneUri(pub')
    BY <1>1, <1>4, <2>1
  <2> QED
    BY <1>1, <1>3, <2>1, <2>2
<1>6. CASE \E b \in SequenceNumbers, cut \in SUBSET Keys :
             \E sources \in [cut -> Tasks], uris \in [cut -> Uris] :
               Points!Choose(b, sources, uris)
  <2>1. PICK b \in SequenceNumbers, cut \in SUBSET Keys :
             \E sources \in [cut -> Tasks], uris \in [cut -> Uris] :
               Points!Choose(b, sources, uris)
    BY <1>6
  <2>2. PICK sources \in [cut -> Tasks], uris \in [cut -> Uris] : Points!Choose(b, sources, uris)
    BY <2>1
  <2> DEFINE new == [k \in DOMAIN sources |-> [sequence |-> b, uri |-> uris[k]]]
  <2>3. /\ points[b] = Null /\ points' = [points EXCEPT ![b] = new] /\ pub' = pub
        /\ \A k, o \in DOMAIN sources : sources[k] = sources[o] => k = o
        /\ \A k \in DOMAIN sources :
             [task |-> sources[k], sequence |-> b, uri |-> uris[k]] \in pub
    BY <2>2 DEF Points!Choose
  <2>4. points'[b] = new /\ \A o \in SequenceNumbers : o # b => points'[o] = points[o]
    BY <2>3
  <2>5. Cut(pub, b, new)
    <3>1. DOMAIN new = cut /\ \A k \in cut : new[k].uri = uris[k]
      OBVIOUS
    <3>2. sources \in [DOMAIN new -> Tasks]
      BY <3>1
    <3> HIDE DEF new, pub
    <3> QED
      BY <2>3, <3>1, <3>2
  <2> HIDE DEF pub, points, Cut, new, OneUri
  <2> QED
    BY <1>1, <2>3, <2>4, <2>5
<1> QED
  BY <1>5, <1>6 DEF Points!PointsNext

\* Restarts find one moment of the workflow: every committed barrier is a consistent cut
\* through published checkpoints, and neither it nor a checkpoint changes any more,
\* whatever is reported or committed again, and whichever components are replaced.
THEOREM CommittedCutsStand == Spec => []Points!CutsConsistent /\ Points!CutsStay
<1>1. Points!PointsInit => Points!CutsConsistent
  BY DEF Points!PointsInit, Points!CutsConsistent
<1>2. Points!CutsConsistent /\ [Points!PointsNext]_(Points!pointVars) => Points!CutsConsistent'
  <2>1. CASE UNCHANGED Points!pointVars
    BY <2>1 DEF Points!pointVars, Points!CutsConsistent
  <2> QED
    BY <2>1, CutsStep
<1>3. Points!CutsConsistent /\ [Points!PointsNext]_(Points!pointVars) =>
        [Points!CutsKept]_(Points!pointVars)
  BY CutsStep
<1> QED
  BY <1>1, <1>2, <1>3, RestorePointsRefined, PTL
  DEF ImplementsRestorePoints, Points!PointsSpec, Points!CutsStay

-----------------------------------------------------------------------------
(* The barrier that a restarted workflow is offered.                       *)

\* Numbers that are finitely many have a greatest: the one with the fewest above it.
LEMMA GreatestNumber ==
  ASSUME NEW S, S \subseteq Int, IsFiniteSet(S), S # {}
  PROVE  Max(S) \in S /\ \A s \in S : s <= Max(S)
<1> DEFINE Above(x) == {y \in S : x < y}
           Aboves == {Above(x) : x \in S}
<1>1. Aboves \subseteq FiniteSubsetsOf(S)
  <2> SUFFICES ASSUME NEW x \in S PROVE Above(x) \in FiniteSubsetsOf(S)
    OBVIOUS
  <2>1. Above(x) \in SUBSET S
    OBVIOUS
  <2> QED
    BY <2>1, FS_Subset DEF FiniteSubsetsOf
<1>2. Aboves # {}
  OBVIOUS
<1>3. PICK A \in Aboves : \A B \in Aboves : <<B, A>> \notin StrictSubsetOrdering(S)
  <2> HIDE DEF Aboves
  <2> QED
    BY <1>1, <1>2, FS_StrictSubsetOrderingWellFounded, WFMin
<1>4. PICK m \in S : A = Above(m)
  BY <1>3
<1>5. A = {}
  <2> SUFFICES ASSUME NEW x \in A PROVE FALSE
    OBVIOUS
  <2>1. x \in S /\ m < x
    BY <1>4
  <2>2. Above(x) \subseteq A /\ x \notin Above(x)
    <3>1. ASSUME NEW y \in S, x < y PROVE m < y
      BY <2>1, <3>1
    <3>2. ~(x < x)
      BY <2>1
    <3>3. Above(x) \subseteq A
      BY <1>4, <3>1
    <3> QED
      BY <3>2, <3>3
  <2>3. <<Above(x), A>> \in StrictSubsetOrdering(S)
    BY <1>4, <2>1, <2>2 DEF StrictSubsetOrdering
  <2> QED
    BY <1>3, <2>1, <2>3
<1>6. \A s \in S : m >= s
  BY <1>4, <1>5
<1> QED
  BY <1>6 DEF Max

\* Barriers are committed one at a time, and none is ever dropped.
LEMMA CommittedGrows ==
  ASSUME IInv, [Next]_vars
  PROVE  /\ Committed \subseteq Committed'
         /\ Committed' = Committed \/ \E b \in SequenceNumbers : Committed' = Committed \cup {b}
<1>1. ASSUME NEW b \in SequenceNumbers, NEW c \in ControllerUris, CommitBarrier(b, c)
      PROVE  Committed' = Committed \/ Committed' = Committed \cup {b}
  <2>1. CASE commits' = [commits EXCEPT ![b] = Answer(c)]
    <3>1. Answer(c) # Null
      BY <1>1, ReadyAnswer, NullAssumption DEF CommitBarrier, IInv
    <3> QED
      BY <2>1, <3>1 DEF Committed, IInv, TypeOK
  <2>2. CASE commits' = commits
    BY <2>2 DEF Committed
  <2> QED
    BY <1>1, <2>1, <2>2 DEF CommitBarrier, KeepCommit
<1>2. CASE UNCHANGED commits
  BY <1>2 DEF Committed
<1> QED
  BY <1>1, <1>2 DEF Next, SubmitTask, ReplaceComponent, RecordCheckpoint, vars

\* latest_barrier never offers an older barrier than before, whatever numbers are committed
\* after whatever others.
THEOREM LatestRises == Spec => LatestNeverGoesBack
<1>1. Init => IsFiniteSet(Committed)
  <2>1. Init => Committed = {}
    BY DEF Init, Committed
  <2> QED
    BY <2>1, FS_EmptySet
<1>2. IInv /\ IsFiniteSet(Committed) /\ [Next]_vars => IsFiniteSet(Committed)'
  BY CommittedGrows, FS_AddElement
<1>3. IInv /\ IsFiniteSet(Committed) /\ IsFiniteSet(Committed)' /\ [Next]_vars =>
        [LatestBarrier # Null => LatestBarrier' # Null /\ LatestBarrier' >= LatestBarrier]_vars
  <2> SUFFICES ASSUME IInv, IsFiniteSet(Committed), IsFiniteSet(Committed)', [Next]_vars,
                      LatestBarrier # Null
               PROVE  LatestBarrier' # Null /\ LatestBarrier' >= LatestBarrier
    OBVIOUS
  <2>1. /\ Committed # {} /\ Committed \subseteq Int /\ Committed' \subseteq Int
        /\ Committed' \subseteq SequenceNumbers /\ Committed' # {}
    BY CommittedGrows, BarrierAssumption DEF LatestBarrier, Committed
  <2>2. LatestBarrier \in Committed
    BY <2>1, GreatestNumber DEF LatestBarrier
  <2>3. LatestBarrier' \in Committed' /\ \A b \in Committed' : b <= LatestBarrier'
    BY <2>1, GreatestNumber DEF LatestBarrier
  <2>4. LatestBarrier \in Committed'
    BY <2>2, CommittedGrows
  <2> QED
    BY <2>1, <2>3, <2>4, BarrierAssumption
<1> QED
  BY <1>1, <1>2, <1>3, BarrierInvariant, PTL DEF Spec, LatestNeverGoesBack
=============================================================================

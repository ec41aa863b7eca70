--------------------------- MODULE LeadershipProofs ---------------------------
(* The lease is exclusive, its tokens are unique and it implements the     *)
(* plain lease of LeaseTimer, for every set of controllers, every lease    *)
(* length and every bound.                                                 *)
EXTENDS Leadership, TLAPS

\* The invariant holds before any controller has started (an empty leadership table).
LEMMA InitIInv == Init => IInv
  BY LeadershipAssumption
  DEF Init, IInv, TypeOK, RowAgrees, FenceUnique, AsksAsHeld, Holds, NoLease, NoRow

\* Taking the row keeps the invariant: every other lease is older than the new token
\* and, because the row had expired or was the taker's own, has run out.
LEMMA AcquireStep ==
  ASSUME IInv, NEW c \in Controllers, Acquire(c)
  PROVE  IInv'
<1> USE DEF IInv
<1>1. TypeOK'
  BY LeadershipAssumption DEF TypeOK, Acquire, NextToken
<1>2. \A d \in Controllers : now'[d] <= clock'
  BY DEF Acquire
<1>3. \A d \in Controllers : d # c => lease'[d] = lease[d]
  BY DEF Acquire, TypeOK
<1>4. lease'[c] = [token |-> row.token + 1, expires |-> now[c] + LeaseSeconds]
  BY DEF Acquire, TypeOK, NextToken
<1>5. row' = [holder |-> c, token |-> row.token + 1,
              expires |-> now[c] + LeaseSeconds]
  BY DEF Acquire, NextToken
<1>6. row.token = 0 \/ row.expires <= clock \/ row.holder = c
  BY DEF Acquire, HeldByOther, TypeOK
<1>7. RowAgrees'
  <2> SUFFICES ASSUME NEW d \in Controllers, Holds(d)'
               PROVE  \/ /\ lease'[d].token = row'.token
                         /\ row'.holder = d
                         /\ lease'[d].expires = row'.expires
                      \/ /\ lease'[d].token < row'.token
                         /\ row'.holder # d
                         /\ lease'[d].expires <= clock'
    BY DEF RowAgrees
  <2>1. CASE d = c
    BY <2>1, <1>4, <1>5
  <2>2. CASE d # c
    <3>1. Holds(d) /\ lease'[d] = lease[d]
      BY <2>2, <1>3 DEF Holds
    <3>2. clock' = clock
      BY DEF Acquire
    <3>3. lease[d].token < row.token => lease[d].expires <= clock
      BY <3>1 DEF RowAgrees, TypeOK
    <3>4. lease[d].token = row.token => lease[d].expires <= clock
      BY <3>1, <2>2, <1>6 DEF RowAgrees, TypeOK, Holds
    <3> QED
      BY <2>2, <3>1, <3>2, <3>3, <3>4, <1>5 DEF RowAgrees, TypeOK
  <2> QED
    BY <2>1, <2>2
<1>8. FenceUnique'
  <2>1. \A d \in Controllers : Holds(d) => lease[d].token <= row.token
    BY DEF RowAgrees, TypeOK
  <2> QED
    BY <2>1, <1>3, <1>4 DEF FenceUnique, Holds, TypeOK
<1>9. AsksAsHeld'
  <2>1. Holds(c)'
    BY <1>4 DEF Holds, TypeOK
  <2>2. \A d \in Controllers \ {c} : (Holds(d)' <=> Holds(d)) /\ pc'[d] = pc[d]
    BY <1>3 DEF Holds, Acquire, TypeOK
  <2>3. pc'[c] = "renew"
    BY DEF Acquire, TypeOK
  <2> QED
    BY <2>1, <2>2, <2>3 DEF AsksAsHeld
<1> QED
  BY <1>1, <1>2, <1>7, <1>8, <1>9

\* Renewing moves the end of the row's lease and of the renewer's copy together.
LEMMA RenewStep ==
  ASSUME IInv, NEW c \in Controllers, Renew(c)
  PROVE  IInv'
<1> USE DEF IInv
<1>1. TypeOK'
  BY LeadershipAssumption DEF TypeOK, Renew
<1>2. \A d \in Controllers : now'[d] <= clock'
  BY DEF Renew
<1>3. \A d \in Controllers :
        /\ lease'[d].token = lease[d].token
        /\ d # c => lease'[d].expires = lease[d].expires
  BY DEF Renew, TypeOK
<1>4. /\ row'.holder = row.holder
      /\ row'.token = row.token
      /\ row'.expires = now[c] + LeaseSeconds
      /\ lease'[c].expires = now[c] + LeaseSeconds
      /\ clock' = clock
  BY DEF Renew, TypeOK
<1>5. row.holder = c /\ row.token = lease[c].token
  BY DEF Renew, StillMine
<1>6. RowAgrees'
  <2> SUFFICES ASSUME NEW d \in Controllers, Holds(d)'
               PROVE  \/ /\ lease'[d].token = row'.token
                         /\ row'.holder = d
                         /\ lease'[d].expires = row'.expires
                      \/ /\ lease'[d].token < row'.token
                         /\ row'.holder # d
                         /\ lease'[d].expires <= clock'
    BY DEF RowAgrees
  <2>1. CASE d = c
    BY <2>1, <1>3, <1>4, <1>5
  <2>2. CASE d # c
    BY <2>2, <1>3, <1>4, <1>5 DEF RowAgrees, Holds
  <2> QED
    BY <2>1, <2>2
<1>7. FenceUnique'
  BY <1>3 DEF FenceUnique, Holds
<1>8. AsksAsHeld'
  BY <1>3 DEF AsksAsHeld, Holds, Renew, TypeOK
<1> QED
  BY <1>1, <1>2, <1>6, <1>7, <1>8

\* Dropping a lease, for a lost renewal or a crash, only removes a claim.
LEMMA DropStep ==
  ASSUME IInv, NEW c \in Controllers, Lost(c) \/ Crash(c)
  PROVE  IInv'
<1> USE DEF IInv
<1>1. TypeOK'
  BY DEF TypeOK, Lost, Crash, NoLease
<1>2. UNCHANGED <<clock, row, now>>
  BY DEF Lost, Crash
<1>3. lease' = [lease EXCEPT ![c] = NoLease]
  BY DEF Lost, Crash
<1>4. \A d \in Controllers : Holds(d)' => d # c /\ lease'[d] = lease[d]
  BY <1>3 DEF Holds, NoLease, TypeOK
<1>5. RowAgrees'
  BY <1>2, <1>4 DEF RowAgrees, Holds
<1>6. FenceUnique'
  BY <1>4 DEF FenceUnique, Holds
<1>7. AsksAsHeld'
  BY <1>4 DEF AsksAsHeld, Holds, Lost, Crash, TypeOK
<1> QED
  BY <1>1, <1>2, <1>5, <1>6, <1>7

\* The steps that change neither the row nor any lease.
LEMMA QuietStep ==
  ASSUME IInv, UNCHANGED <<row, lease>>,
         \/ \E c \in Controllers : ReadClock(c) \/ Refused(c) \/ EndPass(c)
         \/ Tick
         \/ UNCHANGED vars
  PROVE  IInv'
<1> USE DEF IInv
<1>1. TypeOK'
  BY DEF TypeOK, ReadClock, Refused, EndPass, Tick, vars
<1>2. clock <= clock' /\ clock' \in Nat
  BY DEF ReadClock, Refused, EndPass, Tick, vars, TypeOK
<1>3. \A d \in Controllers : now'[d] <= clock'
  BY <1>2 DEF ReadClock, Refused, EndPass, Tick, vars, TypeOK
<1>4. RowAgrees'
  BY <1>2 DEF RowAgrees, Holds, TypeOK
<1>5. FenceUnique'
  BY DEF FenceUnique, Holds
<1>6. AsksAsHeld'
  BY DEF AsksAsHeld, Holds, NoLease, ReadClock, Refused, EndPass, Tick, vars, TypeOK
<1> QED
  BY <1>1, <1>3, <1>4, <1>5, <1>6

\* Every step of a controller or of the clock keeps the invariant.
LEMMA NextIInv == IInv /\ [Next]_vars => IInv'
<1> SUFFICES ASSUME IInv, [Next]_vars PROVE IInv'
  OBVIOUS
<1>1. ASSUME NEW c \in Controllers, Step(c) PROVE IInv'
  <2>1. CASE Acquire(c)
    BY <2>1, AcquireStep
  <2>2. CASE Renew(c)
    BY <2>2, RenewStep
  <2>3. CASE Lost(c) \/ Crash(c)
    BY <2>3, DropStep
  <2>4. CASE ReadClock(c) \/ Refused(c) \/ EndPass(c)
    <3>1. UNCHANGED <<row, lease>>
      BY <2>4 DEF ReadClock, Refused, EndPass
    <3> QED
      BY <2>4, <3>1, QuietStep
  <2> QED
    BY <1>1, <2>1, <2>2, <2>3, <2>4 DEF Step
<1>2. CASE Tick
  BY <1>2, QuietStep DEF Tick
<1>3. CASE UNCHANGED vars
  BY <1>3, QuietStep DEF vars
<1> QED
  BY <1>1, <1>2, <1>3 DEF Next

\* The inductive invariant of the lease protocol: types, the agreement of every
\* process's lease object with the row, and the uniqueness of tokens.
THEOREM LeaseInvariant == Spec => []IInv
<1>1. Init => IInv
  BY InitIInv
<1>2. IInv /\ [Next]_vars => IInv'
  BY NextIInv
<1> QED
  BY <1>1, <1>2, PTL DEF Spec

\* acquire_leadership and renew_leadership never give two controllers a running lease.
THEOREM Exclusive == Spec => []LeaseExclusive
<1>1. IInv => LeaseExclusive
  <2> SUFFICES ASSUME IInv, NEW c \in Controllers, NEW d \in Controllers,
                      Valid(c), Valid(d)
               PROVE  c = d
    BY DEF LeaseExclusive
  <2>1. row.holder = c
    BY DEF IInv, RowAgrees, Valid, TypeOK
  <2>2. row.holder = d
    BY DEF IInv, RowAgrees, Valid, TypeOK
  <2> QED
    BY <2>1, <2>2
<1> QED
  BY <1>1, LeaseInvariant, PTL

\* Two processes never hold the same fence token.
THEOREM TokensUnique == Spec => []FenceUnique
<1>1. IInv => FenceUnique
  BY DEF IInv
<1> QED
  BY <1>1, LeaseInvariant, PTL

-----------------------------------------------------------------------------
(* Refinement of the plain lease.                                          *)

\* The empty table is a lease nobody holds.
LEMMA RefineInit == Init => Timer!LeaseInit
<1> SUFFICES ASSUME Init PROVE Timer!LeaseInit
  OBVIOUS
<1>1. row.holder = Nobody /\ row.token = 0
  BY DEF Init, NoRow
<1>2. \A c \in Controllers : Holds(c) = FALSE
  BY DEF Init, Holds, NoLease
<1>3. [c \in Controllers |-> Holds(c)] = [c \in Controllers |-> FALSE]
  BY <1>2
<1>4. Remaining = -1
  BY <1>1 DEF Remaining
<1> QED
  BY <1>1, <1>3, <1>4 DEF Timer!LeaseInit

\* Taking or renewing the row with an old time leaves at most a full lease, and a
\* takeover happens only when nothing is left of the lease it replaces.
LEMMA RefineStep ==
  ASSUME IInv, NEW c \in Controllers, Acquire(c) \/ Renew(c)
  PROVE  \E left \in Timer!Left : Timer!TakeLease(c, left) \/ Timer!KeepLease(c, left)
<1>0. /\ clock \in Nat /\ now[c] \in Nat /\ now[c] <= clock
      /\ row \in [holder : Controllers \cup {Nobody}, token : Nat, expires : Nat]
      /\ lease \in [Controllers -> [token : Nat, expires : Nat]]
      /\ LeaseSeconds \in Nat \ {0}
  BY LeadershipAssumption DEF IInv, TypeOK
<1>1. CASE Acquire(c)
  <2>1. /\ row' = [holder |-> c, token |-> row.token + 1, expires |-> now[c] + LeaseSeconds]
        /\ lease' = [lease EXCEPT ![c] = [token |-> row.token + 1,
                                          expires |-> now[c] + LeaseSeconds]]
        /\ clock' = clock
    BY <1>1 DEF Acquire, NextToken
  <2>2. ~Holds(c)
    BY <1>1 DEF Acquire, IInv, AsksAsHeld
  <2>3. row.holder \in {c, Nobody} \/ Remaining <= 0
    BY <1>0, <1>1 DEF Acquire, HeldByOther, Remaining
  <2>4. Remaining' \in Timer!Left
    BY <1>0, <2>1 DEF Remaining, Timer!Left
  <2>5. [d \in Controllers |-> Holds(d)]' = [[d \in Controllers |-> Holds(d)] EXCEPT ![c] = TRUE]
    <3>1. Holds(c)' = TRUE
      BY <1>0, <2>1 DEF Holds
    <3>2. \A d \in Controllers \ {c} : lease'[d] = lease[d]
      BY <1>0, <2>1
    <3>3. \A d \in Controllers \ {c} : Holds(d)' = Holds(d)
      BY <3>2 DEF Holds
    <3> QED
      BY <3>1, <3>3
  <2>6. Timer!TakeLease(c, Remaining')
    BY <2>1, <2>2, <2>3, <2>5 DEF Timer!TakeLease
  <2> QED
    BY <2>4, <2>6
<1>2. CASE Renew(c)
  <2>1. /\ row' = [row EXCEPT !.expires = now[c] + LeaseSeconds]
        /\ lease' = [lease EXCEPT ![c].expires = now[c] + LeaseSeconds]
        /\ clock' = clock /\ row.holder = c
    BY <1>2 DEF Renew, StillMine
  <2>2. Holds(c)
    BY <1>2 DEF Renew, IInv, AsksAsHeld
  <2>3. row'.holder = row.holder /\ row'.token = row.token
        /\ row'.expires = now[c] + LeaseSeconds
    BY <1>0, <2>1
  <2>4. Remaining' \in Timer!Left
    BY <1>0, <2>1, <2>3 DEF Remaining, Timer!Left
  <2>5. [d \in Controllers |-> Holds(d)]' = [d \in Controllers |-> Holds(d)]
    <3>1. \A d \in Controllers : lease'[d].token = lease[d].token
      BY <1>0, <2>1
    <3> QED
      BY <3>1 DEF Holds
  <2>6. Timer!KeepLease(c, Remaining')
    BY <2>1, <2>2, <2>3, <2>5 DEF Timer!KeepLease
  <2> QED
    BY <2>4, <2>6
<1> QED
  BY <1>1, <1>2

\* A lost renewal and a crash drop the process's lease object and nothing else.
LEMMA RefineDrop ==
  ASSUME IInv, NEW c \in Controllers, Lost(c) \/ Crash(c)
  PROVE  Timer!DropLease(c)
<1>0. /\ clock \in Nat /\ now[c] \in Nat /\ now[c] <= clock
      /\ row \in [holder : Controllers \cup {Nobody}, token : Nat, expires : Nat]
      /\ lease \in [Controllers -> [token : Nat, expires : Nat]]
  BY DEF IInv, TypeOK
<1>1. lease' = [lease EXCEPT ![c] = NoLease] /\ UNCHANGED <<row, clock>>
  BY DEF Lost, Crash
<1>2. [d \in Controllers |-> Holds(d)]' = [[d \in Controllers |-> Holds(d)] EXCEPT ![c] = FALSE]
  BY <1>0, <1>1 DEF Holds, NoLease
<1>3. Remaining' = Remaining
  BY <1>1 DEF Remaining
<1> QED
  BY <1>1, <1>2, <1>3 DEF Timer!DropLease

\* Every step is one of the plain lease or leaves it alone.
LEMMA RefineNext == IInv /\ [Next]_vars => [Timer!LeaseNext]_Timer!leaseVars
<1> SUFFICES ASSUME IInv, [Next]_vars
             PROVE  Timer!LeaseNext \/ UNCHANGED Timer!leaseVars
  OBVIOUS
<1>1. ASSUME NEW c \in Controllers, Acquire(c) \/ Renew(c) PROVE Timer!LeaseNext
  BY <1>1, RefineStep DEF Timer!LeaseNext
<1>2. ASSUME NEW c \in Controllers, Lost(c) \/ Crash(c) PROVE Timer!LeaseNext
  BY <1>2, RefineDrop DEF Timer!LeaseNext
<1>3. ASSUME UNCHANGED <<clock, row, lease>> PROVE UNCHANGED Timer!leaseVars
  BY <1>3 DEF Timer!leaseVars, Remaining, Holds
<1>4. ASSUME Tick PROVE Timer!LeaseNext
  <2>1. /\ clock' = clock + 1 /\ UNCHANGED <<row, lease>>
        /\ clock \in Nat /\ row.expires \in Nat
    BY <1>4 DEF Tick, IInv, TypeOK
  <2>2. Remaining' = IF Remaining < 0 THEN -1 ELSE Remaining - 1
    BY <2>1 DEF Remaining
  <2>3. Timer!LeaseTick
    BY <2>1, <2>2 DEF Timer!LeaseTick, Holds
  <2> QED
    BY <2>3 DEF Timer!LeaseNext
<1>5. ASSUME NEW c \in Controllers, ReadClock(c) \/ Refused(c) \/ EndPass(c)
      PROVE  UNCHANGED Timer!leaseVars
  BY <1>3, <1>5 DEF ReadClock, Refused, EndPass
<1>6. CASE UNCHANGED vars
  BY <1>3, <1>6 DEF vars
<1> QED
  BY <1>1, <1>2, <1>4, <1>5, <1>6 DEF Next, Step

\* Clock, tokens and times read too early implement the plain lease: the row passes on
\* only at or after its expiry, and only a process that has both the row and a lease
\* object extends it (acquire_leadership, renew_leadership).
THEOREM LeaseRefined == Spec => ImplementsLease
<1>1. Init => Timer!LeaseInit
  BY RefineInit
<1>2. IInv /\ [Next]_vars => [Timer!LeaseNext]_Timer!leaseVars
  BY RefineNext
<1> QED
  BY <1>1, <1>2, LeaseInvariant, PTL DEF Spec, ImplementsLease, Timer!LeaseSpec
=============================================================================

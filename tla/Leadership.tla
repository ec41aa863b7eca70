------------------------------ MODULE Leadership ------------------------------
(***************************************************************************)
(* The controller lease: one row of the SQLite table controller_leadership *)
(* and, in every controller process, the lease it believes it holds.       *)
(*                                                                         *)
(* reconcile_once reads time.time() once, then runs acquire_leadership     *)
(* (only when it has no lease) and renew_leadership, each in a             *)
(* BEGIN IMMEDIATE transaction that may wait for the database lock.  The   *)
(* wait is modelled: the time read into now[c] may be old when the         *)
(* transaction that uses it runs.                                          *)
(***************************************************************************)
EXTENDS Integers

CONSTANTS
    Controllers,    \* controller ids (controller_id of TPUSwarmController)
    Nobody,         \* holder of the row before the first acquisition
    LeaseSeconds,   \* leadership_lease_seconds
    MaxClock,       \* bound on the clock
    MaxToken        \* bound on the fence token

ASSUME LeadershipAssumption ==
    /\ Nobody \notin Controllers
    /\ LeaseSeconds \in Nat \ {0}
    /\ MaxClock \in Nat
    /\ MaxToken \in Nat

VARIABLES
    clock,   \* the wall clock that every time.time() reads
    row,     \* the database row; token 0 stands for "no row"
    lease,   \* self.lease of each process; token 0 stands for None
    now,     \* the local variable now of reconcile_once
    pc       \* where reconcile_once is

vars == <<clock, row, lease, now, pc>>

NoLease == [token |-> 0, expires |-> 0]
NoRow == [holder |-> Nobody, token |-> 0, expires |-> 0]

Init ==
    /\ clock = 0
    /\ row = NoRow
    /\ lease = [c \in Controllers |-> NoLease]
    /\ now = [c \in Controllers |-> 0]
    /\ pc = [c \in Controllers |-> "idle"]

-----------------------------------------------------------------------------
\* A pass starts: the clock is read, and a lease is asked for if there is none.
ReadClock(c) ==
    /\ pc[c] = "idle"
    /\ now' = [now EXCEPT ![c] = clock]
    /\ pc' = [pc EXCEPT ![c] = IF lease[c].token = 0 THEN "acquire" ELSE "renew"]
    /\ UNCHANGED <<clock, row, lease>>

\* Mutant: the takeover test allows for a second of clock skew in the wrong direction.
HeldByOtherSkewed(c) ==
    row.token # 0 /\ row.expires > now[c] + 1 /\ row.holder # c

\* The row belongs to another controller whose lease is still running.
HeldByOther(c) ==
    row.token # 0 /\ row.expires > now[c] /\ row.holder # c

\* Mutant: a takeover keeps the token of the lease it replaces.
NextTokenReused == IF row.token = 0 THEN 1 ELSE row.token

NextToken == row.token + 1

\* acquire_leadership takes or retakes the row under the next fence token.
Acquire(c) ==
    /\ pc[c] = "acquire"
    /\ ~HeldByOther(c)
    /\ NextToken <= MaxToken
    /\ LET expires == now[c] + LeaseSeconds IN
       /\ row' = [holder |-> c, token |-> NextToken, expires |-> expires]
       /\ lease' = [lease EXCEPT ![c] = [token |-> NextToken, expires |-> expires]]
    /\ pc' = [pc EXCEPT ![c] = "renew"]
    /\ UNCHANGED <<clock, now>>

\* acquire_leadership returns None: the pass ends, the process is a follower.
Refused(c) ==
    /\ pc[c] = "acquire"
    /\ HeldByOther(c)
    /\ pc' = [pc EXCEPT ![c] = "idle"]
    /\ UNCHANGED <<clock, row, lease, now>>

\* Mutant: the WHERE clause of renew_leadership compares only the expiry.
StillMineAnyones(c) == row.expires >= now[c]

\* The WHERE clause of renew_leadership.
StillMine(c) ==
    /\ row.holder = c
    /\ row.token = lease[c].token
    /\ row.expires >= now[c]

\* renew_leadership extends the row, and the process leads.
Renew(c) ==
    /\ pc[c] = "renew"
    /\ StillMine(c)
    /\ row' = [row EXCEPT !.expires = now[c] + LeaseSeconds]
    /\ lease' = [lease EXCEPT ![c].expires = now[c] + LeaseSeconds]
    /\ pc' = [pc EXCEPT ![c] = "leading"]
    /\ UNCHANGED <<clock, now>>

\* renew_leadership updates no row: LeadershipLostError, self.lease = None.
Lost(c) ==
    /\ pc[c] = "renew"
    /\ ~StillMine(c)
    /\ lease' = [lease EXCEPT ![c] = NoLease]
    /\ pc' = [pc EXCEPT ![c] = "idle"]
    /\ UNCHANGED <<clock, row, now>>

\* The rest of the pass, however long it takes; the lease is not looked at again.
EndPass(c) ==
    /\ pc[c] = "leading"
    /\ pc' = [pc EXCEPT ![c] = "idle"]
    /\ UNCHANGED <<clock, row, lease, now>>

\* The process dies and is started again with the same id; only the row survives.
Crash(c) ==
    /\ lease' = [lease EXCEPT ![c] = NoLease]
    /\ pc' = [pc EXCEPT ![c] = "idle"]
    /\ UNCHANGED <<clock, row, now>>

Tick ==
    /\ clock < MaxClock
    /\ clock' = clock + 1
    /\ UNCHANGED <<row, lease, now, pc>>

Step(c) ==
    \/ ReadClock(c) \/ Acquire(c) \/ Refused(c)
    \/ Renew(c) \/ Lost(c) \/ EndPass(c) \/ Crash(c)

Next == Tick \/ \E c \in Controllers : Step(c)

Spec == Init /\ [][Next]_vars

-----------------------------------------------------------------------------
TypeOK ==
    /\ clock \in Nat
    /\ row \in [holder : Controllers \cup {Nobody}, token : Nat, expires : Nat]
    /\ lease \in [Controllers -> [token : Nat, expires : Nat]]
    /\ now \in [Controllers -> Nat]
    /\ pc \in [Controllers -> {"idle", "acquire", "renew", "leading"}]

Holds(c) == lease[c].token # 0

\* The process has a lease and its own copy says it is still running.
Valid(c) == Holds(c) /\ clock < lease[c].expires

\* At no instant do two controllers both have a lease that is still running by their
\* own copy, although each decided with a time read before its transaction
\* (acquire_leadership, renew_leadership and the single read of now in reconcile_once).
LeaseExclusive ==
    \A c, d \in Controllers : Valid(c) /\ Valid(d) => c = d

\* A fence token names one acquisition: two processes never hold the same one, so a
\* write that checked the token could tell the present leader from a former one.
FenceUnique ==
    \A c, d \in Controllers :
        Holds(c) /\ Holds(d) /\ lease[c].token = lease[d].token => c = d

\* What a process believes agrees with the row, or the row has passed to another since
\* and its lease has run out.
RowAgrees ==
    \A c \in Controllers : Holds(c) =>
        \/ /\ lease[c].token = row.token
           /\ row.holder = c
           /\ lease[c].expires = row.expires
        \/ /\ lease[c].token < row.token
           /\ row.holder # c
           /\ lease[c].expires <= clock

\* A lease is asked for by a process that has none and renewed by one that has.
AsksAsHeld ==
    \A c \in Controllers :
        (pc[c] = "acquire" => ~Holds(c)) /\ (pc[c] = "renew" => Holds(c))

\* The inductive invariant behind LeaseExclusive and FenceUnique.
IInv ==
    /\ TypeOK
    /\ \A c \in Controllers : now[c] <= clock
    /\ RowAgrees
    /\ FenceUnique
    /\ AsksAsHeld

-----------------------------------------------------------------------------
\* lease_expires_at - time.time(), cut off at -1.
Remaining == IF row.token = 0 \/ row.expires < clock THEN -1 ELSE row.expires - clock

Timer == INSTANCE LeaseTimer WITH
    holder <- row.holder,
    leaseLeft <- Remaining,
    mine <- [c \in Controllers |-> Holds(c)]

\* The tokens, the clock and the times read too early implement the plain lease: the
\* row passes from one controller to another only at or after its expiry, and only a
\* process that has both the row and a lease object extends it.
ImplementsLease == Timer!LeaseSpec
=============================================================================

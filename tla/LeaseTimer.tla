------------------------------ MODULE LeaseTimer ------------------------------
(***************************************************************************)
(* The controller lease without clock or token: who holds the row, how     *)
(* many seconds its lease still has, and which processes have a lease      *)
(* object.  It is what Leadership implements and what SwarmController      *)
(* builds on.  leaseLeft is lease_expires_at - time.time(), cut off at -1: *)
(* 0 is the instant of expiry, at which the holder may still renew         *)
(* (lease_expires_at >= now) and another may already take over             *)
(* (not lease_expires_at > now).                                           *)
(***************************************************************************)
EXTENDS Integers

CONSTANTS
    Controllers,    \* controller ids
    Nobody,         \* holder before the first acquisition
    LeaseSeconds    \* leadership_lease_seconds

ASSUME LeaseAssumption ==
    /\ Nobody \notin Controllers
    /\ LeaseSeconds \in Nat \ {0}

VARIABLES
    holder,      \* controller_id of the row
    leaseLeft,   \* seconds until its lease_expires_at, at least -1
    mine         \* whether self.lease of the process is not None

leaseVars == <<holder, leaseLeft, mine>>

Left == -1..LeaseSeconds

LeaseInit ==
    /\ holder = Nobody
    /\ leaseLeft = -1
    /\ mine = [c \in Controllers |-> FALSE]

\* Mutant: the takeover does not look at the end of the row's lease.
TakeLeaseAnytime(c, left) ==
    /\ ~mine[c]
    /\ holder' = c
    /\ mine' = [mine EXCEPT ![c] = TRUE]
    /\ leaseLeft' = left

\* acquire_leadership, left seconds before the new lease ends.
TakeLease(c, left) ==
    /\ ~mine[c]
    /\ holder \in {c, Nobody} \/ leaseLeft <= 0
    /\ holder' = c
    /\ mine' = [mine EXCEPT ![c] = TRUE]
    /\ leaseLeft' = left

\* renew_leadership finds its row, left seconds before the renewed lease ends.
KeepLease(c, left) ==
    /\ mine[c]
    /\ holder = c
    /\ leaseLeft' = left
    /\ UNCHANGED <<holder, mine>>

\* renew_leadership finds another holder or an expired lease.
LoseLease(c) ==
    /\ mine[c]
    /\ holder # c \/ leaseLeft < 0
    /\ mine' = [mine EXCEPT ![c] = FALSE]
    /\ UNCHANGED <<holder, leaseLeft>>

\* The process dies; the row stays until its lease runs out.
DropLease(c) ==
    /\ mine' = [mine EXCEPT ![c] = FALSE]
    /\ UNCHANGED <<holder, leaseLeft>>

LeaseTick ==
    /\ leaseLeft' = IF leaseLeft < 0 THEN -1 ELSE leaseLeft - 1
    /\ UNCHANGED <<holder, mine>>

LeaseNext ==
    \/ LeaseTick
    \/ \E c \in Controllers :
         \/ \E left \in Left : TakeLease(c, left) \/ KeepLease(c, left)
         \/ LoseLease(c)
         \/ DropLease(c)

LeaseSpec == LeaseInit /\ [][LeaseNext]_leaseVars

LeaseTypeOK ==
    /\ holder \in Controllers \cup {Nobody}
    /\ leaseLeft \in Left
    /\ mine \in [Controllers -> BOOLEAN]
=============================================================================

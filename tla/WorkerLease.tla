----------------------------- MODULE WorkerLease -----------------------------
(***************************************************************************)
(* The one row of jora_leases that a namespace has, and the statements of  *)
(* PostgresLeaseStore (src/core/postgres-lease-store.js).  Every statement *)
(* is atomic.  A token is what randomUUID() returned for one acquire; the  *)
(* composing module hands in one that nobody else holds.                   *)
(*                                                                         *)
(* Time is abstract: live says expires_at > NOW(), and a lease that is not *)
(* renewed in time may stop being live at any moment.  Renewing an already *)
(* live lease therefore changes nothing but the answer.                    *)
(***************************************************************************)
CONSTANTS Owners,   \* the workerId values that compete for the slot
          Tokens,   \* lease tokens
          NoToken   \* the row is absent

VARIABLE lease

NoLease == [owner |-> NoToken, token |-> NoToken, live |-> FALSE]

LeaseTypeOK ==
  lease \in [owner: Owners, token: Tokens, live: BOOLEAN] \cup {NoLease}

LeaseInit == lease = NoLease

\* ON CONFLICT ... DO UPDATE ... WHERE expires_at<=NOW() OR owner=$2: the row is
\* absent, lapsed, or was left by an earlier run of the same owner.
Acquirable(o) == ~lease.live \/ lease.owner = o

Grant(o, t) ==
  /\ Acquirable(o)
  /\ lease' = [owner |-> o, token |-> t, live |-> TRUE]

Holds(o, t) == t # NoToken /\ lease.owner = o /\ lease.token = t

\* heartbeat(): WHERE owner=$2 AND token=$3 AND expires_at>NOW().
Renewable(o, t) == Holds(o, t) /\ lease.live

\* release(): DELETE ... WHERE owner=$2 AND token=$3.
Release(o, t) == lease' = IF Holds(o, t) THEN NoLease ELSE lease

\* NOW() reaches expires_at.
Expire ==
  /\ lease.live
  /\ lease' = [lease EXCEPT !.live = FALSE]

LeaseNext ==
  \/ \E o \in Owners, t \in Tokens : t # lease.token /\ Grant(o, t)
  \/ \E o \in Owners, t \in Tokens : Release(o, t)
  \/ Expire

LeaseSpec == LeaseInit /\ [][LeaseNext]_lease
=============================================================================

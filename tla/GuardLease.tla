----------------------------- MODULE GuardLease -----------------------------
(***************************************************************************)
(* Leader.acquire_or_renew of gpu-node-guard (main.py) and the part of     *)
(* Guard.loop_once / run_forever that schedules it.                        *)
(*                                                                         *)
(* Every replica runs the same loop: read the Lease, decide from what it   *)
(* read and from the time its loop STARTED whether it may write it, write  *)
(* it back under the version it read, and, if the write was answered, work *)
(* until the end of the loop without looking at the Lease again.  The two  *)
(* requests are two steps here, so other replicas, the clock and restarts  *)
(* come between them.  The clock ticks SECOND times a second: the code     *)
(* compares its own fractional times with a renewTime of whole seconds.    *)
(* The durations, in ticks, are scaled down; all replicas read one clock.  *)
(***************************************************************************)
EXTENDS KubeTime

CONSTANTS
  Replica,                  \* guard pods that may exist at the same time
  Nobody,                   \* holderIdentity of a Lease nobody holds
  LEASE_DURATION_SECONDS,
  LOOP_INTERVAL_SECONDS,
  SECOND,                   \* ticks of the clock in a second
  MaxClock                  \* bound of the clock

ASSUME LeaseAssumption ==
  /\ Nobody \notin Replica
  /\ LEASE_DURATION_SECONDS \in Nat
  /\ LOOP_INTERVAL_SECONDS \in Nat
  /\ SECOND \in Nat \ {0}
  /\ MaxClock \in Nat

VARIABLES
  clock,  \* time.time()
  lease,  \* the Lease object in the API server
  fresh,  \* replicas whose read of the Lease is still its current version
  phase,  \* how far each replica is in its loop
  start,  \* the `now` of each replica's current loop, 0 between loops
  wake    \* when each replica's sleep ends

leaseVars == <<clock, lease, fresh, phase, start, wake>>

Phase == {"idle", "get", "write", "work"}

LeaseObject == [holder: Replica \cup {Nobody}, renewed: Time]

LeaseTypeOK ==
  /\ clock \in 0..MaxClock
  /\ lease \in LeaseObject
  /\ fresh \in SUBSET Replica
  /\ phase \in [Replica -> Phase]
  /\ start \in [Replica -> 0..MaxClock]
  /\ wake \in [Replica -> Nat]

\* No Lease yet, or one created by hand without holderIdentity and renewTime:
\* the code takes either.
LeaseInit ==
  /\ clock = 0
  /\ lease = [holder |-> Nobody, renewed |-> NoTime]
  /\ fresh = {}
  /\ phase = [g \in Replica |-> "idle"]
  /\ start = [g \in Replica |-> 0]
  /\ wake = [g \in Replica |-> 0]

\* What is read back of a time written as a Kubernetes timestamp: rfc3339_micro
\* writes six zeros for the fraction of the second, parse_time drops it.
Whole(t) == t - (t % SECOND)

-----------------------------------------------------------------------------
(* Deliberately wrong variants: each shows that a property can fail.       *)

\* A Lease that is exactly as old as its duration counts as expired.
ExpiredTooEarly(now) ==
  lease.renewed = NoTime \/ now - lease.renewed >= LEASE_DURATION_SECONDS

\* Only a Lease without renewTime counts as expired.
ExpiredNever(now) == lease.renewed = NoTime

\* The write is not bound to the version that was read.
UnfencedWrite(g) == TRUE

-----------------------------------------------------------------------------
(* The loop.                                                               *)

\* The sleep of run_forever: LOOP_INTERVAL_SECONDS from the start of the loop,
\* and at least one second.
NextWake(g) ==
  IF start[g] + LOOP_INTERVAL_SECONDS > clock + SECOND
  THEN start[g] + LOOP_INTERVAL_SECONDS
  ELSE clock + SECOND

EndLoop(g) ==
  /\ fresh' = fresh \ {g}
  /\ phase' = [phase EXCEPT ![g] = "idle"]
  /\ start' = [start EXCEPT ![g] = 0]
  /\ wake' = [wake EXCEPT ![g] = NextWake(g)]
  /\ UNCHANGED <<clock, lease>>

StartLoop(g) ==
  /\ phase[g] = "idle"
  /\ wake[g] <= clock
  /\ start' = [start EXCEPT ![g] = clock]
  /\ phase' = [phase EXCEPT ![g] = "get"]
  /\ UNCHANGED <<clock, lease, fresh, wake>>

\* Judged from the renewTime as stored, so up to a second before the renewal
\* itself is as old as the lease.
Expired(now) ==
  lease.renewed = NoTime \/ now - lease.renewed > LEASE_DURATION_SECONDS

MayHold(g) == lease.holder = g \/ Expired(start[g])

ReadLease(g) ==
  /\ phase[g] = "get"
  /\ MayHold(g)
  /\ fresh' = fresh \cup {g}
  /\ phase' = [phase EXCEPT ![g] = "write"]
  /\ UNCHANGED <<clock, lease, start, wake>>

\* Somebody else's Lease, not expired: not the leader, nothing more this loop.
Defer(g) ==
  /\ phase[g] = "get"
  /\ ~MayHold(g)
  /\ EndLoop(g)

\* The API server takes a write only on top of what the writer has read: a POST
\* needs the object not to exist, a PUT needs its current resourceVersion.
Fenced(g) == g \in fresh

\* The write takes effect.  If its answer is lost (a timeout, a broken
\* connection) the replica reads that as a failure and stands down while the
\* Lease carries its name.
WriteLease(g, answered) ==
  /\ phase[g] = "write"
  /\ Fenced(g)
  /\ lease' = [holder |-> g, renewed |-> Whole(start[g])]
  /\ fresh' = {}
  /\ phase' = [phase EXCEPT ![g] = IF answered THEN "work" ELSE "idle"]
  /\ start' = IF answered THEN start ELSE [start EXCEPT ![g] = 0]
  /\ wake' = IF answered THEN wake ELSE [wake EXCEPT ![g] = NextWake(g)]
  /\ UNCHANGED clock

\* The API server refuses a write that is not on top of its current version.
Conflict(g) ==
  /\ phase[g] = "write"
  /\ g \notin fresh
  /\ EndLoop(g)

\* Either request fails without effect: the API server does not answer.
LeaseCallFails(g) ==
  /\ phase[g] \in {"get", "write"}
  /\ EndLoop(g)

FinishWork(g) ==
  /\ phase[g] = "work"
  /\ EndLoop(g)

\* The container restarts in its pod: the identity, POD_NAME.hostname, stays.
Restart(g) ==
  /\ fresh' = fresh \ {g}
  /\ phase' = [phase EXCEPT ![g] = "idle"]
  /\ start' = [start EXCEPT ![g] = 0]
  /\ wake' = [wake EXCEPT ![g] = clock + 1]
  /\ UNCHANGED <<clock, lease>>

Tick ==
  /\ clock < MaxClock
  /\ clock' = clock + 1
  /\ UNCHANGED <<lease, fresh, phase, start, wake>>

LeaseGoes(g) ==
  \/ StartLoop(g)
  \/ ReadLease(g)
  \/ Defer(g)
  \/ WriteLease(g, TRUE)
  \/ Conflict(g)

LeaseFails(g) == WriteLease(g, FALSE) \/ LeaseCallFails(g)

LeaseNext ==
  \/ \E g \in Replica : LeaseGoes(g) \/ LeaseFails(g) \/ FinishWork(g) \/ Restart(g)
  \/ Tick

LeaseSpec == LeaseInit /\ [][LeaseNext]_leaseVars

-----------------------------------------------------------------------------
(* Properties.                                                             *)

Leading(g) == phase[g] = "work"

\* The renewTime of g's loop is no older than the lease.  It is the start of the
\* loop cut to a whole second: the loop is as much younger as was cut off.
FreshLoop(g) == clock <= Whole(start[g]) + LEASE_DURATION_SECONDS

(* A replica at work whose own renewTime is no older than the lease is the  *)
(* only such replica, whatever requests of acquire_or_renew were delayed,   *)
(* lost or half done: what the Lease guarantees, and all it guarantees.  Of *)
(* loops younger than the lease there may be two within the second that     *)
(* rfc3339_micro cuts off; of loops younger by a second there is one.       *)
OneFreshLeader ==
  \A a, b \in Replica :
    Leading(a) /\ FreshLoop(a) /\ Leading(b) /\ FreshLoop(b) => a = b

(* The Lease changes hands only when, at the moment of the write, the       *)
(* renewTime stored in the API server is older than the lease duration,     *)
(* although acquire_or_renew judged expiry from an earlier read and an      *)
(* earlier clock.  (The renewal itself may be younger by what was cut off.) *)
NoTheft ==
  [][\A a \in Replica :
       (lease.holder = a /\ lease'.holder # a)
         => clock - lease.renewed > LEASE_DURATION_SECONDS]_leaseVars

(* Contradicted: "a Lease so only one replica ever acts" (main.py:4).       *)
OnlyOneReplicaActs ==
  \A a, b \in Replica : Leading(a) /\ Leading(b) => a = b
=============================================================================

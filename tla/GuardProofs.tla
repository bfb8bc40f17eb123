---------------------------- MODULE GuardProofs ----------------------------
(***************************************************************************)
(* Proofs about the guard, for every fleet, every set of replicas, every   *)
(* configuration and any number of disturbances: the election by itself,   *)
(* then the loop's types, that it runs that election, and what follows of  *)
(* its replicas.                                                           *)
(***************************************************************************)
EXTENDS GuardProperties, FiniteSetTheorems, TLAPS

-----------------------------------------------------------------------------
(* The leader election.                                                    *)
(*                                                                         *)
(* What makes OneFreshLeader true is the order of the starts of loops: a   *)
(* replica at work either holds the Lease, and then its renewTime is the   *)
(* start of its loop, to the second, or has lost it, and then to a loop    *)
(* that started more than LEASE_DURATION_SECONDS after its own renewTime.  *)
(* The renewTime of that loop may be less than that later, so the time of  *)
(* the loss is not to be read from the Lease: whatever loop the new holder *)
(* is in, it started late enough.                                          *)

D == LEASE_DURATION_SECONDS

\* A version that is still current was read by a loop that may write it.
FreshMayWrite ==
  \A g \in fresh : phase[g] = "write" /\ MayHold(g)

\* Loops start, and renewals happen, in the past; a holder's renewals precede
\* its current loop.
StartsInOrder ==
  /\ \A g \in Replica : start[g] <= clock
  /\ lease.renewed <= clock
  /\ \A g \in Replica :
       phase[g] # "idle" /\ lease.holder = g => lease.renewed <= start[g]

HolderRenewed == lease.holder \in Replica => lease.renewed \in Nat

\* Where a replica at work stands to the Lease.
HeldOrLost ==
  \A g \in Replica : Leading(g) =>
    /\ lease.renewed \in Nat
    /\ lease.holder = g => Whole(start[g]) = lease.renewed
    /\ lease.holder # g =>
         /\ Whole(start[g]) <= lease.renewed
         /\ Whole(start[g]) + D < clock
         /\ \A h \in Replica :
              lease.holder = h /\ phase[h] # "idle" => Whole(start[g]) + D < start[h]

\* Of any two replicas at work, one started when the renewTime of the other was
\* older than the lease.
FarApart ==
  \A a, b \in Replica :
    Leading(a) /\ Leading(b) /\ a # b =>
      Whole(start[a]) + D < start[b] \/ Whole(start[b]) + D < start[a]

LeaseInv ==
  /\ LeaseTypeOK
  /\ FreshMayWrite
  /\ StartsInOrder
  /\ HolderRenewed
  /\ HeldOrLost
  /\ FarApart

-----------------------------------------------------------------------------

(* A stored time is a time, no later than the one it was cut from           *)
(* (rfc3339_micro, parse_time).                                             *)
LEMMA WholeIsEarlier ==
  ASSUME NEW t \in Nat
  PROVE  Whole(t) \in Nat /\ Whole(t) <= t
<1>1. ASSUME NEW second \in Nat \ {0}
      PROVE  t - (t % second) \in Nat /\ t - (t % second) <= t
  OBVIOUS
<1>2. QED BY <1>1, LeaseAssumption DEF Whole

(* A time is its whole seconds and a rest.                                  *)
LEMMA WholeAndRest ==
  ASSUME NEW t \in Nat, NEW second \in Nat \ {0}
  PROVE  /\ t \div second \in Nat
         /\ t - (t % second) = (t \div second) * second
         /\ t < (t \div second) * second + second
<1>1. t \div second \in Nat OBVIOUS
<1>2. t % second \in 0..(second - 1) OBVIOUS
<1>3. t = (t \div second) * second + (t % second) BY SMTT(60)
<1>4. (t \div second) * second \in Nat BY <1>1
<1>5. QED BY <1>1, <1>2, <1>3, <1>4

(* A time that has reached a stored one still has when it is stored itself. *)
LEMMA WholeIsReached ==
  ASSUME NEW s \in Nat, NEW t \in Nat, Whole(s) <= t
  PROVE  Whole(s) <= Whole(t)
<1> DEFINE p == s \div SECOND
           q == t \div SECOND
<1>1. SECOND \in Nat \ {0} BY LeaseAssumption
<1>2. /\ p \in Nat /\ Whole(s) = p * SECOND
      /\ q \in Nat /\ Whole(t) = q * SECOND /\ t < q * SECOND + SECOND
  BY <1>1, WholeAndRest DEF Whole
<1> HIDE DEF p, q
<1>3. ASSUME NEW second \in Nat \ {0}, NEW i \in Nat, NEW j \in Nat,
             i * second < j * second + second
      PROVE  i * second <= j * second
  <2>1. CASE i <= j BY <2>1
  <2>2. CASE i >= j + 1
    <3>1. i * second >= (j + 1) * second BY <2>2
    <3>2. (j + 1) * second = j * second + second OBVIOUS
    <3>3. i * second \in Nat /\ j * second \in Nat OBVIOUS
    <3>4. QED BY <1>3, <3>1, <3>2, <3>3
  <2>3. QED BY <2>1, <2>2
<1>4. p * SECOND \in Nat /\ q * SECOND \in Nat BY <1>1, <1>2
<1>5. p * SECOND < q * SECOND + SECOND BY <1>1, <1>2, <1>4
<1>6. QED BY <1>1, <1>2, <1>3, <1>5

(* The initial state satisfies the inductive invariant.                     *)
LEMMA LeaseInitInv == LeaseInit => LeaseInv
  BY LeaseAssumption
     DEF LeaseInit, LeaseInv, LeaseTypeOK, LeaseObject, Phase, Time, NoTime,
         FreshMayWrite, StartsInOrder, HolderRenewed, HeldOrLost, FarApart, Leading

(* Types are kept by every step.                                            *)
LEMMA LeaseTypeStep == LeaseTypeOK /\ [LeaseNext]_leaseVars => LeaseTypeOK'
<1> USE LeaseAssumption DEF LeaseTypeOK, LeaseObject, Phase, Time
<1> SUFFICES ASSUME LeaseTypeOK, [LeaseNext]_leaseVars
             PROVE  LeaseTypeOK'
  OBVIOUS
<1>1. ASSUME NEW g \in Replica PROVE NextWake(g) \in Nat
  BY DEF NextWake
<1>2. ASSUME NEW g \in Replica, EndLoop(g) PROVE LeaseTypeOK'
  BY <1>1, <1>2 DEF EndLoop
<1> HIDE DEF Time
<1>3. ASSUME NEW g \in Replica, NEW answered \in BOOLEAN, WriteLease(g, answered)
      PROVE  LeaseTypeOK'
  <2>1. Whole(start[g]) \in Time BY WholeIsEarlier DEF Time
  <2>2. QED BY <1>1, <1>3, <2>1 DEF WriteLease
<1>4. ASSUME NEW g \in Replica, LeaseGoes(g) PROVE LeaseTypeOK'
  <2>1. CASE StartLoop(g) BY <2>1 DEF StartLoop
  <2>2. CASE ReadLease(g) BY <2>2 DEF ReadLease
  <2>3. CASE WriteLease(g, TRUE) BY <2>3, <1>3
  <2>4. CASE Defer(g) \/ Conflict(g) BY <2>4, <1>2 DEF Defer, Conflict
  <2>5. QED BY <1>4, <2>1, <2>2, <2>3, <2>4 DEF LeaseGoes
<1>5. ASSUME NEW g \in Replica, LeaseFails(g) PROVE LeaseTypeOK'
  <2>1. CASE WriteLease(g, FALSE) BY <2>1, <1>3
  <2>2. CASE LeaseCallFails(g) BY <2>2, <1>2 DEF LeaseCallFails
  <2>3. QED BY <1>5, <2>1, <2>2 DEF LeaseFails
<1>6. ASSUME NEW g \in Replica, FinishWork(g) PROVE LeaseTypeOK'
  BY <1>6, <1>2 DEF FinishWork
<1>7. ASSUME NEW g \in Replica, Restart(g) PROVE LeaseTypeOK'
  BY <1>7 DEF Restart
<1>8. CASE Tick BY <1>8 DEF Tick
<1>9. CASE UNCHANGED leaseVars BY <1>9 DEF leaseVars
<1>10. QED BY <1>4, <1>5, <1>6, <1>7, <1>8, <1>9 DEF LeaseNext

(* Ending a loop keeps the invariant: it only takes a replica out of it.    *)
LEMMA Leaves ==
  ASSUME LeaseInv, LeaseTypeOK', NEW g \in Replica,
         fresh' = fresh \ {g},
         phase' = [phase EXCEPT ![g] = "idle"],
         start' = [start EXCEPT ![g] = 0],
         UNCHANGED <<clock, lease>>
  PROVE  LeaseInv'
<1> USE LeaseAssumption
    DEF LeaseInv, LeaseTypeOK, LeaseObject, Phase, Time, NoTime, Leading, D
<1>1. FreshMayWrite' BY DEF FreshMayWrite, MayHold, Expired
<1>2. StartsInOrder' BY DEF StartsInOrder
<1>3. HolderRenewed' BY DEF HolderRenewed
<1>4. HeldOrLost' BY DEF HeldOrLost
<1>5. FarApart' BY DEF FarApart
<1>6. QED BY <1>1, <1>2, <1>3, <1>4, <1>5

(* A write that takes effect is later, by more than the lease duration,     *)
(* than the renewTime of every loop still at work in another replica.       *)
LEMMA WriterIsLater ==
  ASSUME LeaseInv, NEW b \in Replica, b \in fresh,
         NEW a \in Replica, a # b, Leading(a)
  PROVE  Whole(start[a]) + D < start[b]
<1> USE LeaseAssumption DEF LeaseInv, LeaseTypeOK, LeaseObject, Time, NoTime, Phase, D
<1>1. phase[b] = "write" /\ MayHold(b) BY DEF FreshMayWrite
<1>2. lease.renewed \in Nat /\ start[a] \in Nat /\ start[b] \in Nat
  BY DEF HeldOrLost
<1>3. Whole(start[a]) \in Nat BY <1>2, WholeIsEarlier
<1>4. CASE lease.holder = b
  BY <1>1, <1>4 DEF HeldOrLost
<1>5. CASE lease.holder # b
  <2>1. start[b] - lease.renewed > D BY <1>1, <1>2, <1>5 DEF MayHold, Expired
  <2>2. Whole(start[a]) <= lease.renewed BY <1>2, <1>3 DEF HeldOrLost
  <2>3. QED BY <1>2, <1>3, <2>1, <2>2
<1>6. QED BY <1>4, <1>5

(* Writing the Lease keeps the invariant, answered or not.                  *)
LEMMA Writes ==
  ASSUME LeaseInv, LeaseTypeOK', NEW g \in Replica, NEW answered \in BOOLEAN,
         WriteLease(g, answered)
  PROVE  LeaseInv'
<1> USE LeaseAssumption
    DEF LeaseInv, LeaseTypeOK, LeaseObject, Phase, Time, NoTime, D
<1>1. /\ g \in fresh
      /\ lease' = [holder |-> g, renewed |-> Whole(start[g])]
      /\ fresh' = {}
      /\ clock' = clock
      /\ \A a \in Replica : a # g => phase'[a] = phase[a] /\ start'[a] = start[a]
      /\ phase'[g] # "idle" => start'[g] = start[g]
      /\ start'[g] \in {0, start[g]}
  BY DEF WriteLease, Fenced
<1>2. start[g] \in Nat /\ start[g] <= clock BY DEF StartsInOrder
<1>3. Whole(start[g]) \in Nat /\ Whole(start[g]) <= start[g] BY <1>2, WholeIsEarlier
<1>4. \A a \in Replica : a # g /\ Leading(a) =>
        /\ Whole(start[a]) + D < start[g]
        /\ Whole(start[a]) + D < clock
        /\ Whole(start[a]) <= Whole(start[g])
  <2> SUFFICES ASSUME NEW a \in Replica, a # g, Leading(a)
               PROVE  /\ Whole(start[a]) + D < start[g]
                      /\ Whole(start[a]) + D < clock
                      /\ Whole(start[a]) <= Whole(start[g])
    OBVIOUS
  <2>1. Whole(start[a]) + D < start[g] BY <1>1, WriterIsLater
  <2>2. start[a] \in Nat /\ Whole(start[a]) \in Nat BY WholeIsEarlier
  <2>3. Whole(start[a]) <= Whole(start[g])
    BY <1>2, <2>1, <2>2, WholeIsReached
  <2>4. QED BY <1>2, <2>1, <2>2, <2>3
<1>5. FreshMayWrite' BY <1>1 DEF FreshMayWrite
<1>6. StartsInOrder' BY <1>1, <1>2, <1>3 DEF StartsInOrder
<1>7. HolderRenewed' BY <1>1, <1>3 DEF HolderRenewed
<1>8. HeldOrLost' BY <1>1, <1>3, <1>4 DEF HeldOrLost, Leading
<1>9. FarApart' BY <1>1, <1>4 DEF FarApart, Leading
<1>10. QED BY <1>5, <1>6, <1>7, <1>8, <1>9

(* Every step keeps the inductive invariant.                                *)
LEMMA LeaseStepInv == LeaseInv /\ [LeaseNext]_leaseVars => LeaseInv'
<1> SUFFICES ASSUME LeaseInv, [LeaseNext]_leaseVars
             PROVE  LeaseInv'
  OBVIOUS
<1>1. LeaseTypeOK' BY LeaseTypeStep DEF LeaseInv
<1> USE <1>1
<1>2. ASSUME NEW g \in Replica, EndLoop(g) PROVE LeaseInv'
  BY <1>2, Leaves DEF EndLoop
<1>3. ASSUME NEW g \in Replica, StartLoop(g) PROVE LeaseInv'
  <2> USE <1>3, LeaseAssumption
      DEF LeaseInv, LeaseTypeOK, LeaseObject, Phase, Time, NoTime, Leading, D, StartLoop
  <2>1. FreshMayWrite' BY DEF FreshMayWrite, MayHold, Expired
  <2>2. StartsInOrder' BY DEF StartsInOrder
  <2>3. HolderRenewed' BY DEF HolderRenewed
  <2>4. HeldOrLost' BY DEF HeldOrLost
  <2>5. FarApart' BY DEF FarApart
  <2>6. QED BY <2>1, <2>2, <2>3, <2>4, <2>5
<1>4. ASSUME NEW g \in Replica, ReadLease(g) PROVE LeaseInv'
  <2> USE <1>4, LeaseAssumption
      DEF LeaseInv, LeaseTypeOK, LeaseObject, Phase, Time, NoTime, Leading, D, ReadLease
  <2>1. FreshMayWrite' BY DEF FreshMayWrite, MayHold, Expired
  <2>2. StartsInOrder' BY DEF StartsInOrder
  <2>3. HolderRenewed' BY DEF HolderRenewed
  <2>4. HeldOrLost' BY DEF HeldOrLost
  <2>5. FarApart' BY DEF FarApart
  <2>6. QED BY <2>1, <2>2, <2>3, <2>4, <2>5
<1>5. ASSUME NEW g \in Replica, LeaseGoes(g) PROVE LeaseInv'
  BY <1>5, <1>2, <1>3, <1>4, Writes DEF LeaseGoes, Defer, Conflict
<1>6. ASSUME NEW g \in Replica, LeaseFails(g) PROVE LeaseInv'
  BY <1>6, <1>2, Writes DEF LeaseFails, LeaseCallFails
<1>7. ASSUME NEW g \in Replica, FinishWork(g) PROVE LeaseInv'
  BY <1>7, <1>2 DEF FinishWork
<1>8. ASSUME NEW g \in Replica, Restart(g) PROVE LeaseInv'
  BY <1>8, Leaves DEF Restart
<1>9. CASE Tick
  <2>1. /\ clock' = clock + 1 /\ clock \in Nat
        /\ UNCHANGED <<lease, fresh, phase, start, wake>>
    BY <1>9, LeaseAssumption DEF Tick, LeaseInv, LeaseTypeOK
  <2>2. FreshMayWrite' BY <2>1 DEF LeaseInv, FreshMayWrite, MayHold, Expired
  <2>3. StartsInOrder'
    BY <2>1, LeaseAssumption
       DEF LeaseInv, LeaseTypeOK, LeaseObject, Time, NoTime, StartsInOrder
  <2>4. HolderRenewed' BY <2>1 DEF LeaseInv, HolderRenewed
  <2>5. HeldOrLost'
    <3> SUFFICES ASSUME NEW g \in Replica, Leading(g), lease.holder # g
                 PROVE  Whole(start[g]) + D < clock + 1
      BY <2>1 DEF LeaseInv, HeldOrLost, Leading
    <3>1. start[g] \in Nat /\ Whole(start[g]) \in Nat
      BY WholeIsEarlier DEF LeaseInv, LeaseTypeOK
    <3>2. Whole(start[g]) + D < clock BY DEF LeaseInv, HeldOrLost
    <3>3. QED BY <2>1, <3>1, <3>2, LeaseAssumption DEF D
  <2>6. FarApart' BY <2>1 DEF LeaseInv, FarApart, Leading
  <2>7. QED BY <1>1, <2>2, <2>3, <2>4, <2>5, <2>6 DEF LeaseInv
<1>10. CASE UNCHANGED leaseVars
  BY <1>10
     DEF leaseVars, LeaseInv, FreshMayWrite,
         MayHold, Expired, StartsInOrder, HolderRenewed, HeldOrLost, FarApart, Leading
<1>11. QED BY <1>5, <1>6, <1>7, <1>8, <1>9, <1>10 DEF LeaseNext

(* The inductive invariant holds of the election (acquire_or_renew).        *)
THEOREM LeaseInvariant == LeaseSpec => []LeaseInv
  BY LeaseInitInv, LeaseStepInv, PTL DEF LeaseSpec

(* The variables of the election keep their types.                          *)
THEOREM LeaseTypeCorrect == LeaseSpec => []LeaseTypeOK
<1>1. LeaseInv => LeaseTypeOK BY DEF LeaseInv
<1>2. QED BY <1>1, LeaseInvariant, PTL

(* At most one replica is at work whose renewTime is no older than the      *)
(* lease (acquire_or_renew).                                                *)
LEMMA InvGivesOneFreshLeader == LeaseInv => OneFreshLeader
<1> SUFFICES ASSUME LeaseInv, NEW a \in Replica, NEW b \in Replica, a # b,
                    Leading(a), FreshLoop(a), Leading(b), FreshLoop(b)
             PROVE  FALSE
  BY DEF OneFreshLeader
<1>1. /\ start[a] \in Nat /\ start[b] \in Nat /\ clock \in Nat
      /\ start[a] <= clock /\ start[b] <= clock
  BY LeaseAssumption DEF LeaseInv, LeaseTypeOK, StartsInOrder
<1>2. Whole(start[a]) \in Nat /\ Whole(start[b]) \in Nat
  BY <1>1, WholeIsEarlier
<1>3. Whole(start[a]) + D < start[b] \/ Whole(start[b]) + D < start[a]
  BY DEF LeaseInv, FarApart
<1>4. QED BY <1>1, <1>2, <1>3, LeaseAssumption DEF FreshLoop, D

(* At most one replica is at work whose renewTime, the start of its loop    *)
(* cut to the second, is no older than the lease (acquire_or_renew).        *)
THEOREM OneFreshLeaderHolds == LeaseSpec => []OneFreshLeader
  BY LeaseInvariant, InvGivesOneFreshLeader, PTL

(* A step that takes the Lease from its holder comes after its expiry.      *)
LEMMA StepIsNoTheft ==
  ASSUME LeaseInv, [LeaseNext]_leaseVars, NEW a \in Replica,
         lease.holder = a, lease'.holder # a
  PROVE  clock - lease.renewed > LEASE_DURATION_SECONDS
<1>1. PICK g \in Replica, answered \in BOOLEAN : WriteLease(g, answered)
  BY DEF LeaseNext, leaseVars, LeaseGoes, LeaseFails, StartLoop, ReadLease, Defer,
         Conflict, LeaseCallFails, FinishWork, EndLoop, Restart, Tick
<1>2. g \in fresh /\ lease.holder # g
  BY <1>1 DEF WriteLease, Fenced
<1>3. lease.renewed \in Nat /\ start[g] <= clock /\ start[g] \in Nat /\ clock \in Nat
  BY LeaseAssumption DEF LeaseInv, HolderRenewed, StartsInOrder, LeaseTypeOK
<1>4. start[g] - lease.renewed > LEASE_DURATION_SECONDS
  BY <1>2, <1>3 DEF LeaseInv, FreshMayWrite, MayHold, Expired, NoTime
<1>5. QED BY <1>3, <1>4, LeaseAssumption

(* Nobody takes the Lease from its holder before its stored renewTime has   *)
(* expired.                                                                 *)
THEOREM NoTheftHolds == LeaseSpec => NoTheft
<1>1. LeaseInv /\ [LeaseNext]_leaseVars =>
        [\A a \in Replica :
           (lease.holder = a /\ lease'.holder # a)
             => clock - lease.renewed > LEASE_DURATION_SECONDS]_leaseVars
  BY StepIsNoTheft
<1>2. QED BY <1>1, LeaseInvariant, PTL DEF LeaseSpec, NoTheft

-----------------------------------------------------------------------------
(* The helpers.                                                            *)

(* A history of cordons is finite: it has one entry per node and time.      *)
LEMMA RecordsFinite == IsFiniteSet(CordonRecord)
<1> DEFINE P == Node \X (0..MaxClock)
           f == [p \in P |-> [node |-> p[1], at |-> p[2]]]
<1>1. IsFiniteSet(0..MaxClock) BY FS_Interval, LeaseAssumption
<1>2. IsFiniteSet(P) BY <1>1, FS_Product, PolicyAssumption
<1>3. f \in [P -> CordonRecord] BY DEF CordonRecord
<1>4. ASSUME NEW c \in CordonRecord PROVE \E p \in P : f[p] = c
  <2>1. <<c.node, c.at>> \in P BY DEF CordonRecord
  <2>2. f[<<c.node, c.at>>] = c BY <2>1 DEF CordonRecord
  <2>3. QED BY <2>1, <2>2
<1>5. f \in Surjection(P, CordonRecord) BY <1>3, <1>4 DEF Surjection
<1> HIDE DEF P, f
<1>6. QED BY <1>2, <1>5, FS_Surjection

(* The budget of a loop is a number, whatever the history.                  *)
LEMMA BudgetType ==
  ASSUME NEW r \in SUBSET CordonRecord, NEW t
  PROVE  Budget(r, t) \in Int
<1>1. InWindow(r, t) \in SUBSET CordonRecord BY DEF InWindow
<1>2. Cardinality(InWindow(r, t)) \in Nat
  BY <1>1, RecordsFinite, FS_Subset, FS_CardinalityType
<1>3. QED BY <1>2, PolicyAssumption DEF Budget

(* A decision gives one of the documented reasons.                          *)
LEMMA ReasonType ==
  ASSUME NEW v, NEW n, NEW t, NEW b
  PROVE  Reason(v, n, t, b) \in Reasons
  BY DEF Reason, Reasons

(* The snapshot of a loop that has listed nothing is a view like any other. *)
LEMMA BlankType == Blank \in [Node -> NodeView]
  BY DEF Blank, NodeView, Condition, Time

(* A cordon leaves the other fields of the Node objects as they are.        *)
LEMMA CordonedType ==
  ASSUME nodes \in [Node -> NodeView], NEW n \in Node
  PROVE  Cordoned(n) \in [Node -> NodeView]
  BY DEF Cordoned, NodeView

-----------------------------------------------------------------------------
(* Every step of the loop is a step of the election, or none of its        *)
(* business.                                                               *)

(* The guard starts where the election starts.                              *)
LEMMA InitIsLeaseInit == Init => LeaseInit
  BY DEF Init

(* A step of the guard is a step of the election, or none of it.            *)
LEMMA StepIsLeaseStep == [Next]_vars => [LeaseNext]_leaseVars
<1> SUFFICES ASSUME [Next]_vars PROVE [LeaseNext]_leaseVars
  OBVIOUS
<1>1. ASSUME NEW g \in Replica, Goes(g) PROVE [LeaseNext]_leaseVars
  BY <1>1 DEF Goes, Acquire, ListNodes, Decide, CordonNode, FinishNodes, Publish, LeaseNext
<1>2. ASSUME NEW g \in Replica, Fails(g) PROVE [LeaseNext]_leaseVars
  BY <1>2 DEF Fails, Acquire, CordonNode, CordonFails, AbortLoop, LeaseNext
<1>3. ASSUME NEW g \in Replica, RestartGuard(g) PROVE [LeaseNext]_leaseVars
  BY <1>3 DEF RestartGuard, LeaseNext
<1>4. CASE Environment
  BY <1>4 DEF Environment, FlipCondition, RestampCondition, FlipReady,
              HumanCordonsOrUncordons, Change
<1>5. CASE Time_passes BY <1>5 DEF Time_passes, LeaseNext
<1>6. CASE UNCHANGED vars BY <1>6 DEF vars
<1>7. QED BY <1>1, <1>2, <1>3, <1>4, <1>5, <1>6 DEF Next

(* Every behaviour of the guard is one of the election (loop_once).         *)
THEOREM GuardRunsTheElection == Spec => LeaseSpec
  BY InitIsLeaseInit, StepIsLeaseStep, PTL DEF Spec, LeaseSpec

(* At most one replica of the guard is at work whose renewTime is no older  *)
(* than the lease (loop_once, acquire_or_renew).                            *)
THEOREM GuardOneFreshLeader == Spec => []OneFreshLeader
  BY GuardRunsTheElection, OneFreshLeaderHolds, PTL

(* The Lease is never taken from its holder before it has expired.          *)
THEOREM GuardNoTheft == Spec => NoTheft
  BY GuardRunsTheElection, NoTheftHolds, PTL

-----------------------------------------------------------------------------
(* Types.                                                                  *)

\* The types of what a step of one replica changes besides the election.
GuardTypeOK ==
  /\ nodes \in [Node -> NodeView]
  /\ changes \in Nat
  /\ step \in [Replica -> {"none", "list", "nodes", "exporters"}]
  /\ snap \in [Replica -> [Node -> NodeView]]
  /\ todo \in [Replica -> SUBSET Node]
  /\ decision \in [Replica -> [Node -> Reasons \cup {Undecided}]]
  /\ budget \in [Replica -> Int]
  /\ queue \in [Replica -> SUBSET Node]
  /\ recent \in [Replica -> SUBSET CordonRecord]
  /\ cordoned \in [Replica -> Nat]
  /\ total \in [Replica -> Nat]
  /\ acted \in [Replica -> SUBSET CordonEvent]
  /\ raised \in [Replica -> SUBSET (0..MaxClock)]
  /\ past \in SUBSET CordonEvent

(* The types are those of the election and those of the rest.               *)
LEMMA TypeOKSplit == TypeOK <=> LeaseTypeOK /\ GuardTypeOK
  BY DEF TypeOK, GuardTypeOK

(* A guard that has just started has the types.                             *)
LEMMA InitType == Init => GuardTypeOK
<1> SUFFICES ASSUME Init PROVE GuardTypeOK
  OBVIOUS
<1>1. nodes \in [Node -> NodeView]
  BY DEF Init, NodeView, Condition, Time
<1>2. /\ changes = 0
      /\ step = [g \in Replica |-> "none"]
      /\ snap = [g \in Replica |-> Blank]
      /\ todo = [g \in Replica |-> {}]
      /\ decision = [g \in Replica |-> [n \in Node |-> Undecided]]
      /\ budget = [g \in Replica |-> 0]
      /\ queue = [g \in Replica |-> {}]
      /\ recent = [g \in Replica |-> {}]
      /\ cordoned = [g \in Replica |-> 0]
      /\ total = [g \in Replica |-> 0]
      /\ acted = [g \in Replica |-> {}]
      /\ raised = [g \in Replica |-> {}]
      /\ past = {}
  BY DEF Init
<1>3. QED
  BY <1>1, <1>2, BlankType DEF GuardTypeOK

\* The locals of a loop that is over have their types.
LEMMA ForgottenType ==
  ASSUME GuardTypeOK, NEW g \in Replica, ForgetLoop(g)
  PROVE  /\ step' \in [Replica -> {"none", "list", "nodes", "exporters"}]
         /\ snap' \in [Replica -> [Node -> NodeView]]
         /\ todo' \in [Replica -> SUBSET Node]
         /\ decision' \in [Replica -> [Node -> Reasons \cup {Undecided}]]
         /\ budget' \in [Replica -> Int]
         /\ queue' \in [Replica -> SUBSET Node]
         /\ cordoned' \in [Replica -> Nat]
  BY BlankType DEF GuardTypeOK, ForgetLoop

\* A change of a node by somebody else leaves it a node.
LEMMA ChangeType ==
  ASSUME GuardTypeOK, NEW n \in Node, NEW view \in NodeView, Change(n, view)
  PROVE  GuardTypeOK'
  BY DEF GuardTypeOK, Change, localVars, historyVars

(* Every step of the guard keeps the types.                                 *)
LEMMA GuardTypeStep == TypeOK /\ [Next]_vars => GuardTypeOK'
<1> SUFFICES ASSUME TypeOK, [Next]_vars PROVE GuardTypeOK'
  OBVIOUS
<1> USE DEF historyVars
<1>1. GuardTypeOK /\ LeaseTypeOK BY TypeOKSplit
<1>2. ASSUME NEW g \in Replica, NEW leaseStep, Acquire(g, leaseStep)
      PROVE  GuardTypeOK'
  BY <1>1, <1>2 DEF Acquire, GuardTypeOK
<1>3. ASSUME NEW g \in Replica, ListNodes(g) PROVE GuardTypeOK'
  <2>1. Budget(recent[g], start[g]) \in Int BY <1>1, BudgetType DEF GuardTypeOK
  <2>2. QED BY <1>1, <1>3, <2>1 DEF ListNodes, GuardTypeOK
<1>4. ASSUME NEW g \in Replica, NEW n \in Node, Decide(g, n) PROVE GuardTypeOK'
  <2> DEFINE reason == Reason(snap[g], n, start[g], budget[g])
  <2>1. reason \in Reasons BY ReasonType
  <2>2. BudgetAfter(g, reason) \in Int BY <1>1 DEF BudgetAfter, GuardTypeOK
  <2>3. /\ todo' = [todo EXCEPT ![g] = @ \ {n}]
        /\ decision' = [decision EXCEPT ![g][n] = reason]
        /\ budget' = [budget EXCEPT ![g] = BudgetAfter(g, reason)]
        /\ queue' \in {queue, [queue EXCEPT ![g] = @ \cup {n}]}
        /\ UNCHANGED <<nodes, changes, step, snap, cordoned, recent, total,
                       acted, raised, past>>
    BY <1>4 DEF Decide
  <2> HIDE DEF reason
  <2>4. decision' \in [Replica -> [Node -> Reasons \cup {Undecided}]]
    BY <1>1, <2>1, <2>3 DEF GuardTypeOK
  <2>5. queue' \in [Replica -> SUBSET Node]
    <3>1. queue \in [Replica -> SUBSET Node] BY <1>1 DEF GuardTypeOK
    <3>2. [queue EXCEPT ![g] = @ \cup {n}] \in [Replica -> SUBSET Node] BY <3>1
    <3>3. QED BY <2>3, <3>1, <3>2
  <2>6. todo' \in [Replica -> SUBSET Node] /\ budget' \in [Replica -> Int]
    BY <1>1, <2>2, <2>3 DEF GuardTypeOK
  <2>7. QED BY <1>1, <2>3, <2>4, <2>5, <2>6 DEF GuardTypeOK
<1>5. ASSUME NEW g \in Replica, NEW n \in Node, NEW answered \in BOOLEAN,
             CordonNode(g, n, answered)
      PROVE  GuardTypeOK'
  <2>1. /\ [node |-> n, at |-> start[g]] \in CordonRecord
        /\ [node |-> n, loop |-> start[g], at |-> clock, answered |-> answered]
             \in CordonEvent
    BY <1>1 DEF LeaseTypeOK, CordonRecord, CordonEvent
  <2>2. nodes' \in [Node -> NodeView]
    BY <1>1, <1>5, CordonedType DEF CordonNode, GuardTypeOK
  <2>3. CordonCount(g, answered) \in Nat BY <1>1 DEF CordonCount, GuardTypeOK
  <2>4. QED BY <1>1, <1>5, <2>1, <2>2, <2>3 DEF CordonNode, GuardTypeOK
<1>6. ASSUME NEW g \in Replica, NEW n \in Node, CordonFails(g, n) PROVE GuardTypeOK'
  BY <1>1, <1>6 DEF CordonFails, CordonCount, GuardTypeOK
<1>7. ASSUME NEW g \in Replica, FinishNodes(g) PROVE GuardTypeOK'
  BY <1>1, <1>7 DEF FinishNodes, Kept, GuardTypeOK
<1>8. ASSUME NEW g \in Replica, Publish(g) PROVE GuardTypeOK'
  BY <1>1, <1>8, ForgottenType DEF Publish, GuardTypeOK
<1>9. ASSUME NEW g \in Replica, AbortLoop(g) PROVE GuardTypeOK'
  <2>1. start[g] \in 0..MaxClock BY <1>1 DEF LeaseTypeOK
  <2>2. QED BY <1>1, <1>9, <2>1, ForgottenType DEF AbortLoop, GuardTypeOK
<1>10. ASSUME NEW g \in Replica, RestartGuard(g) PROVE GuardTypeOK'
  BY <1>1, <1>10, ForgottenType DEF RestartGuard, GuardTypeOK
<1>11. CASE Environment
  <2>1. ASSUME NEW n \in Node, NEW c \in Signals, FlipCondition(n, c)
        PROVE  GuardTypeOK'
    <3> DEFINE on == ~Active(nodes[n], c)
               view == [nodes[n] EXCEPT !.cond[c] =
                          [status |-> on, since |-> IF on THEN Whole(clock) ELSE NoTime]]
    <3>1. view \in NodeView
      <4>1. on \in BOOLEAN OBVIOUS
      <4>2. (IF on THEN Whole(clock) ELSE NoTime) \in Time
        BY <1>1, WholeIsEarlier, LeaseAssumption DEF LeaseTypeOK, Time
      <4>3. nodes[n] \in NodeView BY <1>1 DEF GuardTypeOK
      <4> HIDE DEF on
      <4>4. QED BY <4>1, <4>2, <4>3, GuardAssumption DEF NodeView, Condition
    <3>2. Change(n, view) BY <2>1 DEF FlipCondition
    <3>3. QED BY <1>1, <3>1, <3>2, ChangeType
  <2>2. ASSUME NEW n \in Node, NEW c \in Signals, RestampCondition(n, c)
        PROVE  GuardTypeOK'
    <3> DEFINE view == [nodes[n] EXCEPT !.cond[c].since = Whole(clock)]
    <3>1. view \in NodeView
      <4>1. Whole(clock) \in Time
        BY <1>1, WholeIsEarlier, LeaseAssumption DEF LeaseTypeOK, Time
      <4>2. nodes[n] \in NodeView BY <1>1 DEF GuardTypeOK
      <4>3. c \in CondType BY GuardAssumption
      <4>4. QED BY <4>1, <4>2, <4>3 DEF NodeView, Condition
    <3>2. Change(n, view) BY <2>2 DEF RestampCondition
    <3>3. QED BY <1>1, <3>1, <3>2, ChangeType
  <2>3. ASSUME NEW n \in Node, FlipReady(n) PROVE GuardTypeOK'
    <3>1. [nodes[n] EXCEPT !.ready = ~@] \in NodeView
      BY <1>1 DEF GuardTypeOK, NodeView
    <3>2. QED BY <1>1, <2>3, <3>1, ChangeType DEF FlipReady
  <2>4. ASSUME NEW n \in Node, HumanCordonsOrUncordons(n) PROVE GuardTypeOK'
    <3>1. [nodes[n] EXCEPT !.unschedulable = ~@] \in NodeView
      BY <1>1 DEF GuardTypeOK, NodeView
    <3>2. QED BY <1>1, <2>4, <3>1, ChangeType DEF HumanCordonsOrUncordons
  <2>5. QED BY <1>11, <2>1, <2>2, <2>3, <2>4 DEF Environment
<1>12. CASE Time_passes \/ UNCHANGED vars
  BY <1>1, <1>12 DEF Time_passes, vars, guardVars, localVars, GuardTypeOK
<1>13. ASSUME NEW g \in Replica, Goes(g) \/ Fails(g) PROVE GuardTypeOK'
  BY <1>13, <1>2, <1>3, <1>4, <1>5, <1>6, <1>7, <1>8, <1>9 DEF Goes, Fails
<1>14. QED BY <1>10, <1>11, <1>12, <1>13 DEF Next

(* Every variable of the guard keeps its type.                              *)
THEOREM GuardTypeCorrect == Spec => []TypeOK
<1>1. Init => TypeOK
  BY InitType, InitIsLeaseInit, LeaseInitInv, TypeOKSplit DEF LeaseInv
<1>2. TypeOK /\ [Next]_vars => TypeOK'
  <2>1. TypeOK' <=> LeaseTypeOK' /\ GuardTypeOK' BY DEF TypeOK, GuardTypeOK
  <2>2. QED BY <2>1, GuardTypeStep, StepIsLeaseStep, LeaseTypeStep, TypeOKSplit
<1>3. QED BY <1>1, <1>2, PTL DEF Spec
=============================================================================

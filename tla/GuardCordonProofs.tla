------------------------- MODULE GuardCordonProofs -------------------------
(***************************************************************************)
(* Proofs about what holds the cordons of the guard back, the rate limit   *)
(* and the capacity floor, for every fleet, budget, window and floor, and  *)
(* about what the replicas say of themselves.                              *)
(*                                                                         *)
(* Two facts carry the rate limit.  What is held against a loop, the       *)
(* cordons whose answer it lost included, what it has queued and what is   *)
(* left of its budget never exceed the limit together.  And what the prune *)
(* of a loop forgets lies outside the window of every later loop.          *)
(***************************************************************************)
EXTENDS GuardView, GuardProofs

W == RATE_LIMIT_WINDOW_SECONDS

\* A replica at work is somewhere in loop_once, any other is not.
AtWork(g) == step[g] # "none" <=> phase[g] = "work"

\* The locals of loop_once hold something only between their assignment and the
\* end of the loop.
Locals(g) ==
  /\ step[g] # "nodes" => queue[g] = {} /\ todo[g] = {}
  /\ step[g] \in {"none", "list"} => cordoned[g] = 0

\* The cordons of earlier loops were over when this one began, and so were the
\* loops that raised; the nodes that this loop has yet to decide about or to
\* cordon have none in it.
Entries(g) ==
  /\ \A c \in acted[g] :
       /\ c.loop <= c.at /\ c.at <= clock
       /\ phase[g] = "idle" => c.at < wake[g]
       /\ phase[g] # "idle" =>
            c.loop <= start[g] /\ (c.loop < start[g] => c.at < start[g])
       /\ phase[g] \in {"get", "write"} \/ step[g] = "list" => c.loop < start[g]
       /\ step[g] = "nodes" => c.loop < start[g] \/ c.node \notin queue[g] \cup todo[g]
  /\ \A t \in raised[g] :
       /\ t <= clock
       /\ phase[g] = "idle" => t < wake[g]
       /\ phase[g] # "idle" => t < start[g]

\* A loop cordons a node at most once.
Distinct(g) ==
  \A c, d \in acted[g] : c.node = d.node /\ c.loop = d.loop => c = d

\* An answered cordon that is no longer in _recent_cordons began out of the
\* window, of now and of the loop.
Forgotten(g) ==
  \A c \in acted[g] :
    c.answered /\ [node |-> c.node, at |-> c.loop] \notin recent[g] =>
      /\ clock - c.loop > W
      /\ phase[g] # "idle" => start[g] - c.loop > W

\* The cordons held against the loop of g.
HeldNow(g) == CordonLog!Held(acted[g], start[g], start[g])

\* The budget of a loop covers what it has queued.
BudgetHeld(g) ==
  step[g] = "nodes" =>
    /\ Cardinality(HeldNow(g)) + Cardinality(queue[g]) + budget[g]
         <= MAX_CORDONS_PER_WINDOW
    /\ queue[g] # {} => budget[g] >= 0

\* The answered cordons of loops that did not raise, and those of the loop at work.
Tallied(g) == {c \in acted[g] : c.answered /\ c.loop \notin raised[g]}
TalliedNow(g) ==
  {c \in acted[g] : c.answered /\ phase[g] = "work" /\ c.loop = start[g]}

Counted(g) ==
  /\ total[g] + cordoned[g] = Cardinality(Tallied(g))
  /\ cordoned[g] = Cardinality(TalliedNow(g))

Limited(g) == CordonLog!WithinLimit(acted[g])

CordonInv(g) ==
  /\ AtWork(g)
  /\ Locals(g)
  /\ Entries(g)
  /\ Distinct(g)
  /\ Forgotten(g)
  /\ BudgetHeld(g)
  /\ Counted(g)
  /\ Limited(g)

GuardInv == TypeOK /\ LeaseInv /\ \A g \in Replica : CordonInv(g)

-----------------------------------------------------------------------------
(* Windows.                                                                *)

(* The code's history and any part of it are finite sets.                   *)
LEMMA HistoryFinite ==
  ASSUME NEW l \in SUBSET CordonRecord
  PROVE  /\ IsFiniteSet(l)
         /\ Cardinality(l) \in Nat
  BY RecordsFinite, FS_Subset, FS_CardinalityType

(* There are finitely many cordons to speak of within the bound of time.    *)
LEMMA EventsFinite == IsFiniteSet(CordonEvent)
<1> DEFINE T == 0..MaxClock
           P == (Node \X T) \X (T \X BOOLEAN)
           f == [p \in P |-> [node |-> p[1][1], loop |-> p[1][2],
                              at |-> p[2][1], answered |-> p[2][2]]]
<1>1. IsFiniteSet(T) /\ IsFiniteSet(BOOLEAN)
  <2>1. IsFiniteSet(T) BY FS_Interval, LeaseAssumption
  <2>2. IsFiniteSet({TRUE} \cup {FALSE}) BY FS_Singleton, FS_Union
  <2>3. BOOLEAN = {TRUE} \cup {FALSE} OBVIOUS
  <2>4. QED BY <2>1, <2>2, <2>3
<1>2. IsFiniteSet(P)
  <2>1. IsFiniteSet(Node \X T) BY <1>1, FS_Product, PolicyAssumption
  <2>2. IsFiniteSet(T \X BOOLEAN) BY <1>1, FS_Product
  <2> HIDE DEF T
  <2>3. QED BY <2>1, <2>2, FS_Product
<1>3. f \in [P -> CordonEvent]
  <2>1. ASSUME NEW p \in P
        PROVE  p[1][1] \in Node /\ p[1][2] \in T /\ p[2][1] \in T /\ p[2][2] \in BOOLEAN
    OBVIOUS
  <2>2. ASSUME NEW p \in P PROVE f[p] \in CordonEvent BY <2>1 DEF CordonEvent
  <2>3. QED BY <2>2
<1>4. ASSUME NEW c \in CordonEvent PROVE \E p \in P : f[p] = c
  <2> DEFINE p == <<<<c.node, c.loop>>, <<c.at, c.answered>>>>
  <2>1. /\ c.node \in Node /\ c.loop \in T /\ c.at \in T /\ c.answered \in BOOLEAN
        /\ c = [node |-> c.node, loop |-> c.loop, at |-> c.at, answered |-> c.answered]
    BY DEF CordonEvent
  <2>2. p \in P BY <2>1
  <2>3. f[p] = [node |-> c.node, loop |-> c.loop, at |-> c.at, answered |-> c.answered]
    BY <2>2
  <2>4. QED BY <2>1, <2>2, <2>3
<1>5. f \in Surjection(P, CordonEvent) BY <1>3, <1>4 DEF Surjection
<1> HIDE DEF P, f
<1>6. QED BY <1>2, <1>5, FS_Surjection

(* The log and any part of it are finite sets.                              *)
LEMMA LogFinite ==
  ASSUME NEW l \in SUBSET CordonEvent
  PROVE  /\ IsFiniteSet(l)
         /\ Cardinality(l) \in Nat
  BY EventsFinite, FS_Subset, FS_CardinalityType

(* A cordon has a loop and a time, both numbers.                            *)
LEMMA EventNumbers ==
  ASSUME NEW c \in CordonEvent
  PROVE  c.node \in Node /\ c.loop \in Nat /\ c.at \in Nat /\ c.answered \in BOOLEAN
  BY LeaseAssumption DEF CordonEvent

(* CordonBudget counts as this module does.                                 *)
LEMMA SameCardinality ==
  ASSUME NEW l
  PROVE  CordonLog!Cardinality(l) = Cardinality(l)
  BY DEF CordonLog!Cardinality, Cardinality

(* One element more counts at most one more.                                *)
LEMMA OneMore ==
  ASSUME NEW l, IsFiniteSet(l), NEW e
  PROVE  /\ Cardinality(l \cup {e}) \in Nat
         /\ Cardinality(l \cup {e}) <= Cardinality(l) + 1
<1>1. Cardinality(l) \in Nat BY FS_CardinalityType
<1>2. Cardinality(l \cup {e}) = IF e \in l THEN Cardinality(l) ELSE Cardinality(l) + 1
  BY FS_AddElement
<1>3. QED BY <1>1, <1>2

(* A cordon made after the others and while its loop had room leaves every  *)
(* cordon within the limit.                                                 *)
LEMMA RoomKeepsLimit ==
  ASSUME NEW l \in SUBSET CordonEvent, NEW e \in CordonEvent,
         CordonLog!WithinLimit(l),
         \A c \in l \cup {e} : c.loop <= c.at,
         \A c \in l : CordonLog!Follows(e, c),
         Cardinality(CordonLog!Held(l, e.loop, e.loop)) < MAX_CORDONS_PER_WINDOW
  PROVE  CordonLog!WithinLimit(l \cup {e})
<1> DEFINE Room == CordonLog!Held(l, e.loop, e.loop)
           By(m, f) == CordonLog!Held({c \in m : c.at <= f.at}, f.loop, f.at)
<1>1. SUFFICES ASSUME NEW f \in l \cup {e}
               PROVE  Cardinality(By(l \cup {e}, f)) <= MAX_CORDONS_PER_WINDOW
  BY SameCardinality DEF CordonLog!WithinLimit
<1>2. f \in CordonEvent /\ e \in CordonEvent OBVIOUS
<1>3. CASE f.loop = e.loop
  <2>1. By(l \cup {e}, f) \in SUBSET (Room \cup {e})
    <3>1. ASSUME NEW c \in l, c.loop = f.loop \/ (c.answered /\ f.at - c.loop < W)
          PROVE  c \in Room
      <4>1. /\ c.loop \in Nat /\ f.at \in Nat /\ f.loop \in Nat /\ e.loop \in Nat
            /\ f.loop <= f.at
        BY <1>2, EventNumbers
      <4>2. CASE c.loop = f.loop BY <1>3, <4>2 DEF CordonLog!Held
      <4>3. CASE c.answered /\ f.at - c.loop < W
        <5>1. e.loop - c.loop < W BY <1>3, <4>1, <4>3, PolicyAssumption DEF W
        <5>2. QED BY <4>3, <5>1 DEF CordonLog!Held, W
      <4>4. QED BY <3>1, <4>2, <4>3
    <3>2. QED BY <3>1 DEF CordonLog!Held, W
  <2>2. Room \in SUBSET CordonEvent BY DEF CordonLog!Held
  <2>3. IsFiniteSet(Room) /\ Cardinality(Room) \in Nat BY <2>2, LogFinite
  <2>4. Cardinality(Room) < MAX_CORDONS_PER_WINDOW OBVIOUS
  <2> HIDE DEF Room, By
  <2>5. /\ Cardinality(Room \cup {e}) \in Nat
        /\ Cardinality(Room \cup {e}) <= Cardinality(Room) + 1
    BY <2>3, OneMore
  <2>6. IsFiniteSet(Room \cup {e}) BY <2>3, FS_AddElement
  <2>7. /\ Cardinality(By(l \cup {e}, f)) <= Cardinality(Room \cup {e})
        /\ Cardinality(By(l \cup {e}, f)) \in Nat
    BY <2>1, <2>6, FS_Subset, FS_CardinalityType
  <2>8. QED BY <2>3, <2>4, <2>5, <2>7, PolicyAssumption
<1>4. CASE f.loop # e.loop
  <2>1. f \in l BY <1>4
  <2>2. f.at < e.loop /\ e.loop <= e.at
    <3>1. CordonLog!Follows(e, f) BY <2>1
    <3>2. f.loop \in Nat /\ e.loop \in Nat BY <1>2, EventNumbers
    <3>3. QED BY <1>4, <3>1, <3>2 DEF CordonLog!Follows
  <2>3. ~(e.at <= f.at)
    <3>1. f.at \in Nat /\ e.loop \in Nat /\ e.at \in Nat BY <1>2, EventNumbers
    <3>2. QED BY <2>2, <3>1
  <2>4. {c \in l \cup {e} : c.at <= f.at} = {c \in l : c.at <= f.at} BY <2>3
  <2>5. By(l \cup {e}, f) = By(l, f) BY <2>4
  <2>6. Cardinality(By(l, f)) <= MAX_CORDONS_PER_WINDOW
    BY <2>1, SameCardinality DEF CordonLog!WithinLimit
  <2>7. QED BY <2>5, <2>6
<1>5. QED BY <1>3, <1>4

(* Where the prune has forgotten nothing that counts, a loop that has       *)
(* cordoned nothing yet finds in _recent_cordons all that is held against   *)
(* it.                                                                      *)
LEMMA HistorySuffices ==
  ASSUME NEW h \in SUBSET CordonRecord, NEW l \in SUBSET CordonEvent, NEW t \in Nat,
         \A c \in l : c.loop < t,
         \A c, d \in l : c.node = d.node /\ c.loop = d.loop => c = d,
         \A c \in l :
           c.answered /\ [node |-> c.node, at |-> c.loop] \notin h => t - c.loop > W
  PROVE  Cardinality(CordonLog!Held(l, t, t)) <= Cardinality(InWindow(h, t))
<1> DEFINE S == CordonLog!Held(l, t, t)
           T == InWindow(h, t)
           f == [c \in S |-> [node |-> c.node, at |-> c.loop]]
<1>1. ASSUME NEW c \in S
      PROVE  c \in l /\ [node |-> c.node, at |-> c.loop] \in T
  <2>1. c \in l /\ (c.loop # t => c.answered /\ t - c.loop < W)
    BY DEF CordonLog!Held, W
  <2>2. c.loop \in Nat /\ c.loop < t BY <2>1, EventNumbers
  <2>3. c.answered /\ t - c.loop < W BY <2>1, <2>2
  <2>4. [node |-> c.node, at |-> c.loop] \in h
    BY <2>1, <2>2, <2>3, PolicyAssumption DEF W
  <2>5. QED BY <2>1, <2>3, <2>4 DEF InWindow, W
<1>2. f \in [S -> T] BY <1>1
<1>3. ASSUME NEW c \in S, NEW d \in S, f[c] = f[d] PROVE c = d
  <2>1. c.node = d.node /\ c.loop = d.loop
    <3>1. [node |-> c.node, at |-> c.loop] = [node |-> d.node, at |-> d.loop] BY <1>3
    <3>2. QED BY <3>1
  <2>2. c \in l /\ d \in l BY <1>1
  <2>3. QED BY <2>1, <2>2
<1> HIDE DEF S, T, f
<1>4. f \in Injection(S, T)
  <2>1. \A c, d \in S : f[c] = f[d] => c = d BY <1>3
  <2>2. QED BY <1>2, <2>1 DEF Injection, IsInjective
<1>5. T \in SUBSET CordonRecord BY DEF InWindow, T
<1>6. IsFiniteSet(T) BY <1>5, HistoryFinite
<1>7. Cardinality(S) <= Cardinality(T) BY <1>4, <1>6, FS_Injection
<1>8. QED BY <1>7 DEF S, T

-----------------------------------------------------------------------------
(* Frames: what a step leaves alone of a replica.                          *)

\* Nothing of g changes.
Still(g) ==
  /\ phase'[g] = phase[g]
  /\ start'[g] = start[g]
  /\ wake'[g] = wake[g]
  /\ step'[g] = step[g]
  /\ snap'[g] = snap[g]
  /\ todo'[g] = todo[g]
  /\ decision'[g] = decision[g]
  /\ budget'[g] = budget[g]
  /\ queue'[g] = queue[g]
  /\ recent'[g] = recent[g]
  /\ cordoned'[g] = cordoned[g]
  /\ total'[g] = total[g]
  /\ acted'[g] = acted[g]
  /\ raised'[g] = raised[g]

\* Of what the invariant is about, only the election's part of g changes.
LoopStill(g) ==
  /\ todo'[g] = todo[g]
  /\ budget'[g] = budget[g]
  /\ queue'[g] = queue[g]
  /\ recent'[g] = recent[g]
  /\ cordoned'[g] = cordoned[g]
  /\ total'[g] = total[g]
  /\ acted'[g] = acted[g]
  /\ raised'[g] = raised[g]

Acts(g) == Goes(g) \/ Fails(g) \/ RestartGuard(g)

(* A step of a replica changes nothing of any other replica, and takes no   *)
(* time.                                                                    *)
LEMMA OthersStill ==
  ASSUME TypeOK, NEW g \in Replica, Acts(g), NEW b \in Replica, b # g
  PROVE  Still(b) /\ clock' = clock
<1> USE DEF Still, leaseVars, historyVars
<1>0. /\ phase \in [Replica -> Phase]
      /\ start \in [Replica -> 0..MaxClock]
      /\ wake \in [Replica -> Nat]
      /\ step \in [Replica -> {"none", "list", "nodes", "exporters"}]
      /\ snap \in [Replica -> [Node -> NodeView]]
      /\ todo \in [Replica -> SUBSET Node]
      /\ decision \in [Replica -> [Node -> Reasons \cup {Undecided}]]
      /\ budget \in [Replica -> Int]
      /\ queue \in [Replica -> SUBSET Node]
      /\ recent \in [Replica -> SUBSET CordonRecord]
      /\ cordoned \in [Replica -> Nat]
      /\ total \in [Replica -> Nat]
      /\ acted \in [Replica -> SUBSET CordonEvent]
      /\ raised \in [Replica -> SUBSET (0..MaxClock)]
  BY DEF TypeOK, LeaseTypeOK
<1>1. ASSUME Acquire(g, LeaseGoes(g) \/ LeaseFails(g)) PROVE Still(b) /\ clock' = clock
  BY <1>0, <1>1
     DEF Acquire, LeaseGoes, LeaseFails, StartLoop, ReadLease, Defer, WriteLease,
         Conflict, LeaseCallFails, EndLoop
<1>2. ASSUME ListNodes(g) PROVE Still(b) /\ clock' = clock
  BY <1>0, <1>2 DEF ListNodes
<1>3. ASSUME NEW n \in Node, Decide(g, n) PROVE Still(b) /\ clock' = clock
  BY <1>0, <1>3 DEF Decide
<1>4. ASSUME NEW n \in Node, NEW answered \in BOOLEAN, CordonNode(g, n, answered)
      PROVE  Still(b) /\ clock' = clock
  BY <1>0, <1>4 DEF CordonNode
<1>5. ASSUME NEW n \in Node, CordonFails(g, n) PROVE Still(b) /\ clock' = clock
  BY <1>0, <1>5 DEF CordonFails
<1>6. ASSUME FinishNodes(g) PROVE Still(b) /\ clock' = clock
  BY <1>0, <1>6 DEF FinishNodes
<1>7. ASSUME Publish(g) \/ AbortLoop(g) PROVE Still(b) /\ clock' = clock
  BY <1>0, <1>7 DEF Publish, AbortLoop, FinishWork, EndLoop, ForgetLoop
<1>8. ASSUME RestartGuard(g) PROVE Still(b) /\ clock' = clock
  BY <1>0, <1>8 DEF RestartGuard, Restart, ForgetLoop
<1>9. QED
  BY <1>1, <1>2, <1>3, <1>4, <1>5, <1>6, <1>7, <1>8
     DEF Acts, Goes, Fails, Acquire

(* Everybody else leaves the replicas alone, and time only moves on.        *)
LEMMA AllStill ==
  ASSUME TypeOK, Environment \/ Time_passes \/ UNCHANGED vars
  PROVE  /\ \A g \in Replica : Still(g)
         /\ clock' \in {clock, clock + 1}
<1> USE DEF Still, leaseVars, historyVars, localVars
<1>1. CASE Environment
  BY <1>1 DEF Environment, FlipCondition, RestampCondition, FlipReady,
              HumanCordonsOrUncordons, Change
<1>2. CASE Time_passes BY <1>2 DEF Time_passes, Tick, guardVars
<1>3. CASE UNCHANGED vars BY <1>3 DEF vars, guardVars
<1>4. QED BY <1>1, <1>2, <1>3

(* A replica that is left alone keeps its invariant as time moves on.       *)
LEMMA StillKeepsInv ==
  ASSUME GuardInv, NEW g \in Replica, Still(g), clock' \in {clock, clock + 1}
  PROVE  CordonInv(g)'
<1>1. CordonInv(g) BY DEF GuardInv
<1>2. clock \in Nat BY LeaseAssumption DEF GuardInv, TypeOK, LeaseTypeOK
<1>3. acted[g] \in SUBSET CordonEvent /\ raised[g] \in SUBSET Nat
  BY LeaseAssumption DEF GuardInv, TypeOK
<1>4. \A c \in acted[g] : c.at \in Nat /\ c.loop \in Nat BY <1>3, EventNumbers
<1> USE DEF Still, CordonInv
<1>5. AtWork(g)' /\ Locals(g)' /\ Distinct(g)'
  BY <1>1 DEF AtWork, Locals, Distinct
<1>6. Entries(g)' BY <1>1, <1>2, <1>3, <1>4 DEF Entries
<1>7. Forgotten(g)' BY <1>1, <1>2, <1>4, PolicyAssumption DEF Forgotten, W
<1>8. BudgetHeld(g)' BY <1>1 DEF BudgetHeld, HeldNow
<1>9. Counted(g)' BY <1>1 DEF Counted, Tallied, TalliedNow
<1>10. Limited(g)' BY <1>1 DEF Limited
<1>11. QED BY <1>5, <1>6, <1>7, <1>8, <1>9, <1>10

-----------------------------------------------------------------------------
(* The steps of the replica itself.                                        *)

(* What the lemmas below use of the invariant and of the types.             *)
LEMMA ReplicaFacts ==
  ASSUME GuardInv, NEW g \in Replica
  PROVE  /\ CordonInv(g)
         /\ clock \in Nat /\ start[g] \in Nat /\ wake[g] \in Nat
         /\ start[g] <= clock
         /\ phase[g] \in Phase
         /\ recent[g] \in SUBSET CordonRecord
         /\ acted[g] \in SUBSET CordonEvent
         /\ \A c \in acted[g] : c.at \in Nat /\ c.loop \in Nat
         /\ raised[g] \in SUBSET Nat
         /\ queue[g] \in SUBSET Node /\ todo[g] \in SUBSET Node
         /\ IsFiniteSet(queue[g]) /\ Cardinality(queue[g]) \in Nat
         /\ budget[g] \in Int
         /\ cordoned[g] \in Nat /\ total[g] \in Nat
         /\ HeldNow(g) \in SUBSET CordonEvent
         /\ IsFiniteSet(HeldNow(g)) /\ Cardinality(HeldNow(g)) \in Nat
<1>1. TypeOK /\ LeaseInv /\ CordonInv(g) BY DEF GuardInv
<1>2. start[g] <= clock BY <1>1 DEF LeaseInv, StartsInOrder
<1>3. IsFiniteSet(queue[g]) /\ Cardinality(queue[g]) \in Nat
  BY <1>1, PolicyAssumption, FS_Subset, FS_CardinalityType DEF TypeOK
<1>4. acted[g] \in SUBSET CordonEvent /\ recent[g] \in SUBSET CordonRecord
  BY <1>1 DEF TypeOK
<1>5. HeldNow(g) \in SUBSET CordonEvent BY <1>4 DEF HeldNow, CordonLog!Held
<1>6. \A c \in acted[g] : c.at \in Nat /\ c.loop \in Nat BY <1>4, EventNumbers
<1>7. /\ clock \in Nat /\ start[g] \in Nat /\ wake[g] \in Nat
      /\ phase[g] \in Phase /\ raised[g] \in SUBSET Nat
      /\ queue[g] \in SUBSET Node /\ todo[g] \in SUBSET Node
      /\ budget[g] \in Int /\ cordoned[g] \in Nat /\ total[g] \in Nat
  BY <1>1, LeaseAssumption DEF TypeOK, LeaseTypeOK
<1>8. QED BY <1>1, <1>2, <1>3, <1>4, <1>5, <1>6, <1>7, LogFinite

(* A step of the election: only the entries must be seen to fit the new     *)
(* start or wake.                                                           *)
LEMMA ElectionKeepsInv ==
  ASSUME GuardInv, NEW g \in Replica, Acquire(g, LeaseGoes(g) \/ LeaseFails(g))
  PROVE  CordonInv(g)'
<1> USE DEF CordonInv
<1>1. /\ CordonInv(g) /\ start[g] <= clock
      /\ clock \in Nat /\ start[g] \in Nat /\ wake[g] \in Nat
      /\ phase[g] \in Phase
      /\ raised[g] \in SUBSET Nat
      /\ \A c \in acted[g] : c.at \in Nat /\ c.loop \in Nat
  BY ReplicaFacts
<1>2. LoopStill(g) /\ clock' = clock
  BY DEF Acquire, LoopStill, historyVars, LeaseGoes, LeaseFails, StartLoop, ReadLease,
         Defer, WriteLease, Conflict, LeaseCallFails, EndLoop
<1>3. phase[g] # "work" /\ step[g] = "none"
  BY <1>1 DEF Acquire, LeaseGoes, LeaseFails, StartLoop, ReadLease, Defer, WriteLease,
              Conflict, LeaseCallFails, AtWork
<1>4. step'[g] = IF phase'[g] = "work" THEN "list" ELSE "none"
  BY <1>3 DEF Acquire, GuardInv, TypeOK
<1>5. \/ phase[g] = "idle" /\ phase'[g] = "get" /\ wake[g] <= clock /\ start'[g] = clock
      \/ /\ phase[g] \in {"get", "write"} /\ phase'[g] \in {"write", "work"}
         /\ start'[g] = start[g]
      \/ phase'[g] = "idle" /\ wake'[g] > clock
  BY <1>1, LeaseAssumption
     DEF Acquire, GuardInv, TypeOK, LeaseTypeOK, LeaseGoes, LeaseFails, StartLoop,
         ReadLease, Defer, WriteLease, Conflict, LeaseCallFails, EndLoop, NextWake
<1>6. AtWork(g)' BY <1>4 DEF AtWork
<1>7. Locals(g)' BY <1>1, <1>2, <1>3 DEF Locals, LoopStill
<1>8. wake'[g] \in Int /\ start'[g] \in Nat
  BY <1>1, LeaseAssumption
     DEF Acquire, GuardInv, TypeOK, LeaseTypeOK, LeaseGoes, LeaseFails, StartLoop,
         ReadLease, Defer, WriteLease, Conflict, LeaseCallFails, EndLoop, NextWake
<1>9. ASSUME NEW t \in Nat, t <= clock,
             phase[g] = "idle" => t < wake[g],
             phase[g] \in {"get", "write"} => t < start[g]
      PROVE  /\ phase'[g] = "idle" => t < wake'[g]
             /\ phase'[g] # "idle" => t < start'[g]
  BY <1>1, <1>5, <1>8, <1>9
<1>10. Entries(g)'
  <2>1. acted'[g] = acted[g] /\ raised'[g] = raised[g] /\ clock' = clock
    BY <1>2 DEF LoopStill
  <2>2. step'[g] # "nodes" /\ (step'[g] = "list" => phase'[g] # "idle") BY <1>4
  <2>3. ASSUME NEW c \in acted[g]
        PROVE  /\ c.loop <= c.at /\ c.at <= clock
               /\ phase'[g] = "idle" => c.at < wake'[g]
               /\ phase'[g] # "idle" => c.loop < start'[g] /\ c.at < start'[g]
    <3>1. /\ c.loop <= c.at /\ c.at <= clock
          /\ phase[g] = "idle" => c.at < wake[g]
          /\ phase[g] \in {"get", "write"} => c.loop < start[g] /\ c.at < start[g]
      BY <1>1 DEF Entries
    <3>2. c.loop \in Nat /\ c.at \in Nat BY <1>1
    <3>3. /\ phase'[g] = "idle" => c.at < wake'[g]
          /\ phase'[g] # "idle" => c.at < start'[g]
      BY <1>9, <3>1, <3>2
    <3>4. QED BY <1>8, <3>1, <3>2, <3>3
  <2>4. ASSUME NEW t \in raised[g]
        PROVE  /\ t <= clock
               /\ phase'[g] = "idle" => t < wake'[g]
               /\ phase'[g] # "idle" => t < start'[g]
    <3>1. /\ t \in Nat /\ t <= clock
          /\ phase[g] = "idle" => t < wake[g]
          /\ phase[g] \in {"get", "write"} => t < start[g]
      BY <1>1 DEF Entries
    <3>2. QED BY <1>9, <3>1
  <2>5. ASSUME NEW c \in acted[g], phase'[g] # "idle" PROVE c.loop <= start'[g]
    BY <1>1, <1>8, <2>3, <2>5
  <2>6. phase'[g] \in {"get", "write"} \/ step'[g] = "list" => phase'[g] # "idle"
    BY <2>2
  <2>7. QED BY <2>1, <2>2, <2>3, <2>4, <2>5, <2>6 DEF Entries
<1>11. Forgotten(g)'
  BY <1>1, <1>2, <1>5, PolicyAssumption DEF Forgotten, LoopStill, W
<1>12. BudgetHeld(g)' BY <1>4 DEF BudgetHeld
<1>13. Counted(g)'
  <2>1. Tallied(g)' = Tallied(g) BY <1>2 DEF Tallied, LoopStill
  <2>2. TalliedNow(g) = {} BY <1>3 DEF TalliedNow
  <2>3. TalliedNow(g)' = {}
    <3>1. ASSUME NEW c \in acted[g], phase'[g] = "work", c.loop = start'[g]
          PROVE  FALSE
      <4>1. phase[g] \in {"get", "write"} /\ start'[g] = start[g] BY <1>5, <3>1
      <4>2. c.loop < start[g] BY <1>1, <4>1 DEF Entries
      <4>3. QED BY <1>1, <3>1, <4>1, <4>2
    <3>2. acted'[g] = acted[g] BY <1>2 DEF LoopStill
    <3>3. QED BY <3>1, <3>2 DEF TalliedNow
  <2>4. QED BY <1>1, <1>2, <2>1, <2>2, <2>3 DEF Counted, LoopStill
<1>14. Distinct(g)' /\ Limited(g)' BY <1>1, <1>2 DEF Distinct, Limited, LoopStill
<1>15. QED BY <1>6, <1>7, <1>10, <1>11, <1>12, <1>13, <1>14

(* Listing the nodes gives the loop what the window has left.               *)
LEMMA ListKeepsInv ==
  ASSUME GuardInv, NEW g \in Replica, ListNodes(g)
  PROVE  CordonInv(g)'
<1> USE DEF CordonInv
<1>1. /\ CordonInv(g)
      /\ start[g] \in Nat
      /\ recent[g] \in SUBSET CordonRecord
      /\ acted[g] \in SUBSET CordonEvent
      /\ Cardinality(HeldNow(g)) \in Nat
  BY ReplicaFacts
<1>2. /\ step[g] = "list" /\ step'[g] = "nodes"
      /\ queue' = queue /\ recent' = recent /\ acted' = acted /\ raised' = raised
      /\ cordoned' = cordoned /\ total' = total
      /\ budget'[g] = Budget(recent[g], start[g])
      /\ UNCHANGED leaseVars
  BY DEF ListNodes, historyVars, GuardInv, TypeOK
<1> USE DEF leaseVars
<1>3. queue[g] = {} BY <1>1, <1>2 DEF Locals
<1>4. AtWork(g)' /\ Locals(g)' /\ Distinct(g)' BY <1>1, <1>2 DEF AtWork, Locals, Distinct
<1>5. Entries(g)' BY <1>1, <1>2 DEF Entries
<1>6. Forgotten(g)' BY <1>1, <1>2 DEF Forgotten
<1>7. BudgetHeld(g)'
  <2>1. phase[g] = "work" BY <1>1, <1>2 DEF AtWork
  <2>2. \A c \in acted[g] : c.loop < start[g] BY <1>1, <1>2 DEF Entries
  <2>3. \A c \in acted[g] :
          c.answered /\ [node |-> c.node, at |-> c.loop] \notin recent[g]
            => start[g] - c.loop > W
    BY <1>1, <2>1 DEF Forgotten
  <2>4. Cardinality(HeldNow(g)) <= Cardinality(InWindow(recent[g], start[g]))
    BY <1>1, <2>2, <2>3, HistorySuffices DEF Distinct, HeldNow
  <2>5. Cardinality(InWindow(recent[g], start[g])) \in Nat
    <3>1. InWindow(recent[g], start[g]) \in SUBSET CordonRecord BY <1>1 DEF InWindow
    <3>2. QED BY <3>1, HistoryFinite
  <2>6. HeldNow(g)' = HeldNow(g) BY <1>2 DEF HeldNow
  <2>7. Cardinality(queue'[g]) = 0 /\ queue'[g] = {} BY <1>2, <1>3, FS_EmptySet
  <2>8. QED
    BY <1>1, <1>2, <2>4, <2>5, <2>6, <2>7, PolicyAssumption DEF BudgetHeld, Budget
<1>8. Counted(g)' /\ Limited(g)'
  BY <1>1, <1>2 DEF Counted, Tallied, TalliedNow, Limited
<1>9. QED BY <1>4, <1>5, <1>6, <1>7, <1>8

(* A decision to cordon turns budget into queue.                            *)
LEMMA DecideKeepsInv ==
  ASSUME GuardInv, NEW g \in Replica, NEW n \in Node, Decide(g, n)
  PROVE  CordonInv(g)'
<1> USE DEF CordonInv
<1>1. /\ CordonInv(g)
      /\ IsFiniteSet(queue[g]) /\ Cardinality(queue[g]) \in Nat /\ budget[g] \in Int
      /\ Cardinality(HeldNow(g)) \in Nat
  BY ReplicaFacts
<1>2. /\ step[g] = "nodes" /\ n \in todo[g]
      /\ step' = step /\ recent' = recent /\ acted' = acted /\ raised' = raised
      /\ cordoned' = cordoned /\ total' = total
      /\ todo'[g] = todo[g] \ {n}
      /\ UNCHANGED leaseVars
  BY DEF Decide, historyVars, GuardInv, TypeOK
<1> USE DEF leaseVars
<1>3. \/ queue'[g] = queue[g] /\ budget'[g] = budget[g]
      \/ /\ budget[g] > 0 /\ budget'[g] = budget[g] - 1
         /\ queue'[g] = queue[g] \cup {n}
  <2> DEFINE reason == Reason(snap[g], n, start[g], budget[g])
  <2>1. reason = "cordon" => budget[g] > 0 BY <1>1 DEF Reason
  <2>2. /\ budget' = [budget EXCEPT ![g] = BudgetAfter(g, reason)]
        /\ queue' = IF reason = "cordon" THEN [queue EXCEPT ![g] = @ \cup {n}] ELSE queue
    BY DEF Decide
  <2> HIDE DEF reason
  <2>3. QED BY <2>1, <2>2 DEF BudgetAfter, GuardInv, TypeOK
<1>4. AtWork(g)' /\ Locals(g)' /\ Distinct(g)' BY <1>1, <1>2 DEF AtWork, Locals, Distinct
<1>5. Entries(g)' BY <1>1, <1>2, <1>3 DEF Entries
<1>6. Forgotten(g)' BY <1>1, <1>2 DEF Forgotten
<1>7. BudgetHeld(g)'
  <2>0. HeldNow(g)' = HeldNow(g) BY <1>2 DEF HeldNow
  <2>1. CASE queue'[g] = queue[g] /\ budget'[g] = budget[g]
    BY <1>1, <1>2, <2>0, <2>1 DEF BudgetHeld
  <2>2. CASE /\ budget[g] > 0 /\ budget'[g] = budget[g] - 1
             /\ queue'[g] = queue[g] \cup {n}
    <3>1. /\ Cardinality(queue'[g]) \in Nat
          /\ Cardinality(queue'[g]) <= Cardinality(queue[g]) + 1
      BY <1>1, <2>2, OneMore
    <3>2. QED BY <1>1, <1>2, <2>0, <2>2, <3>1, PolicyAssumption DEF BudgetHeld
  <2>3. QED BY <1>3, <2>1, <2>2
<1>8. Counted(g)' /\ Limited(g)'
  BY <1>1, <1>2 DEF Counted, Tallied, TalliedNow, Limited
<1>9. QED BY <1>4, <1>5, <1>6, <1>7, <1>8

(* A PATCH that takes effect is a new entry, after the others, and its loop *)
(* has room.                                                                *)
LEMMA CordonHasRoom ==
  ASSUME GuardInv, NEW g \in Replica, NEW n \in Node, Upcoming(g, n),
         NEW answered \in BOOLEAN,
         NEW e, e = [node |-> n, loop |-> start[g], at |-> clock, answered |-> answered]
  PROVE  /\ e \in CordonEvent
         /\ e.node = n /\ e.loop = start[g] /\ e.at = clock /\ e.answered = answered
         /\ e.loop <= e.at
         /\ \A c \in acted[g] : c.node # n \/ c.loop # start[g]
         /\ \A c \in acted[g] : CordonLog!Follows(e, c)
         /\ Cardinality(CordonLog!Held(acted[g], e.loop, e.loop)) < MAX_CORDONS_PER_WINDOW
<1> USE DEF CordonInv
<1>1. /\ CordonInv(g)
      /\ start[g] \in Nat /\ clock \in Nat /\ start[g] <= clock
      /\ \A c \in acted[g] : c.at \in Nat /\ c.loop \in Nat
      /\ IsFiniteSet(queue[g]) /\ Cardinality(queue[g]) \in Nat /\ budget[g] \in Int
      /\ Cardinality(HeldNow(g)) \in Nat
  BY ReplicaFacts
<1>2. step[g] = "nodes" /\ n \in queue[g] BY DEF Upcoming
<1>3. phase[g] = "work" BY <1>1, <1>2 DEF AtWork
<1>4. e \in CordonEvent BY DEF GuardInv, TypeOK, LeaseTypeOK, CordonEvent
<1>5. e.node = n /\ e.loop = start[g] /\ e.at = clock /\ e.answered = answered
  OBVIOUS
<1>6. \A c \in acted[g] : c.node # n \/ c.loop # start[g]
  BY <1>1, <1>2 DEF Entries
<1>7. \A c \in acted[g] : CordonLog!Follows(e, c)
  BY <1>1, <1>3, <1>5 DEF Entries, CordonLog!Follows
<1>8. Cardinality(queue[g]) > 0 BY <1>1, <1>2, FS_EmptySet
<1>9. Cardinality(HeldNow(g)) < MAX_CORDONS_PER_WINDOW
  BY <1>1, <1>2, <1>8, PolicyAssumption DEF BudgetHeld
<1>10. HeldNow(g) = CordonLog!Held(acted[g], e.loop, e.loop) BY <1>5 DEF HeldNow
<1>11. QED BY <1>1, <1>4, <1>5, <1>6, <1>7, <1>9, <1>10

(* A PATCH that fails without effect turns queue into nothing.              *)
LEMMA FailureKeepsInv ==
  ASSUME GuardInv, NEW g \in Replica, NEW n \in Node, CordonFails(g, n)
  PROVE  CordonInv(g)'
<1> USE DEF CordonInv, leaseVars
<1>1. /\ CordonInv(g)
      /\ IsFiniteSet(queue[g]) /\ Cardinality(queue[g]) \in Nat /\ budget[g] \in Int
      /\ Cardinality(HeldNow(g)) \in Nat
  BY ReplicaFacts
<1>2. /\ step[g] = "nodes" /\ n \in queue[g]
      /\ queue'[g] = queue[g] \ {n}
      /\ cordoned'[g] = cordoned[g]
      /\ UNCHANGED <<leaseVars, step, todo, budget, total, recent, acted, raised>>
  BY DEF CordonFails, CordonCount, Upcoming, historyVars, GuardInv, TypeOK
<1>3. Cardinality(queue'[g]) = Cardinality(queue[g]) - 1
  BY <1>1, <1>2, FS_RemoveElement
<1>4. AtWork(g)' /\ Locals(g)' /\ Distinct(g)' BY <1>1, <1>2 DEF AtWork, Locals, Distinct
<1>5. Entries(g)' BY <1>1, <1>2 DEF Entries
<1>6. Forgotten(g)' BY <1>1, <1>2 DEF Forgotten
<1>7. BudgetHeld(g)'
  <2>1. HeldNow(g)' = HeldNow(g) BY <1>2 DEF HeldNow
  <2>2. QED BY <1>1, <1>2, <1>3, <2>1, PolicyAssumption DEF BudgetHeld
<1>8. Counted(g)' /\ Limited(g)'
  BY <1>1, <1>2 DEF Counted, Tallied, TalliedNow, Limited
<1>9. QED BY <1>4, <1>5, <1>6, <1>7, <1>8

(* A PATCH that takes effect, answered or not, turns queue into log.        *)
LEMMA CordonKeepsInv ==
  ASSUME GuardInv, NEW g \in Replica, NEW n \in Node, NEW answered \in BOOLEAN,
         CordonNode(g, n, answered)
  PROVE  CordonInv(g)'
<1> USE DEF CordonInv, leaseVars
<1> DEFINE e == [node |-> n, loop |-> start[g], at |-> clock, answered |-> answered]
<1>1. /\ CordonInv(g)
      /\ clock \in Nat /\ start[g] \in Nat /\ start[g] <= clock
      /\ acted[g] \in SUBSET CordonEvent
      /\ \A c \in acted[g] : c.at \in Nat /\ c.loop \in Nat
      /\ raised[g] \in SUBSET Nat
      /\ IsFiniteSet(queue[g]) /\ Cardinality(queue[g]) \in Nat /\ budget[g] \in Int
      /\ cordoned[g] \in Nat /\ total[g] \in Nat
      /\ IsFiniteSet(HeldNow(g)) /\ Cardinality(HeldNow(g)) \in Nat
  BY ReplicaFacts
<1>2. /\ Upcoming(g, n)
      /\ step[g] = "nodes" /\ n \in queue[g] /\ todo[g] = {}
      /\ queue'[g] = queue[g] \ {n}
      /\ recent'[g] = IF answered THEN recent[g] \cup {[node |-> n, at |-> start[g]]}
                                  ELSE recent[g]
      /\ acted'[g] = acted[g] \cup {e}
      /\ cordoned'[g] = IF answered THEN cordoned[g] + 1 ELSE cordoned[g]
      /\ UNCHANGED <<leaseVars, step, todo, budget, total, raised>>
  BY DEF CordonNode, CordonCount, Upcoming, GuardInv, TypeOK
<1>3. /\ e \in CordonEvent
      /\ e.node = n /\ e.loop = start[g] /\ e.at = clock /\ e.answered = answered
      /\ e.loop <= e.at
      /\ \A c \in acted[g] : c.node # n \/ c.loop # start[g]
      /\ \A c \in acted[g] : CordonLog!Follows(e, c)
      /\ Cardinality(CordonLog!Held(acted[g], e.loop, e.loop)) < MAX_CORDONS_PER_WINDOW
  BY <1>2, CordonHasRoom
<1> HIDE DEF e
<1>4. phase[g] = "work" BY <1>1, <1>2 DEF AtWork
<1>5. AtWork(g)' /\ Locals(g)' BY <1>1, <1>2 DEF AtWork, Locals
<1>6. Entries(g)'
  <2>1. ASSUME NEW c \in acted'[g]
        PROVE  /\ c.loop <= c.at /\ c.at <= clock
               /\ c.loop <= start[g] /\ (c.loop < start[g] => c.at < start[g])
               /\ c.loop < start[g] \/ c.node \notin queue'[g]
    <3>1. CASE c = e BY <1>1, <1>2, <1>3, <3>1
    <3>2. CASE c \in acted[g] BY <1>1, <1>2, <1>4, <3>2 DEF Entries
    <3>3. QED BY <1>2, <3>1, <3>2
  <2>2. ASSUME NEW t \in raised[g] PROVE t <= clock /\ t < start[g]
    BY <1>1, <1>4 DEF Entries
  <2>3. /\ clock' = clock /\ phase'[g] = "work" /\ start'[g] = start[g]
        /\ todo'[g] = {} /\ step'[g] = "nodes" /\ raised'[g] = raised[g]
    BY <1>2, <1>4
  <2>4. QED BY <2>1, <2>2, <2>3 DEF Entries
<1>7. Distinct(g)' BY <1>1, <1>2, <1>3 DEF Distinct
<1>8. Forgotten(g)'
  <2>1. ASSUME NEW c \in acted'[g], c.answered,
               [node |-> c.node, at |-> c.loop] \notin recent'[g]
        PROVE  clock - c.loop > W /\ start[g] - c.loop > W
    <3>1. c # e BY <1>2, <1>3, <2>1
    <3>2. c \in acted[g] /\ [node |-> c.node, at |-> c.loop] \notin recent[g]
      BY <1>2, <2>1, <3>1
    <3>3. QED BY <1>1, <1>4, <2>1, <3>2 DEF Forgotten
  <2>2. clock' = clock /\ start'[g] = start[g] BY <1>2
  <2>3. QED BY <2>1, <2>2 DEF Forgotten
<1>9. BudgetHeld(g)'
  <2>1. Cardinality(queue'[g]) = Cardinality(queue[g]) - 1
    <3>1. Cardinality(queue[g] \ {n}) = Cardinality(queue[g]) - 1
      BY <1>1, <1>2, FS_RemoveElement
    <3>2. QED BY <1>2, <3>1
  <2>2. HeldNow(g)' \in SUBSET (HeldNow(g) \cup {e})
    <3>1. HeldNow(g)' = CordonLog!Held(acted[g] \cup {e}, start[g], start[g])
      BY <1>2 DEF HeldNow
    <3>2. QED BY <3>1 DEF HeldNow, CordonLog!Held
  <2>3. /\ IsFiniteSet(HeldNow(g) \cup {e})
        /\ Cardinality(HeldNow(g) \cup {e}) \in Nat
        /\ Cardinality(HeldNow(g) \cup {e}) <= Cardinality(HeldNow(g)) + 1
    BY <1>1, OneMore, FS_AddElement
  <2>4. /\ Cardinality(HeldNow(g)') <= Cardinality(HeldNow(g) \cup {e})
        /\ Cardinality(HeldNow(g)') \in Nat
    BY <2>2, <2>3, FS_Subset, FS_CardinalityType
  <2>5. Cardinality(HeldNow(g)') <= Cardinality(HeldNow(g)) + 1
    BY <1>1, <2>3, <2>4
  <2>6. Cardinality(HeldNow(g))' = Cardinality(HeldNow(g)') OBVIOUS
  <2>7. budget'[g] = budget[g] /\ step'[g] = "nodes" BY <1>2
  <2>8. QED
    BY <1>1, <1>2, <2>1, <2>4, <2>5, <2>6, <2>7, PolicyAssumption DEF BudgetHeld
<1>10. Counted(g)'
  <2>1. start[g] \notin raised[g] BY <1>1, <1>4 DEF Entries
  <2>2. e \notin acted[g] BY <1>3
  <2>3. CASE answered
    <3>1. Tallied(g)' = Tallied(g) \cup {e} /\ TalliedNow(g)' = TalliedNow(g) \cup {e}
      BY <1>2, <1>3, <1>4, <2>1, <2>3 DEF Tallied, TalliedNow
    <3>2. e \notin Tallied(g) /\ e \notin TalliedNow(g)
      BY <2>2 DEF Tallied, TalliedNow
    <3>3. /\ Tallied(g) \in SUBSET CordonEvent /\ TalliedNow(g) \in SUBSET CordonEvent
      BY <1>1 DEF Tallied, TalliedNow
    <3>4. /\ Cardinality(Tallied(g) \cup {e}) = Cardinality(Tallied(g)) + 1
          /\ Cardinality(TalliedNow(g) \cup {e}) = Cardinality(TalliedNow(g)) + 1
          /\ Cardinality(Tallied(g)) \in Nat /\ Cardinality(TalliedNow(g)) \in Nat
      BY <3>2, <3>3, LogFinite, FS_AddElement
    <3>5. cordoned'[g] = cordoned[g] + 1 /\ total'[g] = total[g] BY <1>2, <2>3
    <3>6. QED BY <1>1, <3>1, <3>4, <3>5 DEF Counted
  <2>4. CASE ~answered
    <3>1. Tallied(g)' = Tallied(g) /\ TalliedNow(g)' = TalliedNow(g)
      BY <1>2, <1>3, <2>4 DEF Tallied, TalliedNow
    <3>2. cordoned'[g] = cordoned[g] /\ total'[g] = total[g] BY <1>2, <2>4
    <3>3. QED BY <1>1, <3>1, <3>2 DEF Counted
  <2>5. QED BY <2>3, <2>4
<1>11. Limited(g)'
  <2>1. \A c \in acted[g] \cup {e} : c.loop <= c.at BY <1>1, <1>3 DEF Entries
  <2>2. CordonLog!WithinLimit(acted[g] \cup {e})
    BY <1>1, <1>3, <2>1, RoomKeepsLimit DEF Limited
  <2>3. QED BY <1>2, <2>2 DEF Limited
<1>12. QED BY <1>5, <1>6, <1>7, <1>8, <1>9, <1>10, <1>11

(* The prune forgets only what is out of the window for good.               *)
LEMMA FinishKeepsInv ==
  ASSUME GuardInv, NEW g \in Replica, FinishNodes(g)
  PROVE  CordonInv(g)'
<1> USE DEF CordonInv, leaseVars
<1>1. /\ CordonInv(g)
      /\ clock \in Nat /\ start[g] \in Nat /\ start[g] <= clock
      /\ \A c \in acted[g] : c.at \in Nat /\ c.loop \in Nat
  BY ReplicaFacts
<1>2. /\ step[g] = "nodes" /\ step'[g] = "exporters"
      /\ queue[g] = {} /\ todo[g] = {}
      /\ queue' = queue /\ todo' = todo /\ acted' = acted /\ raised' = raised
      /\ cordoned' = cordoned /\ total' = total
      /\ recent'[g] = Kept(g)
      /\ UNCHANGED leaseVars
  BY DEF FinishNodes, historyVars, GuardInv, TypeOK
<1>3. AtWork(g)' /\ Locals(g)' /\ Distinct(g)' BY <1>1, <1>2 DEF AtWork, Locals, Distinct
<1>4. Entries(g)' BY <1>1, <1>2 DEF Entries
<1>5. Forgotten(g)'
  <2>1. ASSUME NEW c \in acted[g], c.answered,
               [node |-> c.node, at |-> c.loop] \notin Kept(g)
        PROVE  clock - c.loop > W /\ (phase[g] # "idle" => start[g] - c.loop > W)
    <3>1. CASE [node |-> c.node, at |-> c.loop] \in recent[g]
      <4>1. ~(c.loop >= start[g] - W) BY <2>1, <3>1 DEF Kept, W
      <4>2. QED BY <1>1, <4>1, PolicyAssumption DEF W
    <3>2. CASE [node |-> c.node, at |-> c.loop] \notin recent[g]
      BY <1>1, <2>1, <3>2 DEF Forgotten
    <3>3. QED BY <3>1, <3>2
  <2>2. QED BY <1>2, <2>1 DEF Forgotten
<1>6. BudgetHeld(g)' BY <1>2 DEF BudgetHeld
<1>7. Counted(g)' /\ Limited(g)'
  BY <1>1, <1>2 DEF Counted, Tallied, TalliedNow, Limited
<1>8. QED BY <1>3, <1>4, <1>5, <1>6, <1>7

(* The end of a loop, published or not, leaves its history for the next.    *)
LEMMA EndKeepsInv ==
  ASSUME GuardInv, NEW g \in Replica, Publish(g) \/ AbortLoop(g)
  PROVE  CordonInv(g)'
<1> USE DEF CordonInv, leaseVars
<1>1. /\ CordonInv(g)
      /\ clock \in Nat /\ start[g] \in Nat /\ start[g] <= clock
      /\ acted[g] \in SUBSET CordonEvent
      /\ \A c \in acted[g] : c.at \in Nat /\ c.loop \in Nat
      /\ raised[g] \in SUBSET Nat
      /\ cordoned[g] \in Nat /\ total[g] \in Nat
  BY ReplicaFacts
<1>2. /\ step'[g] = "none" /\ phase'[g] = "idle" /\ phase[g] = "work"
      /\ queue'[g] = {} /\ todo'[g] = {} /\ cordoned'[g] = 0
      /\ recent' = recent /\ acted' = acted /\ clock' = clock
      /\ \/ total'[g] = total[g] + cordoned[g] /\ raised'[g] = raised[g]
         \/ cordoned[g] = 0 /\ total'[g] = total[g] /\ raised'[g] = raised[g]
         \/ total'[g] = total[g] /\ raised'[g] = raised[g] \cup {start[g]}
  <2>1. /\ step'[g] = "none" /\ phase'[g] = "idle" /\ phase[g] = "work"
        /\ queue'[g] = {} /\ todo'[g] = {} /\ cordoned'[g] = 0
        /\ recent' = recent /\ acted' = acted /\ clock' = clock
    BY DEF Publish, AbortLoop, FinishWork, EndLoop, ForgetLoop, historyVars,
           GuardInv, TypeOK, LeaseTypeOK
  <2>2. CASE Publish(g)
    <3>1. total'[g] = total[g] + cordoned[g] /\ raised'[g] = raised[g]
      BY <2>2 DEF Publish, historyVars, GuardInv, TypeOK
    <3>2. QED BY <2>1, <3>1
  <2>3. CASE AbortLoop(g)
    <3>1. /\ total' = total /\ raised \in [Replica -> SUBSET (0..MaxClock)]
          /\ raised' = IF cordoned[g] > 0 THEN [raised EXCEPT ![g] = @ \cup {start[g]}]
                       ELSE raised
      BY <2>3 DEF AbortLoop, GuardInv, TypeOK
    <3>2. cordoned[g] = 0 \/ cordoned[g] > 0 BY <1>1
    <3>3. CASE cordoned[g] = 0 BY <2>1, <3>1, <3>3
    <3>4. CASE cordoned[g] > 0
      <4>1. raised'[g] = raised[g] \cup {start[g]} BY <3>1, <3>4
      <4>2. QED BY <2>1, <3>1, <4>1
    <3>5. QED BY <3>2, <3>3, <3>4
  <2>4. QED BY <2>2, <2>3
<1>3. wake'[g] \in Nat /\ wake'[g] > clock
  BY <1>1, LeaseAssumption
     DEF Publish, AbortLoop, FinishWork, EndLoop, NextWake, GuardInv, TypeOK, LeaseTypeOK
<1>4. AtWork(g)' /\ Locals(g)' /\ Distinct(g)' BY <1>1, <1>2 DEF AtWork, Locals, Distinct
<1>5. Entries(g)'
  <2>1. ASSUME NEW c \in acted[g] PROVE c.loop <= c.at /\ c.at <= clock /\ c.at < wake'[g]
    BY <1>1, <1>3 DEF Entries
  <2>2. ASSUME NEW t \in raised'[g] PROVE t <= clock /\ t < wake'[g]
    <3>1. t \in Nat /\ t <= clock BY <1>1, <1>2 DEF Entries
    <3>2. QED BY <1>1, <1>3, <3>1
  <2>3. QED BY <1>2, <2>1, <2>2 DEF Entries
<1>6. Forgotten(g)' BY <1>1, <1>2 DEF Forgotten
<1>7. BudgetHeld(g)' BY <1>2 DEF BudgetHeld
<1>8. Limited(g)' BY <1>1, <1>2 DEF Limited
<1>9. Counted(g)'
  <2>1. /\ Tallied(g) \in SUBSET CordonEvent /\ TalliedNow(g) \in SUBSET Tallied(g)
    BY <1>1, <1>2 DEF Tallied, TalliedNow, Entries
  <2>2. IsFiniteSet(Tallied(g)) /\ Cardinality(Tallied(g)) \in Nat BY <2>1, LogFinite
  <2>3. /\ total[g] + cordoned[g] = Cardinality(Tallied(g))
        /\ cordoned[g] = Cardinality(TalliedNow(g))
    BY <1>1 DEF Counted
  <2>4. TalliedNow(g)' = {} BY <1>2 DEF TalliedNow
  <2>5. CASE total'[g] = total[g] + cordoned[g] /\ raised'[g] = raised[g]
    <3>1. Tallied(g)' = Tallied(g) BY <1>2, <2>5 DEF Tallied
    <3>2. QED BY <1>1, <1>2, <2>2, <2>3, <2>4, <2>5, <3>1, FS_EmptySet DEF Counted
  <2>6. CASE cordoned[g] = 0 /\ total'[g] = total[g] /\ raised'[g] = raised[g]
    <3>1. Tallied(g)' = Tallied(g) BY <1>2, <2>6 DEF Tallied
    <3>2. QED BY <1>1, <1>2, <2>2, <2>3, <2>4, <2>6, <3>1, FS_EmptySet DEF Counted
  <2>7. CASE total'[g] = total[g] /\ raised'[g] = raised[g] \cup {start[g]}
    <3>1. Tallied(g)' = Tallied(g) \ TalliedNow(g)
      BY <1>2, <2>7 DEF Tallied, TalliedNow
    <3>2. Tallied(g) \cap TalliedNow(g) = TalliedNow(g) BY <2>1
    <3>3. Cardinality(Tallied(g) \ TalliedNow(g))
            = Cardinality(Tallied(g)) - Cardinality(TalliedNow(g))
      BY <2>2, <3>2, FS_Difference
    <3>4. QED
      BY <1>1, <1>2, <2>2, <2>3, <2>4, <2>7, <3>1, <3>3, FS_EmptySet DEF Counted
  <2>8. QED BY <1>2, <2>5, <2>6, <2>7
<1>10. QED BY <1>4, <1>5, <1>6, <1>7, <1>8, <1>9

(* A new process has no history.                                            *)
LEMMA RestartKeepsInv ==
  ASSUME GuardInv, NEW g \in Replica, RestartGuard(g)
  PROVE  CordonInv(g)'
<1> USE DEF CordonInv
<1>1. /\ step'[g] = "none" /\ phase'[g] = "idle"
      /\ queue'[g] = {} /\ todo'[g] = {} /\ cordoned'[g] = 0 /\ total'[g] = 0
      /\ recent'[g] = {} /\ acted'[g] = {} /\ raised'[g] = {}
  BY DEF RestartGuard, Restart, ForgetLoop, GuardInv, TypeOK, LeaseTypeOK
<1>2. /\ AtWork(g)' /\ Locals(g)' /\ Entries(g)' /\ Distinct(g)' /\ Forgotten(g)'
      /\ BudgetHeld(g)'
  BY <1>1 DEF AtWork, Locals, Entries, Distinct, Forgotten, BudgetHeld
<1>3. Counted(g)'
  <2>1. Tallied(g)' = {} /\ TalliedNow(g)' = {} BY <1>1 DEF Tallied, TalliedNow
  <2>2. QED BY <1>1, <2>1, FS_EmptySet DEF Counted
<1>4. Limited(g)' BY <1>1 DEF Limited, CordonLog!WithinLimit
<1>5. QED BY <1>2, <1>3, <1>4

-----------------------------------------------------------------------------
(* The invariant, and what it gives.                                       *)

(* A guard that has just started has cordoned nothing.                      *)
LEMMA GuardInitInv == Init => GuardInv
<1> SUFFICES ASSUME Init PROVE GuardInv
  OBVIOUS
<1>1. TypeOK /\ LeaseInv
  BY InitType, InitIsLeaseInit, LeaseInitInv, TypeOKSplit DEF LeaseInv
<1>2. ASSUME NEW g \in Replica PROVE CordonInv(g)
  <2>1. /\ step[g] = "none" /\ phase[g] = "idle"
        /\ queue[g] = {} /\ todo[g] = {} /\ cordoned[g] = 0 /\ total[g] = 0
        /\ recent[g] = {} /\ acted[g] = {} /\ raised[g] = {}
    BY DEF Init, LeaseInit
  <2>2. AtWork(g) /\ Locals(g) /\ Entries(g) /\ Distinct(g) /\ Forgotten(g) /\ BudgetHeld(g)
    BY <2>1 DEF AtWork, Locals, Entries, Distinct, Forgotten, BudgetHeld
  <2>3. Counted(g)
    <3>1. Tallied(g) = {} /\ TalliedNow(g) = {} BY <2>1 DEF Tallied, TalliedNow
    <3>2. QED BY <2>1, <3>1, FS_EmptySet DEF Counted
  <2>4. Limited(g) BY <2>1 DEF Limited, CordonLog!WithinLimit
  <2>5. QED BY <2>2, <2>3, <2>4 DEF CordonInv
<1>3. QED BY <1>1, <1>2 DEF GuardInv

(* Whatever a replica does keeps its own invariant.                         *)
LEMMA ActingKeepsInv ==
  ASSUME GuardInv, NEW g \in Replica, Acts(g)
  PROVE  CordonInv(g)'
<1>1. CASE Acquire(g, LeaseGoes(g)) \/ Acquire(g, LeaseFails(g))
  <2>1. Acquire(g, LeaseGoes(g) \/ LeaseFails(g)) BY <1>1 DEF Acquire
  <2>2. QED BY <2>1, ElectionKeepsInv
<1>2. CASE ListNodes(g) BY <1>2, ListKeepsInv
<1>3. CASE \E n \in Node : Decide(g, n) BY <1>3, DecideKeepsInv
<1>4. CASE \E n \in Node : CordonNode(g, n, TRUE) \/ CordonNode(g, n, FALSE)
                          \/ CordonFails(g, n)
  BY <1>4, CordonKeepsInv, FailureKeepsInv
<1>5. CASE FinishNodes(g) BY <1>5, FinishKeepsInv
<1>6. CASE Publish(g) \/ AbortLoop(g) BY <1>6, EndKeepsInv
<1>7. CASE RestartGuard(g) BY <1>7, RestartKeepsInv
<1>8. QED
  BY <1>1, <1>2, <1>3, <1>4, <1>5, <1>6, <1>7 DEF Acts, Goes, Fails

(* Every step of the guard keeps the inductive invariant.                   *)
LEMMA GuardStepInv == GuardInv /\ [Next]_vars => GuardInv'
<1> SUFFICES ASSUME GuardInv, [Next]_vars PROVE GuardInv'
  OBVIOUS
<1>1. TypeOK /\ LeaseInv BY DEF GuardInv
<1>2. TypeOK'
  <2>1. TypeOK' <=> LeaseTypeOK' /\ GuardTypeOK' BY DEF TypeOK, GuardTypeOK
  <2>2. QED
    BY <1>1, <2>1, GuardTypeStep, StepIsLeaseStep, LeaseTypeStep, TypeOKSplit
<1>3. LeaseInv' BY <1>1, StepIsLeaseStep, LeaseStepInv
<1>4. ASSUME NEW g \in Replica PROVE CordonInv(g)'
  <2>1. CASE \E b \in Replica : Acts(b)
    <3>1. PICK b \in Replica : Acts(b) BY <2>1
    <3>2. CASE b = g BY <3>1, <3>2, ActingKeepsInv
    <3>3. CASE b # g
      <4>1. Still(g) /\ clock' = clock BY <1>1, <3>1, <3>3, OthersStill
      <4>2. QED BY <4>1, StillKeepsInv
    <3>4. QED BY <3>2, <3>3
  <2>2. CASE Environment \/ Time_passes \/ UNCHANGED vars
    <3>1. Still(g) /\ clock' \in {clock, clock + 1} BY <1>1, <2>2, AllStill
    <3>2. QED BY <3>1, StillKeepsInv
  <2>3. QED BY <2>1, <2>2 DEF Next, Acts
<1>5. QED BY <1>2, <1>3, <1>4 DEF GuardInv

(* The inductive invariant holds of the guard (main.py, policy.py).         *)
THEOREM GuardInvariant == Spec => []GuardInv
  BY GuardInitInv, GuardStepInv, PTL DEF Spec

(* When a PATCH takes effect, what is held against its loop, it included,   *)
(* is no more than the limit (policy.decide, _recent_cordons): the cordons  *)
(* of the loop, answered or not, and the answered ones of loops that began  *)
(* less than a window ago.                                                  *)
THEOREM RateLimitHolds == Spec => []RateLimit
<1>1. GuardInv => RateLimit BY DEF GuardInv, CordonInv, Limited, RateLimit
<1>2. QED BY <1>1, GuardInvariant, PTL

(* cordons_total counts the answered cordons of the loops that got through, *)
(* no more and no fewer (metrics.py, loop_once).                            *)
THEOREM CountExactHolds == Spec => []CountExact
<1>1. GuardInv => CountExact
  BY DEF GuardInv, CordonInv, Counted, Tallied, CountExact
<1>2. QED BY <1>1, GuardInvariant, PTL

(* The loop implements the abstract log of cordons: a PATCH that takes      *)
(* effect adds an entry that its loop has room for, a restart starts a new  *)
(* log, and nothing else touches it.                                        *)
LEMMA StepIsCordonStep == GuardInv /\ [Next]_vars => [CordonLog!Next]_acted
<1> SUFFICES ASSUME GuardInv, [Next]_vars PROVE [CordonLog!Next]_acted
  OBVIOUS
<1> USE DEF historyVars
<1>1. ASSUME NEW g \in Replica, NEW n \in Node, NEW answered \in BOOLEAN,
             CordonNode(g, n, answered)
      PROVE  [CordonLog!Next]_acted
  <2> DEFINE e == [node |-> n, loop |-> start[g], at |-> clock, answered |-> answered]
  <2>1. Upcoming(g, n) /\ acted' = [acted EXCEPT ![g] = @ \cup {e}]
    BY <1>1 DEF CordonNode
  <2>2. /\ e \in CordonEvent /\ e.node = n /\ e.loop = start[g]
        /\ e.loop <= e.at
        /\ \A c \in acted[g] : c.node # n \/ c.loop # start[g]
        /\ \A c \in acted[g] : CordonLog!Follows(e, c)
        /\ Cardinality(CordonLog!Held(acted[g], e.loop, e.loop)) < MAX_CORDONS_PER_WINDOW
    BY <2>1, CordonHasRoom
  <2> HIDE DEF e
  <2>3. e \in CordonLog!Entry /\ e \notin acted[g]
    BY <2>2 DEF CordonLog!Entry, CordonEvent
  <2>4. CordonLog!Cordon(g, e)
    BY <2>1, <2>2, <2>3, SameCardinality DEF CordonLog!Cordon
  <2>5. QED BY <2>3, <2>4 DEF CordonLog!Next
<1>2. ASSUME NEW g \in Replica, RestartGuard(g) PROVE [CordonLog!Next]_acted
  BY <1>2 DEF RestartGuard, CordonLog!Next, CordonLog!NewProcess
<1>3. ASSUME NEW g \in Replica, Goes(g) \/ Fails(g) PROVE [CordonLog!Next]_acted
  BY <1>1, <1>3
     DEF Goes, Fails, Acquire, ListNodes, Decide, CordonFails, FinishNodes, Publish,
         AbortLoop
<1>4. CASE Environment
  BY <1>4 DEF Environment, FlipCondition, RestampCondition, FlipReady,
              HumanCordonsOrUncordons, Change
<1>5. CASE Time_passes \/ UNCHANGED vars
  BY <1>5 DEF Time_passes, vars, guardVars
<1>6. QED BY <1>2, <1>3, <1>4, <1>5 DEF Next

(* The loop of list, decide, PATCH and prune (_run_nodes) implements the    *)
(* abstract log of cordons, whose only step is one within the limit.        *)
THEOREM GuardImplementsCordonBudget == Spec => ImplementsCordonBudget
<1>1. Init => CordonLog!Init BY DEF Init, CordonLog!Init
<1>2. QED
  BY <1>1, StepIsCordonStep, GuardInvariant, PTL
     DEF Spec, ImplementsCordonBudget, CordonLog!Spec

-----------------------------------------------------------------------------
(* The capacity floor.                                                     *)
(*                                                                         *)
(* `decide` weighs each node alone, against the snapshot and without the   *)
(* nodes it has already chosen.  That is enough for all of them together   *)
(* because a node worth cordoning is not counted as serving in the first   *)
(* place: taking it away takes nothing away.                               *)

\* What a loop has chosen it chose from its snapshot, and what it has queued it
\* chose.
Choices(g) ==
  /\ step[g] \in {"none", "list"} => Chosen(g) = {}
  /\ Chosen(g) \cap todo[g] = {}
  /\ queue[g] \subseteq Chosen(g)
  /\ \A n \in Chosen(g) :
       CordonWorthy(snap[g][n]) /\ ~BelowFloor(snap[g], n)

FloorInv == GuardInv /\ \A g \in Replica : Choices(g)

(* Whoever was judged a cordon is worth one and above the floor.            *)
LEMMA CordonReason ==
  ASSUME NEW v, NEW n, NEW t, NEW b, Reason(v, n, t, b) = "cordon"
  PROVE  CordonWorthy(v[n]) /\ ~BelowFloor(v, n)
  BY DEF Reason

(* Leaving out nodes that do not serve leaves the capacity as it is.        *)
LEMMA NotServingNotCounted ==
  ASSUME NEW v, NEW S, NEW T, \A n \in (S \ T) \cup (T \ S) : ~Serving(v[n])
  PROVE  HealthyCapacity(v, S) = HealthyCapacity(v, T)
<1>1. {n \in Node \ S : Serving(v[n])} = {n \in Node \ T : Serving(v[n])}
  OBVIOUS
<1>2. QED BY <1>1 DEF HealthyCapacity

(* A count of nodes is a number.                                            *)
LEMMA CapacityType ==
  ASSUME NEW v, NEW S
  PROVE  HealthyCapacity(v, S) \in Nat
<1>1. {n \in Node \ S : Serving(v[n])} \in SUBSET Node OBVIOUS
<1>2. QED BY <1>1, PolicyAssumption, FS_Subset, FS_CardinalityType DEF HealthyCapacity

(* The nodes chosen together leave the floor standing in the snapshot.      *)
LEMMA ChoicesTogether ==
  ASSUME NEW g \in Replica, Choices(g), Chosen(g) # {}
  PROVE  HealthyCapacity(snap[g], Chosen(g)) >= MIN_HEALTHY_NODES
<1>1. PICK n \in Chosen(g) : TRUE OBVIOUS
<1>2. ~BelowFloor(snap[g], n) BY <1>1 DEF Choices
<1>3. HealthyCapacity(snap[g], {n}) >= MIN_HEALTHY_NODES
  BY <1>2, CapacityType, PolicyAssumption DEF BelowFloor
<1>4. \A m \in (Chosen(g) \ {n}) \cup ({n} \ Chosen(g)) : ~Serving(snap[g][m])
  BY <1>1 DEF Choices, Serving
<1>5. HealthyCapacity(snap[g], Chosen(g)) = HealthyCapacity(snap[g], {n})
  BY <1>4, NotServingNotCounted
<1>6. QED BY <1>3, <1>5

-----------------------------------------------------------------------------

(* One decision: a node is chosen by the judgement of the snapshot.         *)
LEMMA DecideKeepsChoices ==
  ASSUME TypeOK, NEW g \in Replica, Choices(g), NEW n \in Node, Decide(g, n)
  PROVE  Choices(g)'
<1> DEFINE reason == Reason(snap[g], n, start[g], budget[g])
<1>1. /\ step[g] = "nodes" /\ step' = step /\ snap' = snap /\ n \in todo[g]
      /\ todo' = [todo EXCEPT ![g] = @ \ {n}]
      /\ decision' = [decision EXCEPT ![g][n] = reason]
      /\ queue' = IF reason = "cordon" THEN [queue EXCEPT ![g] = @ \cup {n}] ELSE queue
  BY DEF Decide
<1>2. reason = "cordon" => CordonWorthy(snap[g][n]) /\ ~BelowFloor(snap[g], n)
  BY CordonReason
<1> HIDE DEF reason
<1>3. decision \in [Replica -> [Node -> Reasons \cup {Undecided}]] BY DEF TypeOK
<1>4. /\ decision'[g][n] = reason
      /\ \A m \in Node : m # n => decision'[g][m] = decision[g][m]
  BY <1>1, <1>3
<1>5. todo'[g] = todo[g] \ {n} BY <1>1 DEF TypeOK
<1>6. queue'[g] = IF reason = "cordon" THEN queue[g] \cup {n} ELSE queue[g]
  BY <1>1 DEF TypeOK
<1>7. n \notin Chosen(g) BY <1>1 DEF Choices
<1>8. Chosen(g)' = IF reason = "cordon" THEN Chosen(g) \cup {n} ELSE Chosen(g)
  BY <1>4, <1>7 DEF Chosen
<1>9. Chosen(g)' \cap todo'[g] = {} BY <1>5, <1>8 DEF Choices
<1>10. queue'[g] \subseteq Chosen(g)' BY <1>6, <1>8 DEF Choices
<1>11. ASSUME NEW m \in Chosen(g)'
       PROVE  CordonWorthy(snap[g][m]) /\ ~BelowFloor(snap[g], m)
  BY <1>2, <1>8 DEF Choices
<1>12. ASSUME NEW m \in Node
       PROVE  /\ CordonWorthy(snap[g][m])' <=> CordonWorthy(snap[g][m])
              /\ BelowFloor(snap[g], m)' <=> BelowFloor(snap[g], m)
  BY <1>1 DEF CordonWorthy, Triggers, Active, BelowFloor, HealthyCapacity, Serving
<1>13. Chosen(g)' \subseteq Node BY DEF Chosen
<1>14. QED BY <1>1, <1>9, <1>10, <1>11, <1>12, <1>13 DEF Choices

(* The judgements stand as long as the snapshot and the decisions do.       *)
LEMMA ChoicesStand ==
  ASSUME NEW g \in Replica, Choices(g),
         snap'[g] = snap[g], decision'[g] = decision[g],
         queue'[g] \subseteq queue[g], todo'[g] \subseteq todo[g],
         step'[g] \in {"none", "list"} => step[g] \in {"none", "list"}
  PROVE  Choices(g)'
<1>1. Chosen(g)' = Chosen(g) BY DEF Chosen
<1>2. ASSUME NEW m \in Node
      PROVE  /\ CordonWorthy(snap[g][m])' <=> CordonWorthy(snap[g][m])
             /\ BelowFloor(snap[g], m)' <=> BelowFloor(snap[g], m)
  BY DEF CordonWorthy, Triggers, Active, BelowFloor, HealthyCapacity, Serving
<1>3. Chosen(g) \subseteq Node BY DEF Chosen
<1>4. QED BY <1>1, <1>2, <1>3 DEF Choices

(* A loop that is over has chosen nothing.                                  *)
LEMMA ForgottenChoices ==
  ASSUME TypeOK, NEW g \in Replica, ForgetLoop(g)
  PROVE  Choices(g)'
<1>1. /\ queue'[g] = {} /\ todo'[g] = {}
      /\ \A n \in Node : decision'[g][n] = Undecided
  BY DEF ForgetLoop, TypeOK
<1>2. Chosen(g)' = {} BY <1>1 DEF Chosen, Undecided
<1>3. QED BY <1>1, <1>2 DEF Choices

(* A replica's own steps keep its choices justified.                        *)
LEMMA ActingKeepsChoices ==
  ASSUME GuardInv, NEW g \in Replica, Choices(g), Acts(g)
  PROVE  Choices(g)'
<1> USE DEF historyVars
<1>1. TypeOK /\ AtWork(g) /\ Locals(g) BY DEF GuardInv, CordonInv
<1>2. CASE Acquire(g, LeaseGoes(g)) \/ Acquire(g, LeaseFails(g))
  <2>1. step[g] = "none"
    BY <1>1, <1>2
       DEF Acquire, LeaseGoes, LeaseFails, StartLoop, ReadLease, Defer, WriteLease,
           Conflict, LeaseCallFails, AtWork
  <2>2. snap' = snap /\ decision' = decision /\ queue' = queue /\ todo' = todo
    BY <1>2 DEF Acquire
  <2>3. QED BY <2>1, <2>2, ChoicesStand
<1>3. CASE ListNodes(g)
  <2>1. /\ step[g] = "list" /\ step'[g] = "nodes"
        /\ queue' = queue /\ decision' = decision
    BY <1>1, <1>3 DEF ListNodes, TypeOK
  <2>2. Chosen(g)' = {} /\ queue'[g] = {}
    BY <1>1, <2>1 DEF Choices, Chosen, Locals
  <2>3. QED BY <2>1, <2>2 DEF Choices
<1>4. CASE \E n \in Node : Decide(g, n) BY <1>1, <1>4, DecideKeepsChoices
<1>5. ASSUME NEW n \in Node, NEW answered \in BOOLEAN,
             CordonNode(g, n, answered) \/ CordonFails(g, n)
      PROVE  Choices(g)'
  <2>1. /\ snap' = snap /\ decision' = decision /\ todo' = todo /\ step' = step
        /\ queue' = [queue EXCEPT ![g] = @ \ {n}]
    BY <1>5 DEF CordonNode, CordonFails
  <2>2. queue'[g] \subseteq queue[g] BY <1>1, <2>1 DEF TypeOK
  <2>3. QED BY <2>1, <2>2, ChoicesStand
<1>6. CASE FinishNodes(g)
  <2>1. /\ snap' = snap /\ decision' = decision /\ todo' = todo /\ queue' = queue
        /\ step'[g] = "exporters"
    BY <1>1, <1>6 DEF FinishNodes, TypeOK
  <2>2. QED BY <2>1, ChoicesStand
<1>7. CASE Publish(g) \/ AbortLoop(g) \/ RestartGuard(g)
  BY <1>1, <1>7, ForgottenChoices DEF Publish, AbortLoop, RestartGuard
<1>8. QED
  BY <1>2, <1>3, <1>4, <1>5, <1>6, <1>7 DEF Acts, Goes, Fails

(* Every step of the guard keeps the choices justified.                     *)
LEMMA FloorStepInv == FloorInv /\ [Next]_vars => FloorInv'
<1> SUFFICES ASSUME FloorInv, [Next]_vars PROVE FloorInv'
  OBVIOUS
<1>1. GuardInv /\ TypeOK BY DEF FloorInv, GuardInv
<1>2. GuardInv' BY <1>1, GuardStepInv
<1>3. ASSUME NEW g \in Replica PROVE Choices(g)'
  <2>1. Choices(g) BY DEF FloorInv
  <2>2. CASE Acts(g) BY <1>1, <2>1, <2>2, ActingKeepsChoices
  <2>3. CASE Still(g) BY <2>1, <2>3, ChoicesStand DEF Still
  <2>4. CASE \E b \in Replica : b # g /\ Acts(b) BY <1>1, <2>3, <2>4, OthersStill
  <2>5. CASE Environment \/ Time_passes \/ UNCHANGED vars
    BY <1>1, <2>3, <2>5, AllStill
  <2>6. QED BY <2>2, <2>4, <2>5 DEF Next, Acts
<1>4. QED BY <1>2, <1>3 DEF FloorInv

(* In every loop, what decide has chosen is justified by its snapshot.      *)
THEOREM FloorInvariant == Spec => []FloorInv
<1>1. Init => FloorInv
  <2> SUFFICES ASSUME Init, NEW g \in Replica PROVE Choices(g)
    BY GuardInitInv DEF FloorInv
  <2>1. /\ queue[g] = {} /\ todo[g] = {}
        /\ \A n \in Node : decision[g][n] = Undecided
    BY DEF Init
  <2>2. Chosen(g) = {} BY <2>1 DEF Chosen, Undecided
  <2>3. QED BY <2>1, <2>2 DEF Choices
<1>2. QED BY <1>1, FloorStepInv, PTL DEF Spec

(* The nodes one run of `decide` chooses leave, all together, the floor     *)
(* standing in the snapshot they were chosen from.                          *)
THEOREM FloorTogetherHolds == Spec => []FloorTogether
<1>1. FloorInv => FloorTogether BY ChoicesTogether DEF FloorInv, FloorTogether
<1>2. QED BY <1>1, FloorInvariant, PTL

(* A node that has only been cordoned since the listing was not counted as  *)
(* serving then, if it was chosen: the capacity of a fleet nobody else has  *)
(* touched is that of the snapshot without the chosen nodes.                *)
LEMMA UndisturbedCapacity ==
  ASSUME TypeOK, NEW g \in Replica, Choices(g), Undisturbed(g)
  PROVE  HealthyCapacity(nodes, {}) = HealthyCapacity(snap[g], Chosen(g))
<1>1. ASSUME NEW n \in Node
      PROVE  Serving(nodes[n]) <=> Serving(snap[g][n]) /\ n \notin Chosen(g)
  <2>1. snap[g][n] \in NodeView BY DEF TypeOK
  <2>2. n \in Chosen(g) => CordonWorthy(snap[g][n]) BY DEF Choices
  <2>3. CASE nodes[n] = snap[g][n] BY <2>2, <2>3 DEF Serving
  <2>4. CASE n \in Chosen(g) /\ nodes[n] = [snap[g][n] EXCEPT !.unschedulable = TRUE]
    <3>1. nodes[n].unschedulable BY <2>1, <2>4 DEF NodeView
    <3>2. QED BY <2>2, <2>4, <3>1 DEF Serving
  <2>5. QED BY <2>3, <2>4 DEF Undisturbed
<1>2. {n \in Node \ {} : Serving(nodes[n])} = {n \in Node \ Chosen(g) : Serving(snap[g][n])}
  BY <1>1
<1>3. QED BY <1>2 DEF HealthyCapacity

(* A cordon of a chosen node leaves the capacity as it is.                  *)
LEMMA CordonCostsNothing ==
  ASSUME TypeOK, NEW g \in Replica, Choices(g), Undisturbed(g),
         NEW n \in Chosen(g), nodes' = Cordoned(n)
  PROVE  HealthyCapacity(nodes', {}) = HealthyCapacity(nodes, {})
<1>1. n \in Node /\ CordonWorthy(snap[g][n]) BY DEF Choices, Chosen
<1>2. nodes[n] \in NodeView /\ snap[g][n] \in NodeView BY <1>1 DEF TypeOK
<1>3. nodes[n].cond = snap[g][n].cond BY <1>1, <1>2 DEF Undisturbed, NodeView
<1>4. ~Serving(nodes[n])
  BY <1>1, <1>3 DEF Serving, CordonWorthy, Triggers, Active
<1>5. nodes'[n].unschedulable BY <1>1, <1>2 DEF Cordoned, TypeOK, NodeView
<1>6. \A m \in Node : m # n => nodes'[m] = nodes[m] BY DEF Cordoned, TypeOK
<1>7. \A m \in Node : Serving(nodes'[m]) <=> Serving(nodes[m])
  BY <1>4, <1>5, <1>6 DEF Serving
<1>8. {m \in Node \ {} : Serving(nodes'[m])} = {m \in Node \ {} : Serving(nodes[m])}
  BY <1>7
<1>9. QED BY <1>8 DEF HealthyCapacity

(* A replica touches no node but by cordoning one it has chosen.            *)
LEMMA ActsOnChosen ==
  ASSUME NEW g \in Replica, Choices(g), Acts(g)
  PROVE  nodes' = nodes \/ \E n \in Chosen(g) : nodes' = Cordoned(n)
<1>1. ASSUME NEW n \in Node, NEW answered \in BOOLEAN, CordonNode(g, n, answered)
      PROVE  \E m \in Chosen(g) : nodes' = Cordoned(m)
  BY <1>1 DEF CordonNode, Upcoming, Choices
<1>2. QED
  BY <1>1
     DEF Acts, Goes, Fails, Acquire, ListNodes, Decide, CordonFails, FinishNodes,
         Publish, AbortLoop, RestartGuard

(* A cordon in a fleet that only this loop has touched since its listing    *)
(* leaves the floor standing in the cluster.                                *)
LEMMA StepKeepsFloor ==
  ASSUME FloorInv, [Next]_vars, NEW g \in Replica, NEW n \in Node,
         n \in queue[g] \ queue'[g], Undisturbed(g)
  PROVE  HealthyCapacity(nodes', {}) >= MIN_HEALTHY_NODES
<1>1. TypeOK /\ Choices(g) BY DEF FloorInv, GuardInv
<1>2. Chosen(g) # {} BY <1>1 DEF Choices
<1>3. HealthyCapacity(nodes, {}) >= MIN_HEALTHY_NODES
  BY <1>1, <1>2, ChoicesTogether, UndisturbedCapacity
<1>4. queue'[g] # queue[g] OBVIOUS
<1>5. Acts(g)
  <2>1. ~Still(g) BY <1>4 DEF Still
  <2>2. QED BY <1>1, <2>1, OthersStill, AllStill DEF Next, Acts
<1>6. CASE nodes' = nodes BY <1>3, <1>6
<1>7. ASSUME NEW m \in Chosen(g), nodes' = Cordoned(m)
      PROVE  HealthyCapacity(nodes', {}) >= MIN_HEALTHY_NODES
  <2>1. HealthyCapacity(nodes', {}) = HealthyCapacity(nodes, {})
    BY <1>1, <1>7, CordonCostsNothing
  <2>2. QED BY <1>3, <2>1
<1>8. QED BY <1>1, <1>5, <1>6, <1>7, ActsOnChosen

(* A cordon that lands in a fleet nobody else has touched since the listing *)
(* leaves the floor standing in the cluster (decide, _run_nodes).           *)
THEOREM FloorKeptHolds == Spec => FloorKept
<1>1. FloorInv /\ [Next]_vars =>
        [\A g \in Replica, n \in Node :
           (/\ n \in queue[g] \ queue'[g]
            /\ nodes'[n].unschedulable
            /\ Undisturbed(g))
             => HealthyCapacity(nodes', {}) >= MIN_HEALTHY_NODES]_vars
  BY StepKeepsFloor
<1>2. QED BY <1>1, FloorInvariant, PTL DEF Spec, FloorKept
-----------------------------------------------------------------------------
(* The view: what the replicas publish, for any number of them and any age  *)
(* that is taken for stale.  A loop that started after a node was taken out *)
(* lists it as unschedulable, for it lists after it starts; and what a      *)
(* replica shows is the listing of the loop whose start it shows.           *)

ViewTypeOK ==
  /\ is_leader \in [Replica -> BOOLEAN]
  /\ last_loop \in [Replica -> Nat]
  /\ node_states \in [Replica -> SUBSET Node]
  /\ taken \in [Node -> Time]

\* A node that was taken out is out.
TakenIsOut ==
  \A n \in Node : taken[n] # NoTime => nodes[n].unschedulable /\ taken[n] <= clock

\* A node that was taken out before a loop started was out when the loop listed it.
Listed(g) ==
  step[g] \in {"nodes", "exporters"} =>
    \A n \in Node : taken[n] # NoTime /\ taken[n] < start[g] => snap[g][n].unschedulable

\* ... and is shown by a replica that leads since that loop.
Shown(g) ==
  /\ last_loop[g] <= clock
  /\ is_leader[g] =>
       \A n \in Node : taken[n] # NoTime /\ taken[n] < last_loop[g] => n \in node_states[g]

ViewInv == ViewTypeOK /\ TakenIsOut /\ \A g \in Replica : Listed(g) /\ Shown(g)

ViewFacts == GuardInv /\ ViewInv

-----------------------------------------------------------------------------
(* The view adds nothing to what the guard does.                           *)

(* A step with its view is a step of the guard.                             *)
LEMMA ViewStepIsStep == [ViewNext]_<<vars, viewVars, taken>> => [Next]_vars
<1> SUFFICES ASSUME ViewNext PROVE Next
  OBVIOUS
<1>1. ASSUME NEW g \in Replica,
             Evaluated(g) \/ StandsDown(g) \/ StartsAnew(g) \/ SaysNothing(g)
      PROVE  Acts(g)
  BY <1>1
     DEF Evaluated, StandsDown, StartsAnew, SaysNothing, Acts, Goes, Fails, Acquire,
         LeaseGoes, LeaseFails
<1>2. ASSUME NEW g \in Replica, NEW n \in Node, TakesOut(g, n)
      PROVE  Acts(g)
  BY <1>2 DEF TakesOut, Acts, Goes, Fails
<1>3. ASSUME OthersChange \/ \E n \in Node : HumanFrees(n)
      PROVE  Environment \/ Time_passes
  BY <1>3 DEF OthersChange, HumanFrees, Environment
<1>4. QED
  BY <1>1, <1>2, <1>3 DEF ViewNext, Next, Acts

(* A guard that publishes is a guard: what is proved of its loop holds.     *)
THEOREM ViewRunsTheGuard == ViewSpec => Spec
<1>1. ViewInit => Init
  BY DEF ViewInit
<1>2. QED
  BY <1>1, ViewStepIsStep, PTL DEF ViewSpec, Spec

-----------------------------------------------------------------------------

(* The numbers and types that the steps below rest on.                      *)
LEMMA ViewNumbers ==
  ASSUME ViewFacts
  PROVE  /\ TypeOK /\ clock \in Nat
         /\ \A g \in Replica :
              /\ start[g] \in Nat /\ start[g] <= clock
              /\ last_loop[g] \in Nat /\ last_loop[g] <= clock
              /\ AtWork(g) /\ Listed(g) /\ Shown(g)
         /\ \A n \in Node :
              /\ taken[n] \in Nat \cup {NoTime}
              /\ taken[n] # NoTime => taken[n] \in Nat /\ nodes[n].unschedulable
                                        /\ taken[n] <= clock
<1>1. TypeOK /\ GuardInv
  BY DEF ViewFacts, GuardInv
<1>2. ASSUME NEW g \in Replica
      PROVE  /\ clock \in Nat /\ start[g] \in Nat /\ start[g] <= clock /\ AtWork(g)
             /\ last_loop[g] \in Nat /\ last_loop[g] <= clock /\ Listed(g) /\ Shown(g)
  BY <1>1, ReplicaFacts DEF CordonInv, ViewFacts, ViewInv, ViewTypeOK, Shown
<1>3. clock \in Nat
  BY <1>1, LeaseAssumption DEF TypeOK, LeaseTypeOK
<1>4. QED
  BY <1>1, <1>2, <1>3 DEF ViewFacts, ViewInv, ViewTypeOK, TakenIsOut, Time, NoTime

(* A replica whose loop is where it was still lists what it listed, and one *)
(* whose loop is over has nothing to say: a node taken out by now was not   *)
(* taken out before a loop that is under way.                               *)
LEMMA ListedStays ==
  ASSUME ViewFacts, NEW g \in Replica,
         step'[g] \in {"nodes", "exporters"} =>
           /\ step[g] \in {"nodes", "exporters"}
           /\ start'[g] = start[g] /\ snap'[g] = snap[g],
         \A n \in Node : taken'[n] \in {taken[n], clock, NoTime}
  PROVE  Listed(g)'
<1> SUFFICES ASSUME step'[g] \in {"nodes", "exporters"}, NEW n \in Node,
                    taken'[n] # NoTime, taken'[n] < start'[g]
             PROVE  snap'[g][n].unschedulable
  BY DEF Listed
<1>1. start[g] \in Nat /\ start[g] <= clock /\ clock \in Nat /\ Listed(g)
  BY ViewNumbers
<1>2. taken'[n] = taken[n]
  BY <1>1
<1>3. QED
  BY <1>1, <1>2 DEF Listed

(* What a replica shows stays true as long as it shows the same.            *)
LEMMA ShownStays ==
  ASSUME ViewFacts, NEW g \in Replica,
         is_leader'[g] = is_leader[g], last_loop'[g] = last_loop[g],
         node_states'[g] = node_states[g],
         clock' \in {clock, clock + 1},
         \A n \in Node : taken'[n] \in {taken[n], clock, NoTime}
  PROVE  Shown(g)'
<1>1. clock \in Nat /\ last_loop[g] \in Nat /\ last_loop[g] <= clock /\ Shown(g)
  BY ViewNumbers
<1>2. last_loop'[g] <= clock'
  BY <1>1
<1>3. ASSUME is_leader[g], NEW n \in Node, taken'[n] # NoTime, taken'[n] < last_loop[g]
      PROVE  n \in node_states[g]
  <2>1. taken'[n] = taken[n]
    BY <1>1, <1>3
  <2>2. QED
    BY <1>1, <1>3, <2>1 DEF Shown
<1>4. QED
  BY <1>2, <1>3 DEF Shown

(* A loop that gets no further than the Lease.                              *)
LEMMA ElectionStays ==
  ASSUME ViewFacts, NEW g \in Replica, taken' = taken,
         Acquire(g, LeaseGoes(g) \/ LeaseFails(g))
  PROVE  TakenIsOut' /\ Listed(g)'
<1>1. /\ clock' = clock /\ nodes' = nodes
      /\ phase[g] # "work"
      /\ step' = step \/ step' = [step EXCEPT ![g] = "list"]
  BY DEF Acquire, LeaseGoes, LeaseFails, StartLoop, ReadLease, Defer, WriteLease,
         Conflict, LeaseCallFails, EndLoop
<1>2. step[g] = "none" /\ TypeOK
  BY <1>1, ViewNumbers DEF AtWork
<1>3. step'[g] \notin {"nodes", "exporters"}
  BY <1>1, <1>2 DEF TypeOK
<1>4. TakenIsOut'
  BY <1>1 DEF ViewFacts, ViewInv, TakenIsOut
<1>5. QED
  BY <1>3, <1>4 DEF Listed

(* The end of a loop, and of a process.                                     *)
LEMMA EndStays ==
  ASSUME ViewFacts, NEW g \in Replica, taken' = taken,
         Publish(g) \/ AbortLoop(g) \/ RestartGuard(g)
  PROVE  TakenIsOut' /\ Listed(g)' /\ clock' = clock
<1>1. clock' = clock /\ nodes' = nodes /\ step' = [step EXCEPT ![g] = "none"]
  BY DEF Publish, AbortLoop, RestartGuard, FinishWork, EndLoop, Restart, ForgetLoop
<1>2. step'[g] = "none"
  BY <1>1, ViewNumbers DEF TypeOK
<1>3. TakenIsOut'
  BY <1>1 DEF ViewFacts, ViewInv, TakenIsOut
<1>4. QED
  BY <1>1, <1>2, <1>3 DEF Listed

(* The rest of a loop, up to its last PATCH.                                *)
LEMMA WorkStays ==
  ASSUME ViewFacts, NEW g \in Replica, taken' = taken,
         \/ ListNodes(g)
         \/ \E n \in Node : Decide(g, n) \/ CordonFails(g, n)
         \/ FinishNodes(g)
  PROVE  TakenIsOut' /\ Listed(g)' /\ clock' = clock
<1>1. clock' = clock /\ start' = start /\ nodes' = nodes /\ TypeOK
  BY ViewNumbers DEF ListNodes, Decide, CordonFails, FinishNodes, leaseVars
<1>2. TakenIsOut'
  BY <1>1 DEF ViewFacts, ViewInv, TakenIsOut
<1>3. CASE ListNodes(g)
  <2>1. snap'[g] = nodes
    BY <1>1, <1>3 DEF ListNodes, TypeOK
  <2>2. QED
    BY <1>1, <1>2, <2>1, ViewNumbers DEF Listed
<1>4. CASE ~ListNodes(g)
  <2>1. /\ snap' = snap
        /\ step[g] = "nodes"
    BY <1>4 DEF Decide, CordonFails, FinishNodes, Upcoming
  <2>2. QED
    BY <1>1, <1>2, <2>1, ListedStays
<1>5. QED
  BY <1>3, <1>4

LEMMA ViewTypeStep ==
  ASSUME ViewFacts, ViewNext
  PROVE  ViewTypeOK'
<1>1. ViewTypeOK /\ TypeOK /\ \A g \in Replica : start[g] \in Nat
  BY ViewNumbers DEF ViewFacts, ViewInv
<1>2. clock \in Nat
  BY ViewNumbers
<1>3. ASSUME NEW g \in Replica,
             Evaluated(g) \/ StandsDown(g) \/ StartsAnew(g) \/ SaysNothing(g), taken' = taken
      PROVE  ViewTypeOK'
  <2>1. Out(g) \subseteq Node
    BY DEF Out
  <2>2. ASSUME NEW led \in BOOLEAN, NEW t \in Nat,
               is_leader' = [is_leader EXCEPT ![g] = led],
               last_loop' = [last_loop EXCEPT ![g] = t],
               \/ node_states' = node_states
               \/ node_states' = [node_states EXCEPT ![g] = Out(g)]
               \/ node_states' = [node_states EXCEPT ![g] = {}]
        PROVE  ViewTypeOK'
    <3>1. is_leader' \in [Replica -> BOOLEAN]
      BY <1>1, <2>2 DEF ViewTypeOK
    <3>2. last_loop' \in [Replica -> Nat]
      BY <1>1, <2>2 DEF ViewTypeOK
    <3>3. node_states' \in [Replica -> SUBSET Node]
      BY <1>1, <2>1, <2>2 DEF ViewTypeOK
    <3>4. QED
      BY <1>1, <1>3, <3>1, <3>2, <3>3 DEF ViewTypeOK
  <2>3. CASE Evaluated(g)
    BY <1>1, <2>2, <2>3 DEF Evaluated
  <2>4. CASE StandsDown(g)
    BY <1>1, <2>2, <2>4 DEF StandsDown
  <2>5. CASE StartsAnew(g)
    BY <2>2, <2>5 DEF StartsAnew
  <2>6. CASE SaysNothing(g)
    BY <1>1, <1>3, <2>6 DEF SaysNothing, viewVars, ViewTypeOK
  <2>7. QED
    BY <1>3, <2>3, <2>4, <2>5, <2>6
<1>4. ASSUME NEW g \in Replica, NEW n \in Node, TakesOut(g, n)
      PROVE  ViewTypeOK'
  BY <1>1, <1>2, <1>4 DEF TakesOut, viewVars, ViewTypeOK, Time
<1>5. ASSUME NEW n \in Node, HumanFrees(n)
      PROVE  ViewTypeOK'
  BY <1>1, <1>5 DEF HumanFrees, viewVars, ViewTypeOK, Time
<1>6. CASE OthersChange
  BY <1>1, <1>6 DEF OthersChange, viewVars, ViewTypeOK
<1>7. QED
  BY <1>3, <1>4, <1>5, <1>6 DEF ViewNext

(* A step of a replica, which says what it says.                            *)
LEMMA ReplicaStays ==
  ASSUME ViewFacts, NEW g \in Replica, taken' = taken,
         Evaluated(g) \/ StandsDown(g) \/ StartsAnew(g) \/ SaysNothing(g)
  PROVE  TakenIsOut' /\ \A b \in Replica : Listed(b)' /\ Shown(b)'
<1>1. Acts(g)
  BY DEF Evaluated, StandsDown, StartsAnew, SaysNothing, Acts, Goes, Fails, Acquire,
         LeaseGoes, LeaseFails
<1>2. ViewTypeOK /\ TypeOK
  BY ViewNumbers DEF ViewFacts, ViewInv
<1>3. /\ start[g] \in Nat /\ start[g] <= clock /\ Listed(g)
      /\ clock \in Nat
  BY ViewNumbers
<1>4. ASSUME NEW b \in Replica, b # g
      PROVE  Listed(b)' /\ Shown(b)' /\ clock' = clock
  <2>1. Still(b) /\ clock' = clock
    BY <1>1, <1>2, <1>4, OthersStill
  <2>2. /\ is_leader'[b] = is_leader[b] /\ last_loop'[b] = last_loop[b]
        /\ node_states'[b] = node_states[b]
    BY <1>2, <1>4 DEF Evaluated, StandsDown, StartsAnew, SaysNothing, viewVars, ViewTypeOK
  <2>3. QED
    BY <2>1, <2>2, ListedStays, ShownStays DEF Still
<1>5. CASE Evaluated(g)
  <2>1. TakenIsOut' /\ Listed(g)' /\ clock' = clock
    BY <1>5, EndStays DEF Evaluated
  <2>2. /\ step[g] = "exporters"
        /\ last_loop'[g] = start[g] /\ node_states'[g] = Out(g)
    BY <1>2, <1>5 DEF Evaluated, Publish, ViewTypeOK
  <2>3. Shown(g)'
    BY <1>3, <2>1, <2>2 DEF Shown, Listed, Out
  <2>4. QED
    BY <1>4, <2>1, <2>3
<1>6. CASE StandsDown(g)
  <2>1. Acquire(g, LeaseGoes(g) \/ LeaseFails(g)) /\ clock' = clock
    BY <1>6 DEF StandsDown, Acquire, LeaseGoes, LeaseFails, Defer, Conflict,
                LeaseCallFails, WriteLease, EndLoop
  <2>2. TakenIsOut' /\ Listed(g)'
    BY <2>1, ElectionStays
  <2>3. is_leader'[g] = FALSE /\ last_loop'[g] = start[g]
    BY <1>2, <1>6 DEF StandsDown, ViewTypeOK
  <2>4. Shown(g)'
    BY <1>3, <2>1, <2>3 DEF Shown
  <2>5. QED
    BY <1>4, <2>2, <2>4
<1>7. CASE StartsAnew(g)
  <2>1. TakenIsOut' /\ Listed(g)' /\ clock' = clock
    BY <1>7, EndStays DEF StartsAnew
  <2>2. is_leader'[g] = FALSE /\ last_loop'[g] = 0
    BY <1>2, <1>7 DEF StartsAnew, ViewTypeOK
  <2>3. Shown(g)'
    BY <1>3, <2>1, <2>2 DEF Shown
  <2>4. QED
    BY <1>4, <2>1, <2>3
<1>8. CASE SaysNothing(g)
  <2>1. TakenIsOut' /\ Listed(g)' /\ clock' = clock
    <3>1. CASE Acquire(g, StartLoop(g) \/ ReadLease(g) \/ WriteLease(g, TRUE))
      <4>1. Acquire(g, LeaseGoes(g) \/ LeaseFails(g)) /\ clock' = clock
        BY <3>1 DEF Acquire, LeaseGoes, StartLoop, ReadLease, WriteLease
      <4>2. QED
        BY <4>1, ElectionStays
    <3>2. CASE AbortLoop(g)
      BY <3>2, EndStays
    <3>3. CASE \/ ListNodes(g)
               \/ \E n \in Node : Decide(g, n) \/ CordonFails(g, n)
               \/ FinishNodes(g)
      BY <3>3, WorkStays
    <3>4. QED
      BY <1>8, <3>1, <3>2, <3>3 DEF SaysNothing
  <2>2. UNCHANGED viewVars
    BY <1>8 DEF SaysNothing
  <2>3. Shown(g)'
    BY <2>1, <2>2, ShownStays DEF viewVars
  <2>4. QED
    BY <1>4, <2>1, <2>3
<1>9. QED
  BY <1>5, <1>6, <1>7, <1>8

(* A node goes out of service, or back.                                     *)
LEMMA NodeStays ==
  ASSUME ViewFacts, UNCHANGED <<viewVars, clock>>,
         \A g \in Replica :
           step'[g] = step[g] /\ start'[g] = start[g] /\ snap'[g] = snap[g],
         \A n \in Node :
           /\ taken'[n] \in {taken[n], clock, NoTime}
           /\ taken'[n] # NoTime => nodes'[n].unschedulable
  PROVE  TakenIsOut' /\ \A b \in Replica : Listed(b)' /\ Shown(b)'
<1>1. TakenIsOut'
  BY ViewNumbers DEF TakenIsOut
<1>2. ASSUME NEW b \in Replica
      PROVE  Listed(b)' /\ Shown(b)'
  BY <1>2, ListedStays, ShownStays DEF viewVars
<1>3. QED
  BY <1>1, <1>2

LEMMA TakesOutStays ==
  ASSUME ViewFacts, NEW g \in Replica, NEW n \in Node, TakesOut(g, n)
  PROVE  TakenIsOut' /\ \A b \in Replica : Listed(b)' /\ Shown(b)'
<1>1. /\ taken' = [taken EXCEPT ![n] = IF taken[n] = NoTime THEN clock ELSE taken[n]]
      /\ nodes' = Cordoned(n)
      /\ UNCHANGED <<viewVars, clock, step, start, snap>>
  BY DEF TakesOut, CordonNode, leaseVars
<1>2. TypeOK /\ ViewTypeOK
  BY ViewNumbers DEF ViewFacts, ViewInv
<1>3. /\ nodes'[n].unschedulable
      /\ \A m \in Node : m # n => nodes'[m] = nodes[m]
  BY <1>1, <1>2 DEF Cordoned, TypeOK, NodeView
<1>4. /\ taken'[n] \in {taken[n], clock}
      /\ \A m \in Node : m # n => taken'[m] = taken[m]
  BY <1>1, <1>2 DEF ViewTypeOK
<1>5. \A m \in Node : taken[m] # NoTime => nodes[m].unschedulable
  BY ViewNumbers
<1>6. QED
  BY <1>1, <1>3, <1>4, <1>5, NodeStays

LEMMA FreesStays ==
  ASSUME ViewFacts, NEW n \in Node, HumanFrees(n)
  PROVE  TakenIsOut' /\ \A b \in Replica : Listed(b)' /\ Shown(b)'
<1> DEFINE view == [nodes[n] EXCEPT !.unschedulable = ~@]
<1>1. /\ taken' = [taken EXCEPT ![n] = NoTime]
      /\ nodes' = [nodes EXCEPT ![n] = view]
      /\ UNCHANGED <<viewVars, clock, step, start, snap>>
  BY DEF HumanFrees, HumanCordonsOrUncordons, Change, leaseVars, localVars
<1> HIDE DEF view
<1>2. TypeOK /\ ViewTypeOK
  BY ViewNumbers DEF ViewFacts, ViewInv
<1>3. \A m \in Node : m # n => nodes'[m] = nodes[m]
  BY <1>1, <1>2 DEF TypeOK
<1>4. taken'[n] = NoTime /\ \A m \in Node : m # n => taken'[m] = taken[m]
  BY <1>1, <1>2 DEF ViewTypeOK
<1>5. \A m \in Node : taken[m] # NoTime => nodes[m].unschedulable
  BY ViewNumbers
<1>6. QED
  BY <1>1, <1>3, <1>4, <1>5, NodeStays

(* Nothing anybody else does puts a node back but a human.                  *)
LEMMA OthersStay ==
  ASSUME ViewFacts, OthersChange
  PROVE  TakenIsOut' /\ \A b \in Replica : Listed(b)' /\ Shown(b)'
<1>1. TypeOK /\ \A m \in Node : taken[m] # NoTime => nodes[m].unschedulable
  BY ViewNumbers
<1>2. UNCHANGED <<viewVars, taken>>
  BY DEF OthersChange
<1>3. ASSUME NEW n \in Node, NEW view, Change(n, view),
             nodes[n].unschedulable => view.unschedulable
      PROVE  TakenIsOut' /\ \A b \in Replica : Listed(b)' /\ Shown(b)'
  <2>1. nodes' = [nodes EXCEPT ![n] = view] /\ UNCHANGED <<clock, step, start, snap>>
    BY <1>3 DEF Change, leaseVars, localVars
  <2>2. nodes'[n] = view /\ \A m \in Node : m # n => nodes'[m] = nodes[m]
    BY <1>1, <2>1 DEF TypeOK
  <2>3. \A m \in Node : taken'[m] # NoTime => nodes'[m].unschedulable
    BY <1>1, <1>2, <1>3, <2>2
  <2>4. QED
    BY <1>2, <2>1, <2>3, NodeStays
<1>4. ASSUME NEW n \in Node, NEW c \in Signals, FlipCondition(n, c) \/ RestampCondition(n, c)
      PROVE  \E view : Change(n, view) /\ (nodes[n].unschedulable => view.unschedulable)
  <2>1. nodes[n] \in NodeView
    BY <1>1 DEF TypeOK
  <2>2. \A r : [nodes[n] EXCEPT !.cond = r].unschedulable = nodes[n].unschedulable
    BY <2>1 DEF NodeView
  <2>3. QED
    BY <1>4, <2>1, <2>2 DEF FlipCondition, RestampCondition, NodeView
<1>5. ASSUME NEW n \in Node,
             FlipReady(n) \/ (~nodes[n].unschedulable /\ HumanCordonsOrUncordons(n))
      PROVE  \E view : Change(n, view) /\ (nodes[n].unschedulable => view.unschedulable)
  <2>1. CASE FlipReady(n)
    <3>1. nodes[n] \in NodeView
      BY <1>1 DEF TypeOK
    <3>2. \A r : [nodes[n] EXCEPT !.ready = r].unschedulable = nodes[n].unschedulable
      BY <3>1 DEF NodeView
    <3>3. QED
      BY <2>1, <3>2 DEF FlipReady
  <2>2. CASE ~nodes[n].unschedulable /\ HumanCordonsOrUncordons(n)
    BY <2>2 DEF HumanCordonsOrUncordons
  <2>3. QED
    BY <1>5, <2>1, <2>2
<1>6. CASE Time_passes
  <2>1. /\ clock' = clock + 1 /\ UNCHANGED <<nodes, step, start, snap>>
    BY <1>6 DEF Time_passes, Tick, guardVars, localVars
  <2>2. TakenIsOut'
    BY <1>2, <2>1, ViewNumbers DEF TakenIsOut
  <2>3. ASSUME NEW b \in Replica
        PROVE  Listed(b)' /\ Shown(b)'
    BY <1>2, <2>1, ListedStays, ShownStays DEF viewVars
  <2>4. QED
    BY <2>2, <2>3
<1>7. QED
  BY <1>3, <1>4, <1>5, <1>6 DEF OthersChange

LEMMA ViewStepInv ==
  ASSUME ViewFacts, [ViewNext]_<<vars, viewVars, taken>>
  PROVE  ViewFacts'
<1>1. GuardInv'
  BY ViewStepIsStep, GuardStepInv DEF ViewFacts
<1>2. CASE ViewNext
  <2>1. TakenIsOut' /\ \A b \in Replica : Listed(b)' /\ Shown(b)'
    BY <1>2, ReplicaStays, TakesOutStays, FreesStays, OthersStay DEF ViewNext
  <2>2. QED
    BY <1>1, <1>2, <2>1, ViewTypeStep DEF ViewFacts, ViewInv
<1>3. CASE UNCHANGED <<vars, viewVars, taken>>
  BY <1>1, <1>3
     DEF ViewFacts, ViewInv, ViewTypeOK, TakenIsOut, Listed, Shown, vars, viewVars,
         leaseVars, guardVars, localVars
<1>4. QED
  BY <1>2, <1>3

(* Whichever replica took a node out, and whether it knows or has restarted *)
(* since, every replica that is not seen to fail shows the node.            *)
THEOREM LossIsSaidHolds == ViewSpec => []LossIsSaid
<1>1. ViewInit => ViewFacts
  <2> SUFFICES ASSUME ViewInit PROVE ViewFacts
    OBVIOUS
  <2>1. GuardInv /\ clock = 0
    BY GuardInitInv DEF ViewInit, Init, LeaseInit
  <2>2. ViewTypeOK
    BY DEF ViewInit, ViewTypeOK, Time
  <2>3. TakenIsOut
    BY DEF ViewInit, TakenIsOut
  <2>4. \A g \in Replica : Listed(g) /\ Shown(g)
    BY <2>1 DEF ViewInit, Init, Listed, Shown
  <2>5. QED
    BY <2>1, <2>2, <2>3, <2>4 DEF ViewFacts, ViewInv
<1>2. ViewFacts => LossIsSaid
  <2> SUFFICES ASSUME ViewFacts, NEW g \in Replica, NEW n \in Node,
                      taken[n] # NoTime, clock - taken[n] > Stale, ~SeenToFail(g)
               PROVE  n \in node_states[g]
    BY DEF LossIsSaid
  <2>1. /\ is_leader[g] /\ ~(clock - last_loop[g] > Stale)
    BY DEF SeenToFail
  <2>2. /\ clock \in Nat /\ last_loop[g] \in Nat /\ taken[n] \in Nat /\ Shown(g)
    BY ViewNumbers
  <2>3. taken[n] < last_loop[g]
    BY <2>1, <2>2, StaleAssumption
  <2>4. QED
    BY <2>1, <2>2, <2>3 DEF Shown
<1>3. QED
  BY <1>1, <1>2, ViewStepInv, PTL DEF ViewSpec
=============================================================================

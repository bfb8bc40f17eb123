-------------------------- MODULE SupervisorProofs --------------------------
(***************************************************************************)
(* The exporter supervisor, for any pods on any nodes, any grace and any   *)
(* cooldown.                                                               *)
(***************************************************************************)
EXTENDS ExporterSupervisor, TLAPS

\* The loop's `now` is a time of the past, and a loop under way has one.
Started ==
  /\ start <= clock
  /\ stage # "idle" => start \in Nat

\* Nothing is decided before the scrapes, nor about a pod still to be scraped.
DecidedInTurn ==
  /\ stage \in {"idle", "list"} => doomed = {}
  /\ doomed \cap todo = {}

SupervisorTypeInv == SupervisorTypeOK /\ Started /\ DecidedInTurn

LEMMA SupervisorInitType == SupervisorInit => SupervisorTypeInv
BY SupervisorAssumption
   DEF SupervisorInit, SupervisorTypeInv, SupervisorTypeOK, Started, DecidedInTurn,
       PodState, Shown, Time, NoTime

\* A pod listed as running was decided about, one way or the other.
LEMMA UnansweredOutcome ==
  ASSUME SupervisorTypeInv, NEW p \in Pod, Unanswered(p)
  PROVE  /\ SinceWhen(p) \in Nat
         /\ \/ ToBeDeleted(p) /\ doomed' = doomed \cup {p}
               /\ last_delete' = [last_delete EXCEPT ![NodeOf[p]] = start]
            \/ UNCHANGED <<doomed, last_delete>>
BY DEF SupervisorTypeInv, SupervisorTypeOK, Started, Unanswered, Looking, SinceWhen,
       Time

LEMMA LoopKeepsTypes ==
  ASSUME SupervisorTypeInv, LoopGoes \/ LoopFails
  PROVE  SupervisorTypeInv'
<1> USE SupervisorAssumption
    DEF SupervisorTypeInv, SupervisorTypeOK, Started, DecidedInTurn, podVars,
        dictVars, pastVars
<1>1. CASE StartLoop
  BY <1>1 DEF StartLoop, Time
<1>2. CASE ListPods
  BY <1>2 DEF ListPods, Show, Shown
<1>3. ASSUME NEW p \in Pod, PassOver(p)
      PROVE  SupervisorTypeInv'
  BY <1>3 DEF PassOver, Looking, ClockCleared, Time
<1>4. ASSUME NEW p \in Pod, Answered(p)
      PROVE  SupervisorTypeInv'
  BY <1>4 DEF Answered, Looking, ClearedByAnswer, ClockCleared, Time
<1>5. ASSUME NEW p \in Pod, Unanswered(p)
      PROVE  SupervisorTypeInv'
  <2>1. start \in Nat /\ SinceWhen(p) \in Nat
    BY <1>5, UnansweredOutcome DEF Unanswered, Looking
  <2>2. /\ unreachable_since' \in [Pod -> Time]
        /\ silence' \in [Pod -> SUBSET Nat]
    BY <1>5, <2>1 DEF Unanswered, Time
  <2>3. last_delete' \in [Node -> Time]
    BY <1>5, <2>1, UnansweredOutcome DEF Time
  <2>4. doomed' \in SUBSET Pod /\ doomed' \cap todo' = {}
    <3>1. doomed' \in {doomed, doomed \cup {p}} /\ todo' = todo \ {p}
      BY <1>5, UnansweredOutcome DEF Unanswered, Looking
    <3>2. QED
      BY <3>1
  <2>5. QED
    BY <1>5, <2>2, <2>3, <2>4 DEF Unanswered, Looking
<1>6. CASE ForgetGone
  BY <1>6 DEF ForgetGone, Time
<1>7. ASSUME NEW p \in Pod, NEW carriedOut \in BOOLEAN, SendDelete(p, carriedOut)
      PROVE  SupervisorTypeInv'
  <2>1. [pod |-> p, at |-> start] \in Request
    BY <1>7 DEF SendDelete, Request
  <2>2. pods' \in [Pod -> PodState]
    BY <1>7 DEF SendDelete, PodState
  <2>3. QED
    BY <1>7, <2>1, <2>2 DEF SendDelete
<1>8. ASSUME EndLoop, UNCHANGED <<clock, podVars, dictVars, pastVars>>
      PROVE  SupervisorTypeInv'
  BY <1>8 DEF EndLoop, Shown
<1>9. CASE RestartSupervisor
  BY <1>9 DEF RestartSupervisor, EndLoop, Shown, Time
<1>10. QED
  BY <1>1, <1>2, <1>3, <1>4, <1>5, <1>6, <1>7, <1>8, <1>9
     DEF LoopGoes, LoopFails, FinishLoop, RequestRaises, ScrapeRaises

LEMMA OthersKeepTypes ==
  ASSUME SupervisorTypeInv, (\E p \in Pod : PodChanges(p)) \/ Tick
  PROVE  SupervisorTypeInv'
<1> USE SupervisorAssumption
    DEF SupervisorTypeInv, SupervisorTypeOK, Started, DecidedInTurn, podVars,
        loopVars, dictVars, pastVars
<1>1. ASSUME NEW p \in Pod, PodChanges(p)
      PROVE  SupervisorTypeInv'
  BY <1>1 DEF PodChanges, PodState
<1>2. CASE Tick
  BY <1>2 DEF Tick, Time, NoTime
<1>3. QED
  BY <1>1, <1>2

LEMMA SupervisorTypeInvariant == SupervisorSpec => []SupervisorTypeInv
<1>1. SupervisorTypeInv /\ [SupervisorNext]_supervisorVars => SupervisorTypeInv'
  <2> SUFFICES ASSUME SupervisorTypeInv, [SupervisorNext]_supervisorVars
               PROVE  SupervisorTypeInv'
    OBVIOUS
  <2>1. CASE UNCHANGED supervisorVars
    BY <2>1 DEF supervisorVars, podVars, loopVars, dictVars, pastVars,
         SupervisorTypeInv, SupervisorTypeOK, Started, DecidedInTurn, Request
  <2>2. QED
    BY <2>1, LoopKeepsTypes, OthersKeepTypes DEF SupervisorNext
<1>2. QED
  BY <1>1, SupervisorInitType, PTL DEF SupervisorSpec

(* Every variable of the supervisor keeps its type; above all, whatever     *)
(* is judged is judged by a time.                                           *)
THEOREM SupervisorTypeCorrect == SupervisorSpec => []SupervisorTypeOK
<1>1. SupervisorTypeInv => SupervisorTypeOK
  BY DEF SupervisorTypeInv
<1>2. QED
  BY <1>1, SupervisorTypeInvariant, PTL

-----------------------------------------------------------------------------
(* Why nobody is deleted early: a clock that runs was started by a scrape   *)
(* that failed and that no answer has followed.                             *)

\* The time a pod's clock shows is that of a loop in which it was silent.
ClockIsSilence ==
  \A p \in Pod :
    unreachable_since[p] # NoTime => unreachable_since[p] \in silence[p]

GraceInv == ClockIsSilence /\ SilentThroughGrace

LEMMA GraceByUnanswered ==
  ASSUME SupervisorTypeInv, GraceInv, NEW p \in Pod, Unanswered(p)
  PROVE  GraceInv'
<1> USE SupervisorAssumption
    DEF SupervisorTypeInv, SupervisorTypeOK, GraceInv, ClockIsSilence,
        SilentThroughGrace
<1>1. /\ unreachable_since' = [unreachable_since EXCEPT ![p] = SinceWhen(p)]
      /\ silence' = [silence EXCEPT ![p] = @ \cup {start}]
      /\ UNCHANGED start
  BY DEF Unanswered, Looking
<1>2. SinceWhen(p) \in silence'[p]
  BY <1>1 DEF SinceWhen
<1>3. ClockIsSilence'
  BY <1>1, <1>2
<1>4. ASSUME NEW q \in doomed'
      PROVE  \E t \in silence'[q] : start - t >= EXPORTER_UNREACHABLE_SECONDS
  <2>1. CASE q \in doomed
    BY <1>1, <2>1
  <2>2. CASE q \notin doomed
    <3>1. q = p /\ PastGrace(p)
      BY <1>4, <2>2, UnansweredOutcome DEF ToBeDeleted
    <3>2. QED
      BY <1>2, <3>1 DEF PastGrace
  <2>3. QED
    BY <2>1, <2>2
<1>5. QED
  BY <1>1, <1>3, <1>4

LEMMA GraceStep ==
  ASSUME SupervisorTypeInv, GraceInv, [SupervisorNext]_supervisorVars
  PROVE  GraceInv'
<1> USE SupervisorAssumption
    DEF SupervisorTypeInv, SupervisorTypeOK, DecidedInTurn, GraceInv, ClockIsSilence,
        SilentThroughGrace, podVars, loopVars, dictVars, pastVars
<1>1. CASE StartLoop
  BY <1>1 DEF StartLoop
<1>2. CASE ListPods
  BY <1>2 DEF ListPods
<1>3. ASSUME NEW p \in Pod, PassOver(p)
      PROVE  GraceInv'
  BY <1>3 DEF PassOver, Looking, ClockCleared
<1>4. ASSUME NEW p \in Pod, Answered(p)
      PROVE  GraceInv'
  <2>1. p \notin doomed
    BY <1>4 DEF Answered, Looking
  <2>2. QED
    BY <1>4, <2>1 DEF Answered, Looking, ClearedByAnswer, ClockCleared
<1>5. ASSUME NEW p \in Pod, Unanswered(p)
      PROVE  GraceInv'
  BY <1>5, GraceByUnanswered
<1>6. CASE ForgetGone
  BY <1>6 DEF ForgetGone
<1>7. ASSUME NEW p \in Pod, NEW carriedOut \in BOOLEAN, SendDelete(p, carriedOut)
      PROVE  GraceInv'
  BY <1>7 DEF SendDelete
<1>8. ASSUME EndLoop, UNCHANGED <<clock, podVars, dictVars, pastVars>>
      PROVE  GraceInv'
  BY <1>8 DEF EndLoop
<1>9. CASE RestartSupervisor
  BY <1>9 DEF RestartSupervisor, EndLoop
<1>10. CASE (\E p \in Pod : PodChanges(p)) \/ Tick \/ UNCHANGED supervisorVars
  BY <1>10 DEF PodChanges, Tick, supervisorVars
<1>11. QED
  BY <1>1, <1>2, <1>3, <1>4, <1>5, <1>6, <1>7, <1>8, <1>9, <1>10
     DEF SupervisorNext, LoopGoes, LoopFails, FinishLoop, RequestRaises, ScrapeRaises

(* For every grace period and whatever loops are lost, pods are passed over *)
(* or the guard restarts: a pod chosen for deletion failed a scrape at least*)
(* the grace period ago and has answered none since (unreachable_since).    *)
THEOREM SilentThroughGraceHolds == SupervisorSpec => []SilentThroughGrace
<1>1. SupervisorInit => GraceInv
  BY DEF SupervisorInit, GraceInv, ClockIsSilence, SilentThroughGrace
<1>2. GraceInv => SilentThroughGrace
  BY DEF GraceInv
<1>3. QED
  BY <1>1, <1>2, GraceStep, SupervisorTypeInvariant, PTL DEF SupervisorSpec

-----------------------------------------------------------------------------
(* Why deletes on a node keep their distance: the cooldown is entered when  *)
(* a delete is decided, before it is sent, and stays when it fails.         *)

Cooldown == EXPORTER_DELETE_COOLDOWN_SECONDS

SameNode(p, q) == NodeOf[p] = NodeOf[q]

\* No delete was sent later than its node's last decision.
SentAfterDecision ==
  \A r \in sent : r.at <= last_delete[NodeOf[r.pod]]

\* What is decided and not yet sent is the last decision of its node, at least the
\* cooldown after all that was sent there, and the only one of its loop.
DecidedApart ==
  /\ \A p \in doomed : last_delete[NodeOf[p]] = start
  /\ \A p \in doomed : \A r \in sent :
       SameNode(p, r.pod) => start - r.at >= Cooldown
  /\ \A p, q \in doomed : p # q /\ SameNode(p, q) => Cooldown = 0

CooldownInv == SentAfterDecision /\ DecidedApart /\ CooldownKept

LEMMA CooldownByUnanswered ==
  ASSUME SupervisorTypeInv, CooldownInv, NEW p \in Pod, Unanswered(p)
  PROVE  CooldownInv'
<1> USE SupervisorAssumption
    DEF SupervisorTypeInv, SupervisorTypeOK, Started, CooldownInv, Request, Time
<1>1. UNCHANGED <<start, sent>> /\ start \in Nat
  BY DEF Unanswered, Looking
<1>2. CASE UNCHANGED <<doomed, last_delete>>
  BY <1>1, <1>2 DEF SentAfterDecision, DecidedApart, CooldownKept
<1>3. CASE /\ ToBeDeleted(p) /\ doomed' = doomed \cup {p}
           /\ last_delete' = [last_delete EXCEPT ![NodeOf[p]] = start]
  <2>1. last_delete[NodeOf[p]] # NoTime => start - last_delete[NodeOf[p]] >= Cooldown
    BY <1>1, <1>3 DEF ToBeDeleted, Cooling, Cooldown
  <2>2. \A r \in sent : SameNode(p, r.pod) => start - r.at >= Cooldown
    BY <1>1, <2>1 DEF SentAfterDecision, SameNode, NoTime, Cooldown
  <2>3. \A q \in doomed : SameNode(p, q) => Cooldown = 0
    BY <1>1, <2>1 DEF DecidedApart, SameNode, NoTime, Cooldown
  <2>4. SentAfterDecision'
    BY <1>1, <1>3, <2>2 DEF SentAfterDecision, SameNode, Cooldown
  <2>5. DecidedApart'
    BY <1>1, <1>3, <2>2, <2>3 DEF DecidedApart, SameNode
  <2>6. CooldownKept'
    BY <1>1 DEF CooldownKept
  <2>7. QED
    BY <2>4, <2>5, <2>6
<1>4. QED
  BY <1>2, <1>3, UnansweredOutcome

LEMMA CooldownBySend ==
  ASSUME SupervisorTypeInv, CooldownInv, NEW p \in Pod, NEW carriedOut \in BOOLEAN,
         SendDelete(p, carriedOut)
  PROVE  CooldownInv'
<1> USE SupervisorAssumption
    DEF SupervisorTypeInv, SupervisorTypeOK, Started, CooldownInv, Request, Time
<1> DEFINE r == [pod |-> p, at |-> start]
<1>1. /\ doomed' = doomed \ {p} /\ p \in doomed /\ sent' = sent \cup {r}
      /\ UNCHANGED <<start, last_delete>> /\ start \in Nat
  BY DEF SendDelete, dictVars
<1>2. r.pod = p /\ r.at = start
  OBVIOUS
<1> HIDE DEF r
<1>3. SentAfterDecision'
  BY <1>1, <1>2 DEF SentAfterDecision, DecidedApart
<1>4. DecidedApart'
  BY <1>1, <1>2 DEF DecidedApart, SameNode, Cooldown
<1>5. CooldownKept'
  BY <1>1, <1>2 DEF DecidedApart, CooldownKept, SameNode, Cooldown
<1>6. QED
  BY <1>3, <1>4, <1>5

LEMMA CooldownStep ==
  ASSUME SupervisorTypeInv, CooldownInv, [SupervisorNext]_supervisorVars
  PROVE  CooldownInv'
<1> USE SupervisorAssumption
    DEF SupervisorTypeInv, DecidedInTurn, CooldownInv, SentAfterDecision,
        DecidedApart, CooldownKept, podVars, loopVars, dictVars, pastVars
<1>1. CASE StartLoop \/ ListPods
  BY <1>1 DEF StartLoop, ListPods
<1>2. ASSUME NEW p \in Pod, PassOver(p) \/ Answered(p)
      PROVE  CooldownInv'
  BY <1>2 DEF PassOver, Answered, Looking
<1>3. ASSUME NEW p \in Pod, Unanswered(p)
      PROVE  CooldownInv'
  BY <1>3, CooldownByUnanswered
<1>4. CASE ForgetGone
  BY <1>4 DEF ForgetGone
<1>5. ASSUME NEW p \in Pod, NEW carriedOut \in BOOLEAN, SendDelete(p, carriedOut)
      PROVE  CooldownInv'
  BY <1>5, CooldownBySend
<1>6. ASSUME EndLoop, UNCHANGED <<clock, podVars, dictVars, pastVars>>
      PROVE  CooldownInv'
  BY <1>6 DEF EndLoop
<1>7. CASE RestartSupervisor
  BY <1>7 DEF RestartSupervisor, EndLoop
<1>8. CASE (\E p \in Pod : PodChanges(p)) \/ Tick \/ UNCHANGED supervisorVars
  BY <1>8 DEF PodChanges, Tick, supervisorVars
<1>9. QED
  BY <1>1, <1>2, <1>3, <1>4, <1>5, <1>6, <1>7, <1>8
     DEF SupervisorNext, LoopGoes, LoopFails, FinishLoop, RequestRaises, ScrapeRaises

(* For every cooldown and any number of pods on a node: the deletes that one*)
(* process sends for a node lie at least the cooldown apart, by the times   *)
(* of their loops, through aborted loops and deletes that fail (_last_delete*)
(* in supervisor.py).                                                       *)
THEOREM CooldownKeptHolds == SupervisorSpec => []CooldownKept
<1>1. SupervisorInit => CooldownInv
  BY DEF SupervisorInit, CooldownInv, SentAfterDecision, DecidedApart, CooldownKept
<1>2. CooldownInv => CooldownKept
  BY DEF CooldownInv
<1>3. QED
  BY <1>1, <1>2, CooldownStep, SupervisorTypeInvariant, PTL DEF SupervisorSpec
=============================================================================

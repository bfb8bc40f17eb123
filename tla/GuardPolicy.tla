---------------------------- MODULE GuardPolicy ----------------------------
(***************************************************************************)
(* policy.py of gpu-node-guard: what a snapshot of the fleet, a clock and  *)
(* a remaining budget make of each node.  Pure operators; Guard.tla runs   *)
(* the loop of `decide` over them, one node at a time.                     *)
(*                                                                         *)
(* Nodes are numbered in the order the API server lists them (by name),    *)
(* which is the order `decide` spends the budget in.                       *)
(***************************************************************************)
EXTENDS KubeTime, FiniteSets

CONSTANTS
  Node,                        \* the watched nodes
  MODE,                        \* "enforce" or anything else
  ENFORCE_NODES,               \* {} means every node
  CONDITION_MIN_AGE_SECONDS,
  MIN_HEALTHY_NODES,
  MAX_CORDONS_PER_WINDOW,
  RATE_LIMIT_WINDOW_SECONDS

ASSUME PolicyAssumption ==
  /\ Node \subseteq Nat
  /\ IsFiniteSet(Node)
  /\ CONDITION_MIN_AGE_SECONDS \in Int
  /\ MIN_HEALTHY_NODES \in Int
  /\ MAX_CORDONS_PER_WINDOW \in Nat
  /\ RATE_LIMIT_WINDOW_SECONDS \in Int

-----------------------------------------------------------------------------
(* What the guard sees of a node: Ready, spec.unschedulable, and for each  *)
(* GPU condition whether its status is "True" and since when.              *)

\* LEVEL_RULES, flattened: the order in which the conditions are looked at.
Rank ==
  [GPUUnrecoverable |-> 1, GPUWorkqueueStalled |-> 2,
   GPUEngineTimeout |-> 3, GPUProbeFailed |-> 4]

Level ==
  [GPUUnrecoverable |-> "L3", GPUWorkqueueStalled |-> "L3",
   GPUEngineTimeout |-> "L2", GPUProbeFailed |-> "L1"]

CORDON_LEVELS == {"L2", "L3"}

Trigger ==
  {"GPUUnrecoverable", "GPUWorkqueueStalled", "GPUEngineTimeout", "GPUProbeFailed"}

CondType == Trigger \cup {"GPUHealthDataStale"}

Condition == [status: BOOLEAN, since: Time]

NodeView ==
  [ready: BOOLEAN, unschedulable: BOOLEAN, cond: [CondType -> Condition]]

Active(v, c) == v.cond[c].status

-----------------------------------------------------------------------------

\* trigger_level: c is the first active condition in LEVEL_RULES order.
Triggers(v, c) ==
  /\ Active(v, c)
  /\ \A d \in Trigger : Rank[d] < Rank[c] => ~Active(v, d)

\* trigger_level's _too_young mark.
TooYoung(v, c, now) ==
  \/ v.cond[c].since = NoTime
  \/ now - v.cond[c].since < CONDITION_MIN_AGE_SECONDS

CordonWorthy(v) ==
  \E c \in Trigger : Triggers(v, c) /\ Level[c] \in CORDON_LEVELS

Serving(v) == v.ready /\ ~v.unschedulable /\ ~CordonWorthy(v)

HealthyCapacity(nodes, exclude) ==
  Cardinality({n \in Node \ exclude : Serving(nodes[n])})

-----------------------------------------------------------------------------
(* Deliberately wrong variants: each shows that a property can fail.       *)

\* The node itself is counted among what would remain.
BelowFloorCountingSelf(nodes, n) ==
  Cardinality({m \in Node \ {n} : Serving(nodes[m])}) + 1 < MIN_HEALTHY_NODES

\* The reason no alert rule knew (policy.py:72).
WouldCordon(nodes, n, now, budget) == "would-cordon"

-----------------------------------------------------------------------------

BelowFloor(nodes, n) == HealthyCapacity(nodes, {n}) < MIN_HEALTHY_NODES

\* Cordons of this guard, as [node, at] records, that still count at `now`.
InWindow(recent, now) ==
  {c \in recent : now - c.at < RATE_LIMIT_WINDOW_SECONDS}

Budget(recent, now) ==
  MAX_CORDONS_PER_WINDOW - Cardinality(InWindow(recent, now))

\* One iteration of `decide`: the reason of its decision about node n, given the
\* budget that the nodes before it have left.
Reason(nodes, n, now, budget) ==
  LET v == nodes[n] IN
  IF \A c \in Trigger : ~Active(v, c)
    THEN "healthy"
  ELSE IF \E c \in Trigger : Triggers(v, c) /\ TooYoung(v, c, now)
    THEN "condition-too-young"
  ELSE IF ~CordonWorthy(v)
    THEN "report-only-level"
  ELSE IF Active(v, "GPUHealthDataStale")
    THEN "health-data-stale"
  ELSE IF v.unschedulable
    THEN "already-cordoned"
  ELSE IF BelowFloor(nodes, n)
    THEN "capacity-floor"
  ELSE IF budget <= 0
    THEN "rate-limit"
  ELSE IF MODE # "enforce"
    THEN "observe-mode"
  ELSE IF ENFORCE_NODES # {} /\ n \notin ENFORCE_NODES
    THEN "not-in-enforce-scope"
  ELSE "cordon"

Reasons ==
  {"healthy", "condition-too-young", "report-only-level", "health-data-stale",
   "already-cordoned", "capacity-floor", "rate-limit", "observe-mode",
   "not-in-enforce-scope", "cordon"}
=============================================================================

------------------------------- MODULE Guard -------------------------------
(***************************************************************************)
(* Guard.loop_once of gpu-node-guard (main.py) around the Lease of         *)
(* GuardLease and the decisions of GuardPolicy.                            *)
(*                                                                         *)
(* A replica that got the Lease lists the nodes, decides about them one by *)
(* one against that snapshot, PATCHes the nodes it decided to cordon one   *)
(* request at a time, looks at the exporter pods and publishes.  Meanwhile *)
(* agents flip conditions, kubelets flip Ready, humans cordon and uncordon,*)
(* other replicas run, requests fail or lose their answer, and containers  *)
(* restart with an empty memory.                                           *)
(***************************************************************************)
EXTENDS GuardLease, GuardPolicy

CONSTANTS
  Signals,     \* the condition types that agents report
  MaxChanges   \* bound on what agents, kubelets and humans do

ASSUME GuardAssumption ==
  /\ Signals \subseteq CondType
  /\ MaxChanges \in Nat

VARIABLES
  nodes,      \* the Node objects in the API server
  changes,    \* how often something other than a guard changed them
  step,       \* where in loop_once a replica at work is
  snap,       \* the nodes it listed
  todo,       \* listed nodes it has not decided about
  decision,   \* its decisions
  budget,     \* what is left of the cordon budget in `decide`
  queue,      \* nodes it decided to cordon and has not got to
  recent,     \* _recent_cordons
  cordoned,   \* cordons of this loop
  total,      \* cordons_total
  acted,      \* history: the cordons of this process's life that took effect
  raised,     \* history: the starts of its loops that raised with cordons to count
  past        \* history: the cordons of earlier processes' lives

localVars == <<step, snap, todo, decision, budget, queue, cordoned>>
historyVars == <<acted, raised, past>>
guardVars == <<nodes, changes, localVars, recent, total, historyVars>>
vars == <<leaseVars, guardVars>>

\* One entry of _recent_cordons.  The code keeps only the time; a loop cordons a
\* node at most once, so the node tells entries of one loop apart.
CordonRecord == [node: Node, at: 0..MaxClock]

\* A PATCH that took effect: the start of its loop, when the node was cordoned,
\* and whether the guard got the answer.
CordonEvent == [node: Node, loop: 0..MaxClock, at: 0..MaxClock, answered: BOOLEAN]

Undecided == "undecided"

Blank ==
  [n \in Node |->
    [ready |-> FALSE, unschedulable |-> FALSE,
     cond |-> [c \in CondType |-> [status |-> FALSE, since |-> NoTime]]]]

TypeOK ==
  /\ LeaseTypeOK
  /\ nodes \in [Node -> NodeView]
  /\ changes \in Nat
  /\ step \in [Replica -> {"none", "list", "nodes", "exporters"}]
  /\ snap \in [Replica -> [Node -> NodeView]]
  /\ todo \in [Replica -> SUBSET Node]
  /\ decision \in [Replica -> [Node -> Reasons \cup {Undecided}]]
  /\ budget \in [Replica -> Int]
  /\ queue \in [Replica -> SUBSET Node]
  /\ recent \in [Replica -> SUBSET CordonRecord]
  /\ cordoned \in [Replica -> Nat]
  /\ total \in [Replica -> Nat]
  /\ acted \in [Replica -> SUBSET CordonEvent]
  /\ raised \in [Replica -> SUBSET (0..MaxClock)]
  /\ past \in SUBSET CordonEvent

\* Any of the reported conditions may already hold when the guard starts.
Init ==
  /\ LeaseInit
  /\ \E sick \in SUBSET (Node \X Signals) :
       nodes = [n \in Node |->
         [ready |-> TRUE, unschedulable |-> FALSE,
          cond |-> [c \in CondType |->
            IF <<n, c>> \in sick THEN [status |-> TRUE, since |-> 0]
            ELSE [status |-> FALSE, since |-> NoTime]]]]
  /\ changes = 0
  /\ step = [g \in Replica |-> "none"]
  /\ snap = [g \in Replica |-> Blank]
  /\ todo = [g \in Replica |-> {}]
  /\ decision = [g \in Replica |-> [n \in Node |-> Undecided]]
  /\ budget = [g \in Replica |-> 0]
  /\ queue = [g \in Replica |-> {}]
  /\ recent = [g \in Replica |-> {}]
  /\ cordoned = [g \in Replica |-> 0]
  /\ total = [g \in Replica |-> 0]
  /\ acted = [g \in Replica |-> {}]
  /\ raised = [g \in Replica |-> {}]
  /\ past = {}

-----------------------------------------------------------------------------
(* Deliberately wrong variants: each shows that a property can fail.       *)

\* A decided cordon does not use the budget up for the nodes after it.
BudgetNotSpent(g, reason) == budget[g]

\* Every decision uses the budget up.
BudgetSpentByAll(g, reason) == budget[g] - 1

\* A PATCH that failed is counted too.
CountedAnyway(g, answered) == cordoned[g] + 1

-----------------------------------------------------------------------------
(* The locals of one loop.                                                 *)

ForgetLoop(g) ==
  /\ step' = [step EXCEPT ![g] = "none"]
  /\ snap' = [snap EXCEPT ![g] = Blank]
  /\ todo' = [todo EXCEPT ![g] = {}]
  /\ decision' = [decision EXCEPT ![g] = [n \in Node |-> Undecided]]
  /\ budget' = [budget EXCEPT ![g] = 0]
  /\ queue' = [queue EXCEPT ![g] = {}]
  /\ cordoned' = [cordoned EXCEPT ![g] = 0]

(* Acquiring: the steps of GuardLease.  An answered write opens the work.  *)

Acquire(g, leaseStep) ==
  /\ leaseStep
  /\ step' = IF phase[g] # "work" /\ phase'[g] = "work"
             THEN [step EXCEPT ![g] = "list"] ELSE step
  /\ UNCHANGED <<nodes, changes, snap, todo, decision, budget, queue, cordoned,
                 recent, total, historyVars>>

(* _run_nodes.                                                             *)

ListNodes(g) ==
  /\ step[g] = "list"
  /\ step' = [step EXCEPT ![g] = "nodes"]
  /\ snap' = [snap EXCEPT ![g] = nodes]
  /\ todo' = [todo EXCEPT ![g] = Node]
  /\ budget' = [budget EXCEPT ![g] = Budget(recent[g], start[g])]
  /\ UNCHANGED <<leaseVars, nodes, changes, decision, queue, cordoned, recent,
                 total, historyVars>>

BudgetAfter(g, reason) ==
  IF reason = "cordon" THEN budget[g] - 1 ELSE budget[g]

\* One iteration of `decide`, in list order.
Decide(g, n) ==
  LET reason == Reason(snap[g], n, start[g], budget[g]) IN
  /\ step[g] = "nodes"
  /\ n \in todo[g]
  /\ \A m \in todo[g] : n <= m
  /\ todo' = [todo EXCEPT ![g] = @ \ {n}]
  /\ decision' = [decision EXCEPT ![g][n] = reason]
  /\ budget' = [budget EXCEPT ![g] = BudgetAfter(g, reason)]
  /\ queue' = IF reason = "cordon" THEN [queue EXCEPT ![g] = @ \cup {n}] ELSE queue
  /\ UNCHANGED <<leaseVars, nodes, changes, step, snap, cordoned, recent, total,
                 historyVars>>

\* The next cordon of the decisions, in list order.
Upcoming(g, n) ==
  /\ step[g] = "nodes"
  /\ todo[g] = {}
  /\ n \in queue[g]
  /\ \A m \in queue[g] : n <= m

Cordoned(n) == [nodes EXCEPT ![n].unschedulable = TRUE]

CordonCount(g, answered) == IF answered THEN cordoned[g] + 1 ELSE cordoned[g]

\* The PATCH takes effect.  If its answer is lost the loop goes on as after a
\* failure: neither _recent_cordons nor the count knows of the cordon.  The
\* history knows the cordon by the start of the loop, not by when it took effect.
CordonNode(g, n, answered) ==
  /\ Upcoming(g, n)
  /\ queue' = [queue EXCEPT ![g] = @ \ {n}]
  /\ nodes' = Cordoned(n)
  /\ recent' = IF answered
               THEN [recent EXCEPT ![g] = @ \cup {[node |-> n, at |-> start[g]]}]
               ELSE recent
  /\ acted' = [acted EXCEPT ![g] = @ \cup
       {[node |-> n, loop |-> start[g], at |-> clock, answered |-> answered]}]
  /\ cordoned' = [cordoned EXCEPT ![g] = CordonCount(g, answered)]
  /\ UNCHANGED <<leaseVars, changes, step, snap, todo, decision, budget, total,
                 raised, past>>

\* The PATCH fails without effect; the rest of the queue is still worked off.
CordonFails(g, n) ==
  /\ Upcoming(g, n)
  /\ queue' = [queue EXCEPT ![g] = @ \ {n}]
  /\ cordoned' = [cordoned EXCEPT ![g] = CordonCount(g, FALSE)]
  /\ UNCHANGED <<leaseVars, nodes, changes, step, snap, todo, decision, budget,
                 recent, total, historyVars>>

\* The history kept for later loops.
Kept(g) == {c \in recent[g] : c.at >= start[g] - RATE_LIMIT_WINDOW_SECONDS}

FinishNodes(g) ==
  /\ step[g] = "nodes"
  /\ todo[g] = {}
  /\ queue[g] = {}
  /\ step' = [step EXCEPT ![g] = "exporters"]
  /\ recent' = [recent EXCEPT ![g] = Kept(g)]
  /\ UNCHANGED <<leaseVars, nodes, changes, snap, todo, decision, budget, queue,
                 cordoned, total, historyVars>>

(* _run_exporters, and the state update at the end of loop_once.           *)

Publish(g) ==
  /\ step[g] = "exporters"
  /\ total' = [total EXCEPT ![g] = @ + cordoned[g]]
  /\ FinishWork(g)
  /\ ForgetLoop(g)
  /\ UNCHANGED <<nodes, changes, recent, historyVars>>

\* A request of the loop raises (`decide` makes none): run_forever counts an
\* error and sleeps.  What loop_once had yet to publish, the cordons of this loop
\* included, is dropped.
AbortLoop(g) ==
  /\ step[g] # "nodes" \/ todo[g] = {}
  /\ FinishWork(g)
  /\ ForgetLoop(g)
  /\ raised' = IF cordoned[g] > 0 THEN [raised EXCEPT ![g] = @ \cup {start[g]}]
               ELSE raised
  /\ UNCHANGED <<nodes, changes, recent, total, acted, past>>

RestartGuard(g) ==
  /\ Restart(g)
  /\ ForgetLoop(g)
  /\ recent' = [recent EXCEPT ![g] = {}]
  /\ total' = [total EXCEPT ![g] = 0]
  /\ past' = past \cup acted[g]
  /\ acted' = [acted EXCEPT ![g] = {}]
  /\ raised' = [raised EXCEPT ![g] = {}]
  /\ UNCHANGED <<nodes, changes>>

-----------------------------------------------------------------------------
(* Everybody else.                                                         *)

Change(n, view) ==
  /\ changes < MaxChanges
  /\ changes' = changes + 1
  /\ nodes' = [nodes EXCEPT ![n] = view]
  /\ UNCHANGED <<leaseVars, localVars, recent, total, historyVars>>

\* An agent publishes a flip, stamped with the second of the flip.  Nothing reads
\* the stamp of a condition that is not "True".
FlipCondition(n, c) ==
  LET on == ~Active(nodes[n], c) IN
  Change(n, [nodes[n] EXCEPT !.cond[c] =
               [status |-> on, since |-> IF on THEN Whole(clock) ELSE NoTime]])

\* An agent that restarted publishes what still holds under a new stamp.
RestampCondition(n, c) ==
  /\ Active(nodes[n], c)
  /\ Change(n, [nodes[n] EXCEPT !.cond[c].since = Whole(clock)])

FlipReady(n) == Change(n, [nodes[n] EXCEPT !.ready = ~@])

HumanCordonsOrUncordons(n) == Change(n, [nodes[n] EXCEPT !.unschedulable = ~@])

Time_passes == Tick /\ UNCHANGED guardVars

-----------------------------------------------------------------------------

Goes(g) ==
  \/ Acquire(g, LeaseGoes(g))
  \/ ListNodes(g)
  \/ \E n \in Node : Decide(g, n)
  \/ \E n \in Node : CordonNode(g, n, TRUE)
  \/ FinishNodes(g)
  \/ Publish(g)

Fails(g) ==
  \/ Acquire(g, LeaseFails(g))
  \/ \E n \in Node : CordonNode(g, n, FALSE) \/ CordonFails(g, n)
  \/ AbortLoop(g)

Environment ==
  \/ \E n \in Node, c \in Signals : FlipCondition(n, c) \/ RestampCondition(n, c)
  \/ \E n \in Node : FlipReady(n) \/ HumanCordonsOrUncordons(n)

Next ==
  \/ \E g \in Replica : Goes(g) \/ Fails(g) \/ RestartGuard(g)
  \/ Environment
  \/ Time_passes

Spec == Init /\ [][Next]_vars
=============================================================================

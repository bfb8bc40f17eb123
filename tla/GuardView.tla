----------------------------- MODULE GuardView -----------------------------
(***************************************************************************)
(* What a replica of gpu-node-guard says of itself and of the fleet:       *)
(* Guard._state as its /metrics shows it (main.py, metrics.py), for the    *)
(* alert rules to read.  A loop that gets through replaces it, one that    *)
(* defers or gets no answer about the Lease only says so, and one that     *)
(* raises leaves it as it is.                                              *)
(*                                                                         *)
(* Every step of Guard is a step here; the view adds nothing to what it    *)
(* does.                                                                   *)
(***************************************************************************)
EXTENDS GuardProperties

CONSTANT Stale   \* the age of last_loop that alerts.yaml takes for stale

ASSUME StaleAssumption == Stale \in Nat

VARIABLES
  is_leader,    \* _state["is_leader"]
  last_loop,    \* _state["last_loop"]
  node_states,  \* _state["node_states"]: the nodes shown as unschedulable
  taken         \* history: since when a node is out of service by a guard's PATCH

viewVars == <<is_leader, last_loop, node_states>>

ViewInit ==
  /\ Init
  /\ is_leader = [g \in Replica |-> FALSE]
  /\ last_loop = [g \in Replica |-> 0]
  /\ node_states = [g \in Replica |-> {}]
  /\ taken = [n \in Node |-> NoTime]

-----------------------------------------------------------------------------
(* Deliberately wrong variants: each shows that a property can fail.       *)

\* The decisions of the loop are all that is shown, as before node_states was added.
DecidedAboutOut(g) == {n \in Node : decision[g][n] = "already-cordoned"}

-----------------------------------------------------------------------------

\* policy.node_states of the listing.
Out(g) == {n \in Node : snap[g][n].unschedulable}

Evaluated(g) ==
  /\ Publish(g)
  /\ is_leader' = [is_leader EXCEPT ![g] = TRUE]
  /\ last_loop' = [last_loop EXCEPT ![g] = start[g]]
  /\ node_states' = [node_states EXCEPT ![g] = Out(g)]

\* acquire_or_renew returns False.
StandsDown(g) ==
  /\ Acquire(g, Defer(g) \/ Conflict(g) \/ LeaseCallFails(g) \/ WriteLease(g, FALSE))
  /\ is_leader' = [is_leader EXCEPT ![g] = FALSE]
  /\ last_loop' = [last_loop EXCEPT ![g] = start[g]]
  /\ UNCHANGED node_states

StartsAnew(g) ==
  /\ RestartGuard(g)
  /\ is_leader' = [is_leader EXCEPT ![g] = FALSE]
  /\ last_loop' = [last_loop EXCEPT ![g] = 0]
  /\ node_states' = [node_states EXCEPT ![g] = {}]

\* The loop goes on, or raises.
SaysNothing(g) ==
  /\ \/ Acquire(g, StartLoop(g) \/ ReadLease(g) \/ WriteLease(g, TRUE))
     \/ ListNodes(g)
     \/ \E n \in Node : Decide(g, n) \/ CordonFails(g, n)
     \/ FinishNodes(g)
     \/ AbortLoop(g)
  /\ UNCHANGED viewVars

\* A PATCH takes effect, whether it is answered or not, on a node that may be out
\* of service already.
TakesOut(g, n) ==
  /\ \E answered \in BOOLEAN : CordonNode(g, n, answered)
  /\ taken' = [taken EXCEPT ![n] = IF @ = NoTime THEN clock ELSE @]
  /\ UNCHANGED viewVars

HumanFrees(n) ==
  /\ nodes[n].unschedulable
  /\ HumanCordonsOrUncordons(n)
  /\ taken' = [taken EXCEPT ![n] = NoTime]
  /\ UNCHANGED viewVars

OthersChange ==
  /\ \/ \E n \in Node, c \in Signals : FlipCondition(n, c) \/ RestampCondition(n, c)
     \/ \E n \in Node : FlipReady(n)
     \/ \E n \in Node : ~nodes[n].unschedulable /\ HumanCordonsOrUncordons(n)
     \/ Time_passes
  /\ UNCHANGED <<viewVars, taken>>

ViewNext ==
  \/ \E g \in Replica :
       /\ Evaluated(g) \/ StandsDown(g) \/ StartsAnew(g) \/ SaysNothing(g)
       /\ UNCHANGED taken
  \/ \E g \in Replica, n \in Node : TakesOut(g, n)
  \/ \E n \in Node : HumanFrees(n)
  \/ OthersChange

ViewSpec == ViewInit /\ [][ViewNext]_<<vars, viewVars, taken>>

-----------------------------------------------------------------------------
(* Properties.                                                             *)

\* What GPUGuardNoLeader and GPUGuardEvaluationStale (alerts.yaml:286, 294) look for,
\* of one replica and without how long they wait.
SeenToFail(g) == ~is_leader[g] \/ clock - last_loop[g] > Stale

(* "A permanent action needs a standing signal" (policy.py:171): a node that*)
(* a guard took out of service more than Stale ago, with or without an      *)
(* answer, be it another replica or before a restart, and nobody has put    *)
(* back since, is shown as unschedulable by every replica, whatever its     *)
(* conditions say by now; or else the replica is seen to fail, because its  *)
(* loops raise, stand down or take long.                                    *)
LossIsSaid ==
  \A g \in Replica : \A n \in Node :
    /\ taken[n] # NoTime
    /\ clock - taken[n] > Stale
    => n \in node_states[g] \/ SeenToFail(g)
=============================================================================

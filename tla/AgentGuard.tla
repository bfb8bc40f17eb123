----------------------------- MODULE AgentGuard -----------------------------
(***************************************************************************)
(* The two programs together, on one node: gpu-health-agent's loop (Agent) *)
(* turns kernel-log lines and stuck tasks into the Node's conditions, and  *)
(* gpu-node-guard's loop reads these from the API server, decides by       *)
(* policy.py (GuardPolicy) and cordons.  The Node object is all they share.*)
(*                                                                         *)
(* The clock waits for both: a round of the agent, from one collection's   *)
(* beginning to the next one's, and a loop of the guard take a bounded     *)
(* time, whatever part of it is spent in which request.  The guard leads,  *)
(* and the fleet's floor and budget leave room for the node.               *)
(***************************************************************************)
EXTENDS Agent

CONSTANTS
  CONDITION_MIN_AGE_SECONDS,
  LOOP_INTERVAL_SECONDS,
  MaxRound,    \* bound on the time from one collection to the next
  MaxLoop,     \* bound on the time from one loop of the guard to the next
  MaxFaults    \* bound on collections and requests that fail

ASSUME AgentGuardAssumption ==
  /\ CONDITION_MIN_AGE_SECONDS \in Nat
  /\ LOOP_INTERVAL_SECONDS \in Nat \ {0}
  /\ MaxRound \in Nat \ {0}
  /\ MaxLoop \in Nat /\ MaxLoop >= LOOP_INTERVAL_SECONDS
  /\ MaxFaults \in Nat

VARIABLES
  unschedulable,  \* the Node's spec.unschedulable
  gstep,          \* where the guard's loop is
  gnow,           \* the `now` of the loop, kept until the next one starts
  gview,          \* the conditions it has listed
  faults,         \* how many collections and requests have failed
  said,           \* history: for each condition, when the row of reports that say "True"
                  \* up to the latest one began, over all lives of the agent
  shown,          \* history: the same up to the report that is on the Node
  gshown,         \* history: the same up to the report that the guard has listed
  restarted       \* history: whether the agent has restarted

guardVars == <<unschedulable, gstep, gnow, gview, gshown>>
saidVars == <<said, shown, restarted>>
allVars == <<agentVars, guardVars, faults, saidVars>>

Policy ==
  INSTANCE GuardPolicy WITH
    Node <- {1}, MODE <- "enforce", ENFORCE_NODES <- {},
    MIN_HEALTHY_NODES <- 0, MAX_CORDONS_PER_WINDOW <- 1,
    RATE_LIMIT_WINDOW_SECONDS <- 1

Rows == [ALL_CONDITIONS -> Time]
NoRow == [c \in ALL_CONDITIONS |-> NoTime]

AgentGuardTypeOK ==
  /\ AgentTypeOK
  /\ unschedulable \in BOOLEAN
  /\ gstep \in {"idle", "list", "cordon"}
  /\ gnow \in 0..MaxClock
  /\ gview \in [ALL_CONDITIONS -> NodeCondition]
  /\ faults \in 0..MaxFaults
  /\ said \in Rows
  /\ shown \in Rows
  /\ gshown \in Rows
  /\ restarted \in BOOLEAN

AgentGuardInit ==
  /\ AgentInit
  /\ unschedulable = FALSE
  /\ gstep = "idle"
  /\ gnow = 0
  /\ gview = Nothing
  /\ faults = 0
  /\ said = NoRow
  /\ shown = NoRow
  /\ gshown = NoRow
  /\ restarted = FALSE

-----------------------------------------------------------------------------
(* The agent.                                                              *)

Built ==
  /\ BuildReport
  /\ said' = [c \in ALL_CONDITIONS |->
               IF detail[c] # "True" THEN NoTime
               ELSE IF said[c] = NoTime THEN clock ELSE said[c]]
  /\ UNCHANGED <<shown, restarted, guardVars, faults>>

Delivered ==
  /\ Patch(TRUE)
  /\ shown' = said
  /\ UNCHANGED <<said, restarted, guardVars, faults>>

Restarted ==
  /\ RestartAgent
  /\ restarted' = TRUE
  /\ UNCHANGED <<said, shown, guardVars, faults>>

AgentStep ==
  \/ (Collect \/ Evaluate \/ NotDue \/ NothingToPublish \/ World)
       /\ UNCHANGED <<saidVars, guardVars, faults>>
  \/ Built \/ Delivered \/ Restarted

AgentStumbles ==
  /\ faults < MaxFaults
  /\ faults' = faults + 1
  /\ CollectRaises \/ Patch(FALSE)
  /\ UNCHANGED <<saidVars, guardVars>>

-----------------------------------------------------------------------------
(* The guard.                                                              *)

\* The loop before it started an interval ago.
StartLoop ==
  /\ gstep = "idle"
  /\ clock >= gnow + LOOP_INTERVAL_SECONDS
  /\ gstep' = "list"
  /\ gnow' = clock
  /\ UNCHANGED <<unschedulable, gview, gshown>>

\* What policy.py sees of a Node with these conditions.
Snapshot(view) ==
  [ready |-> TRUE, unschedulable |-> unschedulable,
   cond |-> [c \in ALL_CONDITIONS |->
              [status |-> view[c].status = "True", since |-> view[c].since]]]

Cordons(view) == Policy!Reason([n \in {1} |-> Snapshot(view)], 1, gnow, 1) = "cordon"

\* The fleet is listed, and decide looks at it.
List ==
  /\ gstep = "list"
  /\ gview' = node
  /\ gshown' = shown
  /\ gstep' = IF Cordons(node) THEN "cordon" ELSE "idle"
  /\ UNCHANGED <<unschedulable, gnow>>

Cordon ==
  /\ gstep = "cordon"
  /\ unschedulable' = TRUE
  /\ gstep' = "idle"
  /\ UNCHANGED <<gnow, gview, gshown>>

GuardStep ==
  /\ StartLoop \/ List \/ Cordon
  /\ UNCHANGED <<agentVars, saidVars, faults>>

\* A request fails; what was left of the loop is left out.
GuardStumbles ==
  /\ gstep # "idle"
  /\ faults < MaxFaults
  /\ faults' = faults + 1
  /\ gstep' = "idle"
  /\ UNCHANGED <<agentVars, saidVars, unschedulable, gnow, gview, gshown>>

-----------------------------------------------------------------------------

Timely == clock < now + MaxRound /\ clock < gnow + MaxLoop

\* A cordon ends the story: the guard has no more to do with this node.
TimePasses ==
  /\ Timely
  /\ ~unschedulable
  /\ Tick
  /\ UNCHANGED <<guardVars, saidVars, faults>>

AgentGuardNext ==
  AgentStep \/ AgentStumbles \/ GuardStep \/ GuardStumbles \/ TimePasses

AgentGuardSpec == AgentGuardInit /\ [][AgentGuardNext]_allVars

-----------------------------------------------------------------------------
(* Properties.                                                             *)

(* "The age of that timestamp already IS the dwell time" (policy.py:110):   *)
(* when the guard goes to cordon, the condition that made it do so is as old*)
(* as CONDITION_MIN_AGE_SECONDS in an unbroken row of reports, from the one *)
(* that carried the stamp to the one on the Node, none of which, delivered  *)
(* or not, by this process or another, says otherwise.                      *)
DwellHeld ==
  gstep = "cordon" =>
    \E c \in Policy!Trigger :
      /\ Policy!Triggers(Snapshot(gview), c)
      /\ gshown[c] # NoTime
      /\ gnow - gshown[c] >= CONDITION_MIN_AGE_SECONDS

\* What the publisher remembers, as what it has told.
Publisher ==
  INSTANCE ReportedConditions WITH
    Condition <- ALL_CONDITIONS,
    Unknown <- [status |-> Unset, since |-> NoTime],
    told <- [c \in ALL_CONDITIONS |->
              [status |-> last_status[c], since |-> transitions[c]]],
    shown <- node,
    time <- clock

(* The age the guard goes by is the agent's to keep: through lost PATCHes   *)
(* and restarts, beside collections that raise, the Node says of all        *)
(* conditions at once what one process has told, with stamps that change    *)
(* only with the status and never go back (ConditionPublisher.publish).     *)
ImplementsReportedConditions == Publisher!Spec

(* The window outlasts the dwell: while the agent lives on, a condition that*)
(* a fatal line has put on the Node is not taken off it again before the    *)
(* guard has cordoned, with WINDOW_SECONDS large enough against the         *)
(* intervals, the dwell and the failures (conditions.py:71, policy.py:122). *)
CordonBeatsExpiry ==
  [][(/\ node["GPUUnrecoverable"].status = "True"
      /\ node'["GPUUnrecoverable"].status = "False"
      /\ ~restarted) => unschedulable]_allVars
=============================================================================

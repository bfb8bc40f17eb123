------------------------------- MODULE Agent -------------------------------
(***************************************************************************)
(* gpu-health-agent's main loop (main.py): Collector.collect_once around   *)
(* ConditionWindow, ConditionPublisher.publish, and the Node's conditions  *)
(* in the API server that gpu-node-guard reads.                            *)
(*                                                                         *)
(* A collection reads the kernel-log counts and the task census, then      *)
(* waits for the exporter, then evaluates; it may raise instead.  Every    *)
(* few collections the last evaluation that succeeded is turned into a     *)
(* report, stamped, and PATCHed; the PATCH may fail or lose its answer.    *)
(* The kernel-log watcher counts in its own thread all the while, and the  *)
(* container may restart with an empty memory at any point.                *)
(***************************************************************************)
EXTENDS KubeTime, ConditionWindow

CONSTANTS
  NODE_CONDITION_INTERVAL_SECONDS,
  Watched,       \* the log rules whose lines occur
  Disturbed,     \* the other troubles that come and go
  MaxLines,      \* bound on the lines a process counts of a rule
  MaxChanges,    \* bound on troubles coming and going, and on restarts
  MaxClock       \* bound of the clock

ASSUME AgentAssumption ==
  /\ NODE_CONDITION_INTERVAL_SECONDS \in Nat
  /\ Watched \subseteq LogRule
  /\ Disturbed \subseteq Trouble
  /\ MaxLines \in Nat
  /\ MaxChanges \in Nat
  /\ MaxClock \in Nat

VARIABLES
  clock,         \* time.time(), and the seconds of the report's stamp
  trouble,       \* what a census, a probe, a file check finds now
  changes,       \* how often that changed, or the container restarted
  counts,        \* KernelLogWatcher._counts
  node,          \* the Node's conditions in the API server
  step,          \* where the main loop is
  now,           \* `now` of the collection in progress
  seen,          \* the counts and troubles it has read and not judged
  history,       \* ConditionEvaluator._history
  detail,        \* Collector._state["condition_detail"]
  last_status,   \* ConditionPublisher._last_status
  transitions,   \* ConditionPublisher._transitions
  last_publish,
  booted,        \* whether the collection before the loop is over
  report         \* the conditions of the PATCH in progress

worldVars == <<trouble, changes>>
evaluatorVars == <<now, seen, history, detail>>
publisherVars == <<last_status, transitions, last_publish, report>>
loopVars == <<step, booted>>
agentVars == <<clock, worldVars, counts, node, loopVars, evaluatorVars,
               publisherVars>>

Unset == "unset"
Status == {"True", "False", Unset}

\* A condition of the Node, if it has it: its status and lastTransitionTime.  Nobody
\* reads lastHeartbeatTime.
NodeCondition ==
  {c \in [status: Status, since: Time] : c.status = Unset <=> c.since = NoTime}
Nothing == [c \in ALL_CONDITIONS |-> [status |-> Unset, since |-> NoTime]]
Unjudged == [c \in ALL_CONDITIONS |-> Unset]
NoCounts == [r \in LogRule |-> 0]
Unseen == [counts |-> NoCounts, trouble |-> {}]

AgentTypeOK ==
  /\ clock \in 0..MaxClock
  /\ trouble \in SUBSET Disturbed
  /\ changes \in Nat
  /\ counts \in Counts
  /\ node \in [ALL_CONDITIONS -> NodeCondition]
  /\ step \in {"collect", "evaluate", "publish", "patch", "wait"}
  /\ booted \in BOOLEAN
  /\ now \in Nat
  /\ seen \in [counts: Counts, trouble: SUBSET Disturbed]
  /\ history \in Seq(Sample)
  /\ detail \in [ALL_CONDITIONS -> Status]
  /\ last_status \in [ALL_CONDITIONS -> Status]
  /\ transitions \in [ALL_CONDITIONS -> Time]
  /\ last_publish \in Time
  /\ report \in [ALL_CONDITIONS -> NodeCondition]
  /\ report # Nothing <=> step = "patch"

\* A process that has just started.
NewProcess ==
  /\ counts = NoCounts
  /\ step = "collect"
  /\ booted = FALSE
  /\ now = 0
  /\ seen = Unseen
  /\ history = <<>>
  /\ detail = Unjudged
  /\ last_status = Unjudged
  /\ transitions = [c \in ALL_CONDITIONS |-> NoTime]
  /\ last_publish = NoTime
  /\ report = Nothing

AgentInit ==
  /\ clock = 0
  /\ trouble \in SUBSET Disturbed
  /\ changes = 0
  /\ node = Nothing
  /\ NewProcess

-----------------------------------------------------------------------------
(* Deliberately wrong variants: each shows that a property can fail.       *)

\* A heartbeat moves the time of the transition too.
StampedEveryTime(c) == clock

\* The first stamp of the process stays.
StampedOnce(c) == IF transitions[c] = NoTime THEN clock ELSE transitions[c]

\* The stamp is taken before the flip is noticed.
StampedBefore(c) == transitions[c]

\* A report is sent before anything was judged.
JudgedAlways == TRUE

-----------------------------------------------------------------------------
(* Collector.collect_once.                                                 *)

\* The collection before the loop is followed by the loop's first at once.
AfterCollection == IF booted THEN "publish" ELSE "collect"

\* The loop sleeps for a second at least.
Rested == clock > now

\* The time, the counts, /proc and the state of the log files are read first...
Collect ==
  /\ step = "collect" \/ (step = "wait" /\ Rested)
  /\ step' = "evaluate"
  /\ now' = clock
  /\ seen' = [counts |-> counts, trouble |-> trouble \ {"probe"}]
  /\ UNCHANGED <<clock, worldVars, counts, node, booted, history, detail,
                 publisherVars>>

\* ... and everything is judged when the exporter has answered or timed out.
Evaluate ==
  LET kept == Sampled(history, now, seen.counts) IN
  /\ step = "evaluate"
  /\ step' = AfterCollection
  /\ booted' = TRUE
  /\ history' = kept
  /\ seen' = Unseen
  /\ detail' = [c \in ALL_CONDITIONS |->
                 IF Active(kept, seen.counts, seen.trouble \cup (trouble \cap {"probe"}), c)
                 THEN "True" ELSE "False"]
  /\ UNCHANGED <<clock, worldVars, counts, node, now, publisherVars>>

\* A source raises: the state of the last good collection stays.
CollectRaises ==
  /\ step = "evaluate"
  /\ step' = AfterCollection
  /\ booted' = TRUE
  /\ seen' = Unseen
  /\ UNCHANGED <<clock, worldVars, counts, node, now, history, detail,
                 publisherVars>>

-----------------------------------------------------------------------------
(* ConditionPublisher.publish, and the loop's sleep.                       *)

PublishDue ==
  \/ last_publish = NoTime
  \/ clock - last_publish >= NODE_CONDITION_INTERVAL_SECONDS

NotDue ==
  /\ step = "publish"
  /\ ~PublishDue
  /\ step' = "wait"
  /\ UNCHANGED <<clock, worldVars, counts, node, booted, evaluatorVars,
                 publisherVars>>

\* A collection has succeeded in this process's life.
Judged == detail # Unjudged

\* No collection has succeeded yet: publish returns.
NothingToPublish ==
  /\ step = "publish"
  /\ PublishDue
  /\ ~Judged
  /\ step' = "wait"
  /\ last_publish' = clock
  /\ UNCHANGED <<clock, worldVars, counts, node, booted, evaluatorVars,
                 last_status, transitions, report>>

\* lastTransitionTime: the time of the last flip.
Transition(c) == IF last_status[c] # detail[c] THEN clock ELSE transitions[c]

BuildReport ==
  /\ step = "publish"
  /\ PublishDue
  /\ Judged
  /\ step' = "patch"
  /\ transitions' = [c \in ALL_CONDITIONS |-> Transition(c)]
  /\ last_status' = detail
  /\ report' =
       [c \in ALL_CONDITIONS |-> [status |-> detail[c], since |-> Transition(c)]]
  /\ UNCHANGED <<clock, worldVars, counts, node, booted, evaluatorVars,
                 last_publish>>

\* The PATCH takes effect or not.  An answer that is lost changes nothing here: a
\* failure is only logged, and the next report carries everything again.
Patch(applied) ==
  /\ step = "patch"
  /\ step' = "wait"
  /\ node' = IF applied THEN report ELSE node
  /\ report' = Nothing
  /\ last_publish' = clock
  /\ UNCHANGED <<clock, worldVars, counts, booted, evaluatorVars, last_status,
                 transitions>>

\* The container restarts, after an error publish does not catch for instance.
\* What the Node says stays.
RestartAgent ==
  /\ changes < MaxChanges
  /\ changes' = changes + 1
  /\ counts' = NoCounts
  /\ step' = "collect"
  /\ booted' = FALSE
  /\ now' = 0
  /\ seen' = Unseen
  /\ history' = <<>>
  /\ detail' = Unjudged
  /\ last_status' = Unjudged
  /\ transitions' = [c \in ALL_CONDITIONS |-> NoTime]
  /\ last_publish' = NoTime
  /\ report' = Nothing
  /\ UNCHANGED <<clock, trouble, node>>

-----------------------------------------------------------------------------
(* Everything else.                                                        *)

\* The watcher's thread counts a line that matches a rule.
CountLine(r) ==
  /\ counts[r] < MaxLines
  /\ counts' = [counts EXCEPT ![r] = @ + 1]
  /\ UNCHANGED <<clock, worldVars, node, loopVars, evaluatorVars, publisherVars>>

ComesOrGoes(t) ==
  /\ changes < MaxChanges
  /\ changes' = changes + 1
  /\ trouble' = IF t \in trouble THEN trouble \ {t} ELSE trouble \cup {t}
  /\ UNCHANGED <<clock, counts, node, loopVars, evaluatorVars, publisherVars>>

Tick ==
  /\ clock < MaxClock
  /\ clock' = clock + 1
  /\ UNCHANGED <<worldVars, counts, node, loopVars, evaluatorVars, publisherVars>>

AgentGoes ==
  \/ Collect
  \/ Evaluate
  \/ NotDue
  \/ NothingToPublish
  \/ BuildReport
  \/ Patch(TRUE)

AgentFails == CollectRaises \/ Patch(FALSE) \/ RestartAgent

World ==
  \/ \E r \in Watched : CountLine(r)
  \/ \E t \in Disturbed : ComesOrGoes(t)

AgentNext == AgentGoes \/ AgentFails \/ World \/ Tick

AgentSpec == AgentInit /\ [][AgentNext]_agentVars

=============================================================================

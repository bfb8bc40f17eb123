------------------------- MODULE ExporterSupervisor -------------------------
(***************************************************************************)
(* ExporterSupervisor.evaluate of gpu-node-guard (supervisor.py) and       *)
(* Guard._run_exporters around it (main.py), in the one replica that       *)
(* leads.                                                                  *)
(*                                                                         *)
(* A loop lists the exporter pods, scrapes them one after the other -      *)
(* seconds pass, pods change - and then sends the deletes it decided on.   *)
(* All of it is judged by the time the loop started.  The two dicts        *)
(* outlive the loop: since when a pod does not answer, and when a delete   *)
(* was last decided on a node.  A loop that does not get this far (not the *)
(* leader, API server away) leaves them as they are, so nothing here       *)
(* forces a loop to start.                                                 *)
(***************************************************************************)
EXTENDS KubeTime

CONSTANTS
  Pod,       \* names of exporter pods, numbered in the order of the LIST
  Node,
  NodeOf,    \* spec.nodeName
  MODE,
  EXPORTER_SUPERVISION_ENABLED,
  EXPORTER_UNREACHABLE_SECONDS,
  EXPORTER_DELETE_COOLDOWN_SECONDS,
  MaxClock,     \* bound of the clock
  MaxChanges    \* bound on what pods do by themselves

ASSUME SupervisorAssumption ==
  /\ Pod \subseteq Nat
  /\ NodeOf \in [Pod -> Node]
  /\ EXPORTER_SUPERVISION_ENABLED \in BOOLEAN
  /\ EXPORTER_UNREACHABLE_SECONDS \in Nat
  /\ EXPORTER_DELETE_COOLDOWN_SECONDS \in Nat
  /\ MaxClock \in Nat
  /\ MaxChanges \in Nat

VARIABLES
  clock,      \* time.time()
  pods,       \* what each pod really is
  changes,    \* how often that changed without the guard
  stage,      \* where in _run_exporters the loop is
  start,      \* `now` of the current or the last loop
  listed,     \* the pods as the LIST showed them
  todo,       \* listed pods not yet looked at
  doomed,     \* pods decided to delete, request not yet sent
  unreachable_since,  \* NoTime: not in the dict
  last_delete,        \* NoTime: not in the dict
  silence,    \* history: the loops in which the pod failed a scrape since it
              \* last answered one
  sent        \* history: delete requests of this process's life

podVars == <<pods, changes>>
loopVars == <<stage, start, listed, todo, doomed>>
dictVars == <<unreachable_since, last_delete>>
pastVars == <<silence, sent>>
supervisorVars == <<clock, podVars, loopVars, dictVars, pastVars>>

\* "waiting": any phase but Running, or Running without an IP: `evaluate` treats
\* them alike.  A Running pod with an IP answers, or does not, or sends bytes that
\* are no HTTP response.  Names never come back.
PodState == {"unborn", "waiting", "answers", "silent", "garbled", "gone"}

Exists(p) == pods[p] \notin {"unborn", "gone"}

\* The LIST shows the phase and the IP, not whether the exporter answers.
Shown == {"absent", "waiting", "running"}

Request == [pod: Pod, at: 0..MaxClock]

SupervisorTypeOK ==
  /\ clock \in 0..MaxClock
  /\ pods \in [Pod -> PodState]
  /\ changes \in Nat
  /\ stage \in {"idle", "list", "scrape", "delete"}
  /\ start \in Time
  /\ listed \in [Pod -> Shown]
  /\ todo \in SUBSET Pod
  /\ doomed \in SUBSET Pod
  /\ unreachable_since \in [Pod -> Time]
  /\ last_delete \in [Node -> Time]
  /\ silence \in [Pod -> SUBSET Nat]
  /\ sent \in SUBSET Request

SupervisorInit ==
  /\ clock = 0
  /\ pods \in [Pod -> {"unborn", "answers", "silent"}]
  /\ changes = 0
  /\ stage = "idle"
  /\ start = NoTime
  /\ listed = [p \in Pod |-> "absent"]
  /\ todo = {}
  /\ doomed = {}
  /\ unreachable_since = [p \in Pod |-> NoTime]
  /\ last_delete = [n \in Node |-> NoTime]
  /\ silence = [p \in Pod |-> {}]
  /\ sent = {}

-----------------------------------------------------------------------------
(* Deliberately wrong variants: each shows that a property can fail.       *)

\* An answer does not clear the clock.
ClockAfterAnswer(p) == unreachable_since

\* Every pod has a cooldown of its own.
CoolingPod(p) ==
  \E r \in sent : r.pod = p /\ start - r.at < EXPORTER_DELETE_COOLDOWN_SECONDS

\* A node once deleted from is left alone for good.
CoolingForGood(p) == last_delete[NodeOf[p]] # NoTime

\* The LIST shows whether the exporter answers.
ShowAnswering(p) == IF Exists(p) THEN pods[p] ELSE "absent"

-----------------------------------------------------------------------------
(* One loop.                                                               *)

EndLoop ==
  /\ stage' = "idle"
  /\ listed' = [p \in Pod |-> "absent"]
  /\ todo' = {}
  /\ doomed' = {}
  /\ UNCHANGED start

\* run_forever sleeps at least one second between loops.
StartLoop ==
  /\ stage = "idle"
  /\ clock > start
  /\ stage' = "list"
  /\ start' = clock
  /\ UNCHANGED <<clock, podVars, listed, todo, doomed, dictVars, pastVars>>

Show(p) ==
  IF ~Exists(p) THEN "absent"
  ELSE IF pods[p] = "waiting" THEN "waiting" ELSE "running"

ListPods ==
  /\ stage = "list"
  /\ stage' = "scrape"
  /\ listed' = [p \in Pod |-> Show(p)]
  /\ todo' = {p \in Pod : Exists(p)}
  /\ UNCHANGED <<clock, podVars, start, doomed, dictVars, pastVars>>

\* `evaluate` goes through the list in order.
Looking(p) ==
  /\ stage = "scrape"
  /\ p \in todo
  /\ \A q \in todo : p <= q
  /\ todo' = todo \ {p}
  /\ UNCHANGED <<clock, podVars, stage, start, listed, sent>>

ClockCleared(p) == [unreachable_since EXCEPT ![p] = NoTime]

\* Not Running, or Running without an IP: no scrape, and the clock is cleared.
PassOver(p) ==
  /\ Looking(p)
  /\ listed[p] = "waiting"
  /\ unreachable_since' = ClockCleared(p)
  /\ UNCHANGED <<doomed, last_delete, silence>>

ClearedByAnswer(p) == ClockCleared(p)

Answered(p) ==
  /\ Looking(p)
  /\ listed[p] = "running"
  /\ pods[p] = "answers"
  /\ unreachable_since' = ClearedByAnswer(p)
  /\ silence' = [silence EXCEPT ![p] = {}]
  /\ UNCHANGED <<doomed, last_delete>>

\* unreachable_since.setdefault(name, now)
SinceWhen(p) ==
  IF unreachable_since[p] = NoTime THEN start ELSE unreachable_since[p]

PastGrace(p) == start - SinceWhen(p) >= EXPORTER_UNREACHABLE_SECONDS

Cooling(p) ==
  /\ last_delete[NodeOf[p]] # NoTime
  /\ start - last_delete[NodeOf[p]] < EXPORTER_DELETE_COOLDOWN_SECONDS

ToBeDeleted(p) ==
  /\ PastGrace(p)
  /\ ~Cooling(p)
  /\ EXPORTER_SUPERVISION_ENABLED
  /\ MODE = "enforce"

Unanswered(p) ==
  /\ Looking(p)
  /\ listed[p] = "running"
  /\ pods[p] \notin {"answers", "garbled"}
  /\ unreachable_since' = [unreachable_since EXCEPT ![p] = SinceWhen(p)]
  /\ silence' = [silence EXCEPT ![p] = @ \cup {start}]
  /\ IF ToBeDeleted(p)
     THEN /\ doomed' = doomed \cup {p}
          /\ last_delete' = [last_delete EXCEPT ![NodeOf[p]] = start]
     ELSE UNCHANGED <<doomed, last_delete>>

\* Pods that the LIST did not show are forgotten.
ForgetGone ==
  /\ stage = "scrape"
  /\ todo = {}
  /\ stage' = "delete"
  /\ unreachable_since' =
       [p \in Pod |-> IF listed[p] = "absent" THEN NoTime ELSE unreachable_since[p]]
  /\ UNCHANGED <<clock, podVars, start, listed, todo, doomed, last_delete, pastVars>>

\* The next DELETE request.  It is carried out, or refused, or hangs on a pod
\* that cannot die; the loop goes on whatever its answer is.
SendDelete(p, carriedOut) ==
  /\ stage = "delete"
  /\ p \in doomed
  /\ \A q \in doomed : p <= q
  /\ doomed' = doomed \ {p}
  /\ sent' = sent \cup {[pod |-> p, at |-> start]}
  /\ pods' = IF carriedOut /\ Exists(p) THEN [pods EXCEPT ![p] = "gone"] ELSE pods
  /\ UNCHANGED <<clock, changes, stage, start, listed, todo, dictVars, silence>>

FinishLoop ==
  /\ stage = "delete"
  /\ doomed = {}
  /\ EndLoop
  /\ UNCHANGED <<clock, podVars, dictVars, pastVars>>

\* The LIST, or the answer to a DELETE, raises: the rest of the loop is dropped.
RequestRaises ==
  /\ stage \in {"list", "delete"}
  /\ EndLoop
  /\ UNCHANGED <<clock, podVars, dictVars, pastVars>>

\* scrape_ok catches URLError, OSError and ValueError; http.client's own errors
\* (BadStatusLine, IncompleteRead) are none of these and end the loop, with the
\* deletes already decided not sent and the pods behind not looked at.
ScrapeRaises(p) ==
  /\ stage = "scrape"
  /\ p \in todo
  /\ \A q \in todo : p <= q
  /\ listed[p] = "running"
  /\ pods[p] = "garbled"
  /\ EndLoop
  /\ UNCHANGED <<clock, podVars, dictVars, pastVars>>

\* The container restarts: both dicts are empty again.
RestartSupervisor ==
  /\ EndLoop
  /\ unreachable_since' = [p \in Pod |-> NoTime]
  /\ last_delete' = [n \in Node |-> NoTime]
  /\ silence' = [p \in Pod |-> {}]
  /\ sent' = {}
  /\ UNCHANGED <<clock, podVars>>

-----------------------------------------------------------------------------
(* Everybody else.                                                         *)

\* Exporters hang, recover, lose their IP, are restarted, evicted, replaced.
PodChanges(p) ==
  /\ changes < MaxChanges
  /\ changes' = changes + 1
  /\ pods[p] # "gone"
  /\ \E s \in PodState \ {"unborn", pods[p]} : pods' = [pods EXCEPT ![p] = s]
  /\ UNCHANGED <<clock, loopVars, dictVars, pastVars>>

Tick ==
  /\ clock < MaxClock
  /\ clock' = clock + 1
  /\ UNCHANGED <<podVars, loopVars, dictVars, pastVars>>

LoopGoes ==
  \/ StartLoop
  \/ ListPods
  \/ \E p \in Pod : PassOver(p) \/ Answered(p) \/ Unanswered(p) \/ ScrapeRaises(p)
  \/ ForgetGone
  \/ \E p \in Pod, carriedOut \in BOOLEAN : SendDelete(p, carriedOut)
  \/ FinishLoop

LoopFails == RequestRaises \/ RestartSupervisor

SupervisorNext ==
  \/ LoopGoes
  \/ LoopFails
  \/ \E p \in Pod : PodChanges(p)
  \/ Tick

SupervisorSpec == SupervisorInit /\ [][SupervisorNext]_supervisorVars

-----------------------------------------------------------------------------
(* Properties.                                                             *)

(* A pod is only deleted after failing a scrape at least the whole grace    *)
(* period ago and, whatever restarts, missing IPs, lost loops and other     *)
(* pods came between, answering none since (unreachable_since).             *)
SilentThroughGrace ==
  \A p \in doomed :
    \E t \in silence[p] : start - t >= EXPORTER_UNREACHABLE_SECONDS

(* Two deletes a process sends for pods of one node are at least the        *)
(* cooldown apart, by the times of their loops: a replacement is not        *)
(* deleted because its predecessor was, and a pod that cannot die is not    *)
(* deleted in a loop (last_delete).                                         *)
CooldownKept ==
  \A r, s \in sent :
    (r # s /\ NodeOf[r.pod] = NodeOf[s.pod] /\ r.at <= s.at)
      => s.at - r.at >= EXPORTER_DELETE_COOLDOWN_SECONDS

=============================================================================

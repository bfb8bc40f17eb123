------------------------ MODULE MCExporterSupervisor ------------------------
(***************************************************************************)
(* The supervisor under a clock that never stops.                          *)
(*                                                                         *)
(* Only differences of times matter, and none beyond the longer of the two *)
(* durations: when the clock is at its bound, a tick moves every other time*)
(* one back instead, down to 0, and drops delete requests from before 0.   *)
(* That is exact as long as no loop in progress started that far back.     *)
(* Restarts and requests that raise are bounded; so are the pods' own      *)
(* changes.                                                                *)
(***************************************************************************)
EXTENDS ExporterSupervisor

CONSTANT MaxFaults  \* bound on restarts and on requests that raise

VARIABLE faults

foreverVars == <<supervisorVars, faults>>

\* A pod and its replacement: what a cooldown per node is about.
MCNodeOf == [p \in Pod |-> "n"]

Horizon ==
  IF EXPORTER_UNREACHABLE_SECONDS > EXPORTER_DELETE_COOLDOWN_SECONDS
  THEN EXPORTER_UNREACHABLE_SECONDS ELSE EXPORTER_DELETE_COOLDOWN_SECONDS

Back(t) == IF t > 0 THEN t - 1 ELSE t

Slide ==
  /\ clock = MaxClock
  /\ stage # "idle" => start > Horizon
  /\ start' = Back(start)
  /\ unreachable_since' = [p \in Pod |-> Back(unreachable_since[p])]
  /\ last_delete' = [n \in Node |-> Back(last_delete[n])]
  /\ silence' = [p \in Pod |-> {Back(t) : t \in silence[p]}]
  /\ sent' = {[r EXCEPT !.at = @ - 1] : r \in {s \in sent : s.at > 0}}
  /\ UNCHANGED <<clock, podVars, stage, listed, todo, doomed, faults>>

TimeRuns == (Tick /\ UNCHANGED faults) \/ Slide

Goes == LoopGoes /\ UNCHANGED faults

Stumbles ==
  /\ faults < MaxFaults
  /\ faults' = faults + 1
  /\ LoopFails

InitForever == SupervisorInit /\ faults = 0

NextForever ==
  \/ Goes
  \/ Stumbles
  \/ \E p \in Pod : PodChanges(p) /\ UNCHANGED faults
  \/ TimeRuns

(* Fairness: time passes, and the leader's loop goes on; its requests are   *)
(* answered or time out.                                                    *)
SpecForever ==
  InitForever /\ [][NextForever]_foreverVars
    /\ WF_foreverVars(TimeRuns) /\ WF_foreverVars(Goes)

\* Node n has a Running pod that does not answer, and no pod sends garbage.
Dead(n) ==
  /\ \E p \in Pod : NodeOf[p] = n /\ pods[p] = "silent"
  /\ \A p \in Pod : pods[p] # "garbled"

(* A dead exporter is deleted, and if it cannot die (a task wedged in the   *)
(* driver) its node is tried again after every cooldown, for ever: neither  *)
(* a delete nor its failure stops the clock (supervisor.py).                *)
DeadIsTriedAgain ==
  \A n \in Node :
    <>[]Dead(n) => []<>(stage = "delete" /\ \E p \in doomed : NodeOf[p] = n)
=============================================================================

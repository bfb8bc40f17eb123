-------------------------- MODULE MCGuardForever ---------------------------
(***************************************************************************)
(* The guard's loop under a clock that never stops, for liveness.          *)
(*                                                                         *)
(* Only differences of times matter, and none beyond the longest of the    *)
(* durations: when the clock is at its bound, a tick moves every time a    *)
(* whole second back, down to 0.  That is exact as long as no loop in      *)
(* progress started that far back, so a loop may not last longer than the  *)
(* rest of the range: requests have timeouts.  The histories, which        *)
(* nothing here reads, are dropped.                                        *)
(*                                                                         *)
(* A replica may vanish for good at any moment.  Restarts are left out and *)
(* what fails is bounded: what is shown holds from the last of them on,    *)
(* once the API server answers again.  Nobody but the guard touches the    *)
(* nodes: what is due stays due.                                           *)
(***************************************************************************)
EXTENDS GuardProperties

CONSTANT MaxFaults  \* bound on the vanished replicas and failed requests

VARIABLES
  gone,    \* replicas that are gone for good
  faults   \* how many of either there were

foreverVars == <<vars, gone, faults>>

Horizon ==
  CHOOSE d \in {LEASE_DURATION_SECONDS, RATE_LIMIT_WINDOW_SECONDS,
                CONDITION_MIN_AGE_SECONDS} :
    /\ d >= LEASE_DURATION_SECONDS
    /\ d >= RATE_LIMIT_WINDOW_SECONDS
    /\ d >= CONDITION_MIN_AGE_SECONDS

Back(t) ==
  IF t = NoTime THEN NoTime ELSE IF t >= SECOND THEN t - SECOND ELSE 0

BackInView(view) ==
  [n \in Node |->
    [view[n] EXCEPT !.cond =
       [c \in CondType |-> [@[c] EXCEPT !.since = Back(@)]]]]

BackInRecent(log) == {[c EXCEPT !.at = Back(@)] : c \in log}

Slide ==
  /\ clock = MaxClock
  /\ \A g \in Replica \ gone : phase[g] # "idle" => start[g] > Horizon + SECOND
  /\ clock' = clock + 1 - SECOND
  /\ lease' = [lease EXCEPT !.renewed = Back(@)]
  /\ start' = [g \in Replica |-> Back(start[g])]
  /\ wake' = [g \in Replica |-> Back(wake[g])]
  /\ nodes' = BackInView(nodes)
  /\ snap' = [g \in Replica |-> BackInView(snap[g])]
  /\ recent' = [g \in Replica |-> BackInRecent(recent[g])]
  /\ acted' = [g \in Replica |-> {}]
  /\ raised' = [g \in Replica |-> {}]
  /\ UNCHANGED <<fresh, phase, changes, step, todo, decision, budget,
                 queue, cordoned, total, past, gone, faults>>

Vanishes(g) ==
  /\ faults < MaxFaults
  /\ faults' = faults + 1
  /\ gone' = gone \cup {g}
  /\ phase' = [phase EXCEPT ![g] = "idle"]
  /\ start' = [start EXCEPT ![g] = 0]
  /\ fresh' = fresh \ {g}
  /\ ForgetLoop(g)
  /\ UNCHANGED <<clock, lease, wake, nodes, changes, recent, total, historyVars>>

Runs(g) == g \notin gone /\ Goes(g) /\ UNCHANGED <<gone, faults>>

Stumbles(g) ==
  /\ g \notin gone
  /\ faults < MaxFaults
  /\ faults' = faults + 1
  /\ Fails(g)
  /\ UNCHANGED gone

TimeRuns ==
  \/ Time_passes /\ UNCHANGED <<gone, faults>>
  \/ Slide

NextForever ==
  \/ \E g \in Replica : Runs(g) \/ Stumbles(g) \/ Vanishes(g)
  \/ TimeRuns

\* Every node is sick from the start: they compete for the budget.
InitForever ==
  /\ Init
  /\ \A n \in Node, c \in Signals : Active(nodes[n], c)
  /\ gone = {}
  /\ faults = 0

(* Fairness: time passes, and a replica that is there goes on: its sleep    *)
(* ends, its requests are answered or time out.                             *)
Fairness ==
  /\ WF_foreverVars(TimeRuns)
  /\ \A g \in Replica : WF_foreverVars(Runs(g))

SpecForever == InitForever /\ [][NextForever]_foreverVars /\ Fairness

(* Some replica leads again and again, even if the holder of the Lease is   *)
(* gone: acquire_or_renew takes an expired Lease over.                      *)
LeaderAgain == []<>(\E g \in Replica : Leading(g))

\* Every guardrail but the rate limit would let n be cordoned.
Due(n) ==
  /\ CordonWorthy(nodes[n])
  /\ ~Active(nodes[n], "GPUHealthDataStale")
  /\ ~BelowFloor(nodes, n)

(* A node that is due and stays due ends up cordoned, although each loop    *)
(* spends its budget from the start of the list, requests fail and the      *)
(* replica that decided may be gone before it acts.                         *)
DueNodeCordoned ==
  \A n \in Node : (<>[]Due(n)) => <>[](nodes[n].unschedulable)
=============================================================================

# gpu-node-health: specifications, checks and proofs

A TLA+ development beside `gpu-node-health`: models of the guard that cordons
nodes, of the supervisor that deletes dead exporter pods, and of the agent that
watches a node and reports its conditions, of the two together, and of the tool
that records both. TLC checks them on small instances; TLAPS proves all the safety
properties that hold for every fleet, file history and setting.

Definitions carry the names of the code where TLA+ allows it. `PROJECT.json`
maps each of them to the lines it stands for.

## 1. The system

```
   kernel logs   /proc   exporter                 Lease
        \          |       /                        |
   gpu-health-agent (one per node)        gpu-node-guard (1 replica, *)
        \                                   |             |
         `--> Node.status.conditions ------>|             | list, scrape, delete
                                            v             v
                                    spec.unschedulable   exporter pods
```

The agent writes conditions to the Node, the guard reads them there; this is
the only thing between the two. The guard also looks after the exporter that
the agent scrapes. (*) `deploy/guard/guard-deployment.yaml` asks for one
replica, recreated; the Lease is there for those that overlap all the same, and
the election is modelled and proved for any number of them.

| component | state it keeps | operations | what is hard | what makes it correct |
|---|---|---|---|---|
| guard, leader election (`main.py` `Leader`, `k8s.py`) | the Lease in the API server; `is_leader` | `acquire_or_renew`: GET, judge, POST or PUT | requests delayed between the two, answers lost, replicas, crashes; a `renewTime` of whole seconds | one fresh leader; no theft; a new leader in the end |
| guard, policy (`policy.py`) | none | `decide` over a snapshot | several decisions from one snapshot, order of the guardrails | floor, budget, dwell time |
| guard, node loop (`main.py` `Guard`) | `_recent_cordons`, `cordons_total` | list, decide, PATCH, prune, publish | stale snapshot, half-failed loops, restart without memory | rate limit as its history keeps it; floor; a count that is off by known cordons only |
| guard, exporter supervisor (`supervisor.py`) | `_unreachable_since`, `_last_delete` | list, scrape, delete | clocks that outlive loops and pods; failing deletes | deletes only what stayed silent; never in a loop, never gives up |
| guard, metrics (`metrics.py`, `node_states`) | the view last published | `_state.update`, render | loops that raise leave the view, loops that defer freshen it | what was taken out of service is said, or the guard is seen to fail |
| guard, Kubernetes client, HTTP, configuration | token; nothing | requests | - | (part of the others) |
| agent, kernel-log watcher (`signals/kernlog.py`) | handles and offsets, counts | follow, match, count, in a thread | rotation and truncation between any two calls; thread death | no line twice; what an open file held when it was renamed is counted; death is visible |
| agent, D-state census (`signals/dstate.py`) | `_since` per (tid, starttime) | scan `/proc` | tasks change while scanned; reads that fail, are refused or give nothing | stuck is what a row of censuses found, and finds every wait it did not miss; refusals show |
| agent, exporter probe and resolver (`signals/exporter.py`) | cached endpoint | `url`, `invalidate`, `collect` | pods that move, EndpointSlices that lag, addresses that are given out again | another node's GPUs only under an address that was ours; heals in one collection |
| agent, patch counters (`signals/patchctr.py`) | none | read sysfs | - | - |
| agent, condition evaluator (`conditions.py`) | deque of samples | `evaluate` | window boundary, gaps | active exactly when counted in the window |
| agent, collector and publisher (`main.py`) | last good state; `_last_status`, `_transitions` | `collect_once`, `publish`, main loop | collections that raise, PATCHes that fail, restarts | transition time is the time of the flip |
| stress recorder (`tools/stress-recorder.py`) | both pods' addresses; the row | sample, re-resolve, take the marker | two endpoints that fail each on its own; an echo that races open, read, unlink | each recovers; a marker lands once, in the next row |
| manifests, alerts, dashboards | - | - | - | not modelled (two alert rules are read in `GuardView`) |
| kernel patches (`kernel-patches/`) | the D4 map of contexts, fences | diffs against a driver not in the repository | locking, clock heuristics | not modelled |

## 2. Modules

| module | models | read with |
|---|---|---|
| `KubeTime` | timestamps, possibly absent | `k8s.parse_time` |
| `GuardLease` | the election among replicas, request by request | `Leader.acquire_or_renew`, `run_forever` |
| `GuardPolicy` | `policy.py` as operators | `trigger_level`, `healthy_capacity`, `decide` |
| `Guard` (EXTENDS both) | the node loop in every replica, and the other writers of the Node objects | `loop_once`, `_run_nodes` |
| `CordonBudget` | abstract: a log of cordons at the times they took effect, made in rounds, each only while those held against its round leave room | the promise of the rate limit |
| `GuardProperties` | the properties of `Guard`; refinement of `CordonBudget` | |
| `GuardView` (EXTENDS `GuardProperties`) | what a replica publishes, superposed on `Guard` | `_state`, `node_states`, `render` |
| `ExporterSupervisor` | one leader's exporter half of the loop, and the pods | `evaluate`, `_run_exporters`, `scrape_ok` |
| `KernelLog` | the watcher's thread, and the files under it | `_run`, `_pump`, `_consume` |
| `DStateCensus` | the scan, and the tasks under it | `collect` |
| `ConditionWindow` | the evaluator as operators | `evaluate` |
| `Agent` (EXTENDS `ConditionWindow`) | collect, evaluate, publish; the Node; the watcher's counting | `collect_once`, `publish`, `main` |
| `ExporterProbe` | the probe's cached address, against pods and EndpointSlices | `url`, `invalidate`, `collect` |
| `AgentGuard` (EXTENDS `Agent`, INSTANCE `GuardPolicy`) | both programs around one Node | both main loops |
| `ReportedConditions` | abstract: a reporter of Node conditions whose stamps are its flips | the promise of `ConditionPublisher.publish` |
| `StressRecorder` | the recorder's samples, the pods it polls, the operator's shell | `main`, `resolve_pods`, `take_marker` |
| `MC*` | instances for TLC: symmetry, a sliding clock; `MCAgent` adds the history its properties speak of | |
| `GuardProofs`, `GuardCordonProofs` | theorems about election and loop; about cordons, floor and view. The second EXTENDS the first | |
| `SupervisorProofs`, `KernelLogProofs`, `CensusProofs`, `ExporterProbeProofs`, `RecorderProofs` | theorems about one component each | |
| `AgentProofs` | theorems about `MCAgent` and `AgentGuard` | |

How state and actions correspond to the code:

- *Locals* of a function that is interrupted are variables (`snap`, `queue`,
  `start`, `seen`, `report`) and are reset when the function returns; *fields*
  of objects are variables that a restart resets; *history variables* (`acted`,
  `raised`, `past`, `silence`, `sent`, `due`, `log`, ...) record what the properties speak of
  and no action reads them.
- One action is what happens between two points at which another process, or
  the environment, can be noticed: one request, one pod, one task, one read. A
  request has up to three outcomes: done and answered, done and the answer
  lost, not done.
- Time is a clock in scaled-down seconds that ticks between any two steps, so
  every call may take any time. Replicas and API server share it: skew between
  nodes, and clocks set back, are not modelled.
- In the guard's modules the clock ticks `SECOND` times a second, and a time that
  goes to the API server and comes back loses its fraction (`Whole`): `rfc3339_micro`
  writes six zeros, `parse_time` cuts them off, and `acquire_or_renew` compares what
  is left with a `time.time()` that has a fraction. In the other modules a tick is a
  whole second, so a stamp that the code cuts may be up to a second earlier there.
- In `Guard`, a `Decide` per node runs in list order, and `decide`'s rate-limit
  budget is spent in that order. The exporter half of the loop is one step that
  succeeds or aborts the loop: what it does is `ExporterSupervisor`.
- In `Agent`, a rule's lines are counted by `CountLine`, and tasks and exporter are in
  trouble or not; how these signals come about is `KernelLog` and
  `DStateCensus`.
- In `AgentGuard`, the guard's loop is start, list-and-decide, PATCH; the rest of the
  fleet, the Lease, the floor and the budget leave room for the node, and the
  decision is `GuardPolicy`'s `Reason` itself.
- In `ExporterProbe`, a body is the node whose GPUs it lists, and a pod answers or
  not whatever kubelet says of it.
- In `StressRecorder`, the marker file is a path and inodes: the shell opens
  (creating or emptying) and writes, the recorder opens, reads and unlinks.
- In `DStateCensus`, a wchan is where the task waits, nothing (the task is gone, runs,
  or the read failed or gave "0" although it waits) or a refusal.
- In `KernelLog`, a line is the number of the kernel event it reports. A file is
  read to its end in one step; opens, stats and drains are steps of their own.

## 3. Runs

`tlc -config X.cfg M`; each run takes between a second and two and a half minutes.

| run | module, cfg | question | result |
|---|---|---|---|
| `guard` | `GuardView`, `Guard.cfg` | `RateLimit`, `ImplementsCordonBudget`, `FloorTogether`, `FloorKept`; `CountExact`: `cordons_total` is the answered cordons of the loops that did not raise; `LossIsSaid`: a node taken out of service longer than the staleness limit ago is shown as such by every replica that is not seen to fail. | holds |
| `guard_forever` | `MCGuardForever`, `GuardForever.cfg` | `OneFreshLeader`: of replicas whose own `renewTime` is no older than the lease, one is at work. `NoTheft`: the holder changes only after the stored `renewTime` has expired, judged at the write. `LeaderAgain`, `DueNodeCordoned` | holds |
| `supervisor` | `MCExporterSupervisor`, `ExporterSupervisor.cfg` | `SilentThroughGrace`, `CooldownKept`, `DeadIsTriedAgain` | holds |
| `kernel_log` | `MCKernelLog`, `KernelLog.cfg` | `CountedOnce`, `NothingLeftBehind`, `DeadWatcherIsVisible`, `FollowsTheFile` | holds |
| `dstate` | `DStateCensus`, `DStateCensus.cfg` | `StuckAsSeen`: what is reported stuck is what an unbroken row of censuses found. `WaitedIsStuck`: a task that really waited that long is reported, unless a read missed it. `BlindnessShows`: a task in its place is classified by where it waits, unless its wchan was refused or gave nothing | holds |
| `agent` | `MCAgent`, `Agent.cfg` | `TransitionIsTheFlip`, `ActiveExactlyInWindow` | holds |
| `agent_guard` | `AgentGuard`, `AgentGuard.cfg` | `DwellHeld`: a cordon rests on an unbroken row of reports, built by whichever process, as long as the dwell. `ImplementsReportedConditions`: the Node holds whole reports of one process, stamped at its flips, and no stamp goes back. `CordonBeatsExpiry`: the window does not take the condition back before. | holds |
| `exporter_probe` | `MCExporterProbe`, `ExporterProbe.cfg` | `MisattributedOnlyByReuse`, `SelfHeals` | holds |
| `recorder` | `StressRecorder`, `StressRecorder.cfg` | `EachRecovers`, `LandsInNext`, `OnceInOrder` | holds |
| `lease_overlap` | `GuardLease`, `GuardLeaseOverlap.cfg` | "a Lease so only one replica ever acts" (`main.py:4`) | violated |
| `guard_restart` | `GuardProperties`, `GuardRestart.cfg` | "1 / hour" (`guard/README.md:55`) | violated |
| `agent_all_clear` | `MCAgent`, `AgentAllClear.cfg` | "No MES/reset/VRAM-loss events in the last ...s" (`conditions.py:99`) | violated |

The three disagreements, in words:

- *Overlap.* A loop reads the Lease once. A loop that outlasts the lease - 30 s,
  with requests of up to 10 s each - works on beside its successor. What does
  hold is `OneFreshLeader`. The rate limit and the floor hold per replica.
- *Restart.* `_recent_cordons` is in memory, so the limit is one per process's
  life and window, not one per hour. `FleetRateLimit` counts answered cordons at the
  times they took effect.
- *All-clear.* The agent publishes its last good evaluation however old it is,
  with a fresh heartbeat, and a window that started with its own process. After
  collections that raised, or a restart, "no events in the last 900 s" can be
  published minutes after an event was counted.

Five more things the code does that a reader of its docs may not expect. They are part of
the models, and the properties are worded around them:

- *The second that is cut off.* A loop that starts at 0.9 renews the Lease at 0, and a
  loop that starts at 30.4 may take it, when the first is 29.5 s old. So two replicas in
  loops younger than the lease can be at work, for less than a second.
  `OneFreshLeader` is about the `renewTime` and therefore says that there is one leader
  among loops younger than the lease by a second; `NoTheft` is about the `renewTime`
  stored.
- *When a cordon counts.* `_recent_cordons` has the start of the loop, not the time of
  the PATCH. A loop that began at 1 and PATCHes at 2 is out of a window of 2 for a
  loop that begins at 3: three cordons can land within two ticks under a limit of 2. A
  cordon whose answer was lost is not in it at all (`main.py:165`). `RateLimit` and
  `CordonBudget` say what is left: at each cordon, those of its own loop, answered or
  not, and the answered ones of loops that began less than a window before are within the
  limit. "1 / hour" in `guard/README.md:55` is not that, also within one process.
- *What `cordons_total` misses*: the cordons whose answer was lost, and those of a loop that
  raised later, when an exporter pod was looked at (`main.py:213`). "Cordons actually
  performed" (`metrics.py:90`) is more than it counts; `CountExact` says by how much.
- *What the census does not see.* A task that leaves D and is back before the next census
  keeps its clock ("continuously", `dstate.py:157`); a task whose stat could not be
  read once loses it, though it never left D (`dstate.py:260`).
- *A wchan that gives nothing*, for a task in D, leaves its name to decide as a refusal
  does, and unlike a refusal nothing says so (`dstate.py:151`).

### Bounds, and why they are enough

| run | bounds | what they let happen |
|---|---|---|
| `guard` | 1 replica, 3 nodes, limit 2 in 2 ticks, floor 1, clock to 3, 1 outside change, metrics stale after 1 | three loops and more, a full budget, a PATCH that lands long after its loop started or loses its answer, an entry on either side of the window's end and exactly on it, a node that a human frees and a later loop cordons again, a loop that raises after it has cordoned, the floor reached by the second cordon of a loop. Replicas share no memory but the Lease, which `guard_forever` covers; the proofs cover any number of them, which matters for `LossIsSaid`. |
| `guard_forever` | 2 replicas, 2 nodes, limit 1, 1 fault, a clock of halves of a second, all durations 1 s, sliding clock | the holder vanishes in any step; the second node has to wait for the window; a loop that starts on a half and whose `renewTime` is cut; a loop that outlasts the Lease (before the clock first slides, which with this range it does only between loops) |
| `supervisor` | a pod and its replacement on a node, grace 1, cooldown 2, 2 pod changes, 1 fault, sliding clock | a delete of the replacement within its predecessor's cooldown; aborted loops at any step; a pod that flaps |
| `kernel_log` | 1 path, 3 files, 3 events, 1 truncation, 1 failing call | two rotations in a row, a rotation of a truncated file, an open that fails after the close; paths share nothing but the thread |
| `dstate` | 2 tasks, stuck after 2, clock to 3, 2 changes, 1 failed read | a reused tid, a wait that ends and begins again, also between two censuses, a census or a task missed within a row, a wchan that is told, refused or empty at each read, a task stuck for exactly the limit |
| `agent` | window 2, 2 lines, 1 trouble or restart, clock to 4 | lines that enter and leave the window, two of them within it or not, samples exactly as old as it, failing PATCHes around a flip, stale reports |
| `agent_guard` | window 7, dwell 2, both intervals 1, 1 line, 1 restart, 1 failure, clock to 10 | a failed PATCH or a restart anywhere between the line, the dwell and the cordon; the window's end. 7 is the least window for which `CordonBeatsExpiry` holds here: with 6 TLC finds the condition taken back first. The theorem asks for the sum `WindowOutlasts`, 11 here. |
| `exporter_probe` | 2 nodes, 3 addresses of which one is in both pools; no bound on steps | every pod gets every address of its pool again and again, also the neighbour's |
| `recorder` | 2 addresses of each kind, bounded pod changes and markers | both pods moved within one sample; an echo across a whole take; two markers in flight |

`MaxClock`, `MaxChanges`, `MaxFaults`, `MaxCuts`, `MaxFiles`, `MaxEvents`,
`MaxLines` and `MaxMarkers` are bounds of the models and
stand for nothing in the code. Where they let a run end, `CHECK_DEADLOCK FALSE`
says so (`agent`, `agent_guard`, `kernel_log`, `dstate`, `recorder`).

In `guard_forever` and `supervisor` the clock *slides*: at its bound a tick
moves every other time back by a second. Only differences count in the code, and none
beyond the longest duration, so this is exact as long as no loop in progress
is older than that; loops of the liveness runs are no longer, which
requests with timeouts justify.

### Fairness

- `guard_forever`: weak fairness of each replica that is there (`Runs`) and of
  time. `run_forever` never returns and catches every exception, its sleep ends, and
  its requests have timeouts. The API server's failures are finitely many: what is shown
  holds from the last of them on.
- `supervisor`: weak fairness of the leader's loop and of time, for the
  same reason; restarts, aborts and what pods do by themselves are finitely many.
- `kernel_log`: weak fairness of the thread, which polls for ever (`_run`).

No strong fairness, and none of any actor outside the repository.

`agent_guard` assumes no fairness but that time waits: a round of the agent and a
loop of the guard each take no longer than `MaxRound` and `MaxLoop`, however
that is spread over their requests (`Timely`). Requests have timeouts in the code;
a round that takes longer than the settings allow for is what
`CordonBeatsExpiry` cannot exclude.

## 4. Proofs

Every theorem is about every value of the constants, under the assumptions named in
the modules: naturals where the code reads a duration or a count, a finite fleet of
numbered nodes, files that are numbered (`LeaseAssumption`, `PolicyAssumption`,
`GuardAssumption`, `StaleAssumption`, `SupervisorAssumption`, `CensusAssumption`,
`WindowAssumption`, `AgentAssumption`, `KernelLogAssumption`, ...). TLC evaluates
each on the runs. TLC has checked the properties first, and most of the inductive invariants below
(`ViewInv` also with two replicas).

### The guard

- **Election** (`GuardProofs`). `LeaseInv` adds to the types: a version
  that is current was read by a loop allowed to write (`FreshMayWrite`); loops
  start and renewals happen in the past, a holder's renewals before its own loop
  (`StartsInOrder`); and a replica at work either holds the Lease, renewed at its
  start cut to the second, or has lost it to a loop that started more than the lease after
  that (`HeldOrLost`). Hence of any two at work one started more than the lease after the
  other's `renewTime` (`FarApart`), which is `OneFreshLeader`. What cutting does to an order
  of times is in three lemmas (`WholeIsEarlier`, `WholeAndRest`, `WholeIsReached`), for
  every `SECOND`. `OneFreshLeader` alone is
  not inductive: it does not say what a write in flight may do. `NoTheft`
  follows because time only moves on between the judgement and the write.
- **The guard runs the election** (`GuardProofs`, `GuardRunsTheElection`):
  `Spec => LeaseSpec`, step by step; so both results hold of the whole guard.
  `GuardTypeCorrect` is its type invariant.
- **Rate limit** (`GuardCordonProofs`). `GuardInv`: the budget left, the queue, and
  the cordons held against the loop, its own lost ones included, are together within the
  limit (`BudgetHeld`); the cordons of earlier loops were over when this one began
  (`Entries`); and an answered cordon that is not in the history any more began out of the
  window of this and of every later loop (`Forgotten`), so what `decide` counts is all that
  is held (`HistorySuffices`). The first is what one loop cannot break, the last what the
  prune cannot. A cordon that lands later than its loop began has only less held against
  it (`RoomKeepsLimit`), which takes the limit from where `decide` counted to where the
  PATCH takes effect: `RateLimitHolds`. `GuardImplementsCordonBudget`: the guard refines
  `CordonBudget`, whose log is of the times the PATCHes took effect.
- **Count** (`GuardCordonProofs`). The total and the loop's own count are kept apart
  (`Counted`, `Tallied`, `TalliedNow`); no two loops of a process start at one time and none
  cordons a node twice (`Entries`, `Distinct`), so a loop that raised is told by its start and
  takes exactly its own answered cordons out of the count. `CountExactHolds`.
- **Floor** (`GuardCordonProofs`). `decide` weighs each node without the others it
  has chosen. `FloorInv` keeps, for each chosen node, that the snapshot justifies it;
  a node worth cordoning is not among the serving ones in the first place
  (`NotServingNotCounted`), so all of them together leave the floor
  (`FloorTogetherHolds`), and so does each PATCH in an undisturbed
  fleet (`FloorKeptHolds`).
- **View** (`GuardCordonProofs`). `ViewRunsTheGuard`: the view adds nothing to what
  the guard does, so `GuardInv` is there to use. `ViewInv`: a node that was taken
  out and not freed is out (`TakenIsOut`); one that was taken out before a loop
  started is unschedulable in that loop's listing (`Listed`), and therefore in what
  a replica shows that leads since that loop (`Shown`). An earlier form of
  `LossIsSaid` counted from the start of the loop that cordoned. With several
  replicas that cannot be proved, because it is not so: a stalled loop PATCHes long after it started, and
  another replica has listed in between. The age now counts from when the PATCH took effect,
  answered or not, and the property is about every replica.

### The exporter supervisor

- **Types** (`SupervisorTypeInv`): a loop under way has a time that is past, nothing is
  decided before the scrapes nor about a pod still to be scraped.
- **Grace** (`GraceInv`): a clock that runs shows the time of a scrape that failed and
  that no answer has followed (`ClockIsSilence`). That is where a deletion comes
  from, whatever loops were lost between.
- **Cooldown** (`CooldownInv`): no delete was sent later than its node's last decision
  (`SentAfterDecision`), and what is decided and not yet sent is the last decision of its
  node, a cooldown after all that was sent there (`DecidedApart`). The dict is
  written at the decision, so an aborted loop can only make the distance longer.

### The agent

- **Kernel log** (`KernelLogProofs`), three invariants, each on top of the one before.
  `ReadingInv`: no two paths share a file, no file is longer than what was written,
  and a handle is closed without being replaced only where a path was recorded as failed; so a
  dead thread is visible. `OrderInv`: the lines behind the offset, and those of
  the file that comes next, are later than every line counted
  (`UnreadAhead`, `NextAhead`, `OpenAhead`), also when the offset is beyond the end
  of a truncated file; that is `CountedOnce`. `LeftInv`: in a file that was never truncated,
  what lies before the offset is counted or was skipped (`ReadIsCounted`), and what it held
  when it was renamed it still holds (`DueIsThere`); so letting go of it after the drain
  leaves nothing (`NothingLeftBehind`).
- **Census** (`CensusProofs`). `StuckInv`: what is remembered of a task is the time of
  the census that began the row in which it is still seen (`RowsKnown`), and nothing
  else is remembered between censuses (`Remembered`); with censuses in order of time, the threshold on what is
  remembered is the threshold on the row (`StuckAsSeenHolds`). `WaitsSeen`: every census that
  began while a wait was on, and missed no read of it, has found it; so the row is as long as
  the wait (`WaitedIsStuckHolds`). `BlindInv`: a task that has not changed since before the
  census is where its wchan was read (`SettledWaits`), it was read once (`LookedAtOnce`), and
  that was told, refused or empty (`SettledClassified`; `BlindnessShowsHolds`).
- **Window** (`AgentProofs`, `WindowInv`). The samples are in order of time and of
  counts (`InOrder`); the deque holds samples of this process, and every one it does not hold has expired
  (`AllOrExpired`). The increase since the oldest sample kept is therefore the largest since
  any in the window. The popleft loop drops a prefix of expired samples and stops at
  the first that is not, or at the last, which the proof takes from the least index
  that has not expired (`DroppedOf`).
- **Flip** (`AgentProofs`, `FlipInv`). What the publisher remembers of a condition is
  the first report of the last row of equal ones (`FlipOf`), and what it sends is what
  it remembers. `TransitionIsTheFlipHolds` has the hypothesis
  `NODE_CONDITION_INTERVAL_SECONDS # 0`: with an interval of zero the model, whose
  loop does not wait between two rounds, builds two reports in one second, which a stamp
  in seconds cannot tell apart. The default is 30 s (`config.py:106`), and the main loop
  sleeps `COLLECT_INTERVAL_SECONDS` between two rounds whatever this interval is (`main.py:265`).
- **Dwell** (`AgentProofs`, `DwellInv`). A status "True" in the publisher's memory, in the
  report, on the Node or in the guard's listing comes with a row of reports that began no later
  than its stamp (`RowsCover`, `RememberedRow`). The guard reads the stamp of the condition that made it act
  (`OldEnough`), so `DwellHeld` holds over lost PATCHes and restarts.
  `AgentGuardRunsTheAgent`: composed with the guard, the agent is the agent.
- **Exporter probe** (`ExporterProbeProofs`). For any fleet, addresses and
  pools. Of the addresses (`Traced`): what is listed, cached or being scraped for this node was
  once its exporter's, so whoever answers there has had one of them
  (`MisattributedOnlyByReuseHolds`). Of the collections (`Healing`): one in progress that could
  have reached the exporter has, if one before it missed, either a lookup ahead
  or the right address in hand (`SelfHealsHolds`). Neither property is inductive alone: they
  do not say what is cached.

- **Report** (`AgentProofs`, `ToldInv`). `ImplementsReportedConditions` takes what the
  publisher remembers (`_last_status`, `_transitions`) for what the abstract reporter has told, the
  Node for what it shows. The report in progress is what is told (`SendsTheTold`), and no
  stamp that is told is older than the Node's, whichever process put that
  there (`StampsInOrder`): a restarted agent stamps everything anew. Building a report is
  `Tell`, a PATCH that takes effect is `Show`, a restart is `NewProcess`, all else
  stutters.

### The agent against the guard

`CordonBeatsExpiryHolds` (`AgentProofs`, `RaceInv`) has two hypotheses:

- `WindowOutlasts`: the window is at least
  `interval + 3 * round + dwell + 2 * loop + MaxFaults * max(interval + 2 * round, loop)`,
  where a round and a loop are the longest there are (`MaxRound`, `MaxLoop`). With the defaults
  (window 900 s, interval 30 s, dwell 120 s), rounds of up to 40 s and loops of up to 60 s,
  the sum is 390 s and every failure adds 110 s: four of them are covered. All failures
  of the behaviour count, not only those on the way to the cordon.
- `"blind" \notin Disturbed`: for a node whose agent cannot read its logs the guard decides
  nothing by design (`GPUHealthDataStale`).

The argument follows one sample, the last before the lines (`Before`). As long as it
is in the deque, each evaluation finds the lines (`BeforeStays`, from `DequeInv`: the samples
are in order of their counts). Until the Node says "True", the report before is so old that the
next one will be out a bounded time after the sample (`Pending`); from then on, the guard's loop in
progress began before the condition was old enough, or it is the one that
cordons (`Dwelling`, with `OldCordons`: the policy has no other way out). `InTime` says that neither
program lags behind. Both bounds lie before the sample's expiry (`InTheWindow`); so what is on the Node
is still found when the guard cordons (`Race`). A failure moves the bounds on by what it
costs, one report or one loop (`Lost`). The bound is not tight: the
proof adds the worst of each part, which cannot all happen at once.

### The stress recorder

`RecorderInv` (`RecorderProofs`), for any number of pods, changes and markers:

- **Marker in order** (`Order`, `Inodes`). `take_marker` reads the inode the path still names, for
  only the recorder unlinks; what the file holds is later than what any row holds, and what
  the shell is about to write later still. So a marker lands once (`OnceInOrderHolds`).
- **Marker in the next row** (`Lands`). The marker that must be taken is followed from the
  file to the row and to the row written (`LandsInNextHolds`).
- **Recovery** (`Recovers`). What a sample that nothing disturbs knows of the two
  addresses at each of its steps: after a lookup, a failing address is one that is not
  there (`EachRecoversHolds`).

### Only model-checked

Liveness (`LeaderAgain`, `DueNodeCordoned`, `DeadIsTriedAgain`, `FollowsTheFile`): ENABLED and
fairness are beyond the prover. Every other property of the passing runs is a theorem.

## 5. Not modelled

- Events, log lines, messages, the gauges `GuardView` does not name, the HTTP
  handlers and the rendering of metrics: nothing reads them back. `readyz` of the guard asks
  whether `last_loop` is recent, which it is after a loop that deferred too.
- Which text matches which rule of `RULES`, parsing of `/proc` and of exporter samples,
  formatting of times.
- A set of nodes that changes; the Lease being deleted; clock skew. The cut of `lastTransitionTime`
  to the second in the agent's modules.
- Two guards' exporter supervisors at once. `lease_overlap` shows they may overlap;
  each has its own dicts.
- What the alert rules make of several replicas' views: one that defers keeps its old
  decisions and node states and refreshes `last_loop`, and `max(...)` in
  `alerts.yaml` takes either. `LossIsSaid` is about each replica that leads by
  what it shows. One replica is deployed.
- The recorder's columns: what it copies from the two answers and the Node, and the
  header frozen from a first reading. An answer of kubectl that `json.loads` cannot read,
  which ends the recorder.
- Lines the daemon writes to a renamed file after the watcher has drained it, and files rotated
  away between two polls unseen: the code loses them, and `NothingLeftBehind` is not about
  them.
- An exporter that sends garbage for ever: `DeadIsTriedAgain` has finitely many failures.
- Kernel lines half written when they are read, and one line written to two followed
  files (each copy counts).
- Patch counters (`patchctr.py`): no state, and no condition depends on them.
- Alert rules, dashboards and manifests: no state of their own.
- Kernel patches: diffs against a driver whose source is not here.

## 6. Plan

Done, in this order: election; policy and node loop; their proofs; supervisor;
evaluator and agent; kernel-log watcher; D-state census; exporter probe with its
proofs; agent and guard together; recorder; the guard's view; the proofs about the
supervisor, the census, the agent alone and with the guard, the kernel log, the view
and the recorder; the bound on the window; the abstract reporter.

The election has no run of its own any more: `guard_forever` checks its
properties inside the whole guard, with two replicas, and the proofs hold for any
number and with restarts. The evaluator's property is checked inside `agent`.

Next:

1. The safety parts of the liveness arguments, for instance that a reader of an expired
   Lease may write it as long as nobody else does.
2. `CordonBeatsExpiry` with failures that count only between the lines and the cordon, and a
   tight bound.
3. The recorder's columns, and the half-written kernel line.

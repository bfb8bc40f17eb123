---------------------------- MODULE DStateCensus ----------------------------
(***************************************************************************)
(* DStateCensus of gpu-health-agent (signals/dstate.py): which tasks have  *)
(* been in state D for how long, and which of them wait in the GPU stack.  *)
(*                                                                         *)
(* A census goes through /proc task by task, and for a task in D reads its *)
(* stat and then its wchan; tasks enter and leave D, exit and are replaced *)
(* under the same tid all the while.  All durations are measured from the  *)
(* time at which the census began.                                         *)
(***************************************************************************)
EXTENDS Integers, Sequences

CONSTANTS
  Tid,
  GpuNamed,       \* tasks whose comm begins with one of gpu_comm_prefixes
  STUCK_SECONDS,  \* stuck_seconds
  MaxClock,       \* bound of the clock
  MaxChanges,     \* bound on what tasks do
  MaxFaults       \* bound on reads that fail

ASSUME CensusAssumption ==
  /\ GpuNamed \subseteq Tid
  /\ {STUCK_SECONDS, MaxClock, MaxChanges, MaxFaults} \subseteq Nat

VARIABLES
  clock,      \* time.time()
  tasks,      \* what each tid is
  changes,    \* how often that changed
  step,       \* where collect is
  now,        \* when it began
  todo,       \* tasks not yet looked at
  reading,    \* the task in D whose wchan is to be read
  seen,       \* (tid, starttime) found in D
  since,      \* DStateCensus._since
  gpu,        \* those in `seen` taken for GPU tasks
  denied,     \* those in `seen` whose wchan could not be read
  report,     \* what the last census returned
  faults,     \* how many reads have failed
  sighted,    \* history: the tasks this census really found in D
  log,        \* history: every census that came to its end, and what it found
  untold,     \* history: those in `seen` whose wchan read gave nothing
  entered,    \* history: when a tid became what it is (-1: before the start)
  missed      \* history: tids in D a read of which failed since then

worldVars == <<tasks, changes>>
scanVars == <<now, todo, reading, seen, gpu, denied>>
pastVars == <<sighted, log, untold, entered, missed>>
censusVars == <<clock, worldVars, step, scanVars, since, report, faults, pastVars>>

\* Where a task in D waits: in the driver's stack or somewhere else.
Site == {"gpu", "other"}
Task == [start: Nat, state: {"runs", "D"}, site: Site]
Running(start) == [start |-> start, state |-> "runs", site |-> "other"]
Waiting(start, site) == [start |-> start, state |-> "D", site |-> site]
Key == [tid: Tid, start: Nat]
KeyOf(t) == [tid |-> t, start |-> tasks[t].start]

Report == [readable: BOOLEAN, stuck: SUBSET Key, gpu_stuck: SUBSET Key,
           wchan_denied: SUBSET Key]

\* The last census came to its end.
Reported == step = "idle" /\ report.readable

CensusTypeOK ==
  /\ clock \in 0..MaxClock
  /\ tasks \in [Tid -> Task]
  /\ changes \in 0..MaxChanges
  /\ step \in {"idle", "stat", "wchan"}
  /\ now \in Nat \cup {-1}
  /\ todo \in SUBSET Tid
  /\ reading \in SUBSET Key
  /\ seen \in SUBSET Key
  /\ DOMAIN since \subseteq Key /\ \A k \in DOMAIN since : since[k] \in 0..clock
  /\ Reported => DOMAIN since = seen
  /\ gpu \in SUBSET seen
  /\ denied \in SUBSET seen
  /\ report \in Report
  /\ faults \in 0..MaxFaults
  /\ sighted \in SUBSET Key
  /\ log \in Seq([at: Nat, sighted: SUBSET Key])
  /\ untold \in SUBSET Key
  /\ entered \in [Tid -> -1..clock]
  /\ missed \in SUBSET Tid

Blind == [readable |-> FALSE, stuck |-> {}, gpu_stuck |-> {}, wchan_denied |-> {}]

CensusInit ==
  /\ clock = 0
  /\ tasks \in [Tid -> {Running(0)} \cup {Waiting(0, site) : site \in Site}]
  /\ changes = 0
  /\ step = "idle"
  /\ now = -1
  /\ todo = {}
  /\ reading = {}
  /\ seen = {}
  /\ since = [k \in {} |-> 0]
  /\ gpu = {}
  /\ denied = {}
  /\ report = Blind
  /\ faults = 0
  /\ sighted = {}
  /\ log = <<>>
  /\ untold = {}
  /\ entered = [t \in Tid |-> -1]
  /\ missed = {}

-----------------------------------------------------------------------------
(* Deliberately wrong variants: each shows that a property can fail.       *)

\* A task is known by its tid alone.
KeyByTid(t) == [tid |-> t, start |-> 0]

\* Tasks that left D are remembered.
ForgottenNever == since

\* A read that is refused is taken for a wait nowhere.
DeniedAsEmpty(wchan) == FALSE

\* Every census times its tasks from its own beginning.
SinceNow(k) == now

-----------------------------------------------------------------------------
(* collect.                                                                *)

\* Censuses are a collect interval apart (the first two follow each other at once).
Begin ==
  /\ step = "idle"
  /\ clock > now
  /\ step' = "stat"
  /\ now' = clock
  /\ todo' = Tid
  /\ seen' = {}
  /\ gpu' = {}
  /\ denied' = {}
  /\ sighted' = {}
  /\ untold' = {}
  /\ UNCHANGED <<clock, worldVars, reading, since, report, faults, log, entered,
                 missed>>

\* /proc cannot be listed: nothing is counted and nothing forgotten.
ListFails ==
  /\ step = "idle"
  /\ clock > now
  /\ faults < MaxFaults
  /\ faults' = faults + 1
  /\ now' = clock
  /\ report' = Blind
  /\ UNCHANGED <<clock, worldVars, step, todo, reading, seen, since, gpu, denied,
                 pastVars>>

Looking(t) ==
  /\ step = "stat"
  /\ t \in todo
  /\ todo' = todo \ {t}

\* Not in D.
PassOver(t) ==
  /\ Looking(t)
  /\ tasks[t].state # "D"
  /\ UNCHANGED <<clock, worldVars, step, now, reading, seen, since, gpu, denied,
                 report, faults, pastVars>>

\* The stat, or the task list of its process, cannot be read.
Miss(t) ==
  /\ Looking(t)
  /\ faults < MaxFaults
  /\ faults' = faults + 1
  /\ missed' = IF tasks[t].state = "D" THEN missed \cup {t} ELSE missed
  /\ UNCHANGED <<clock, worldVars, step, now, reading, seen, since, gpu, denied,
                 report, sighted, log, untold, entered>>

KeyRead(t) == KeyOf(t)

\* self._since.setdefault(key, now)
SinceWhen(k) == IF k \in DOMAIN since THEN since[k] ELSE now

ReadStat(t) ==
  LET k == KeyRead(t) IN
  /\ Looking(t)
  /\ tasks[t].state = "D"
  /\ step' = "wchan"
  /\ reading' = {k}
  /\ seen' = seen \cup {k}
  /\ since' = [j \in DOMAIN since \cup {k} |-> SinceWhen(j)]
  /\ sighted' = sighted \cup {KeyOf(t)}
  /\ UNCHANGED <<clock, worldVars, now, gpu, denied, report, faults, log,
                 untold, entered, missed>>

\* What the kernel tells: where a task waits, and "" of one that is gone or runs.
WchanOf(t) == IF tasks[t].state = "D" THEN tasks[t].site ELSE ""

IsDenied(wchan) == wchan = "denied"

IsGpuTask(t, wchan) ==
  IF wchan = "" \/ wchan = "denied" THEN t \in GpuNamed ELSE wchan = "gpu"

\* The kernel may tell nothing even of a task in D (an OSError, a literal "0"), and it
\* may refuse to tell.
ReadWchan(t, wchan) ==
  /\ step = "wchan"
  /\ \E k \in reading :
       /\ k.tid = t
       /\ wchan \in {WchanOf(t), "", "denied"}
       /\ step' = "stat"
       /\ reading' = {}
       /\ gpu' = IF IsGpuTask(t, wchan) THEN gpu \cup {k} ELSE gpu
       /\ denied' = IF IsDenied(wchan) THEN denied \cup {k} ELSE denied
       /\ untold' = IF wchan = "" THEN untold \cup {k} ELSE untold
  /\ UNCHANGED <<clock, worldVars, now, todo, seen, since, report, faults, sighted,
                 log, entered, missed>>

Stuck(k) == now - since[k] >= STUCK_SECONDS

\* What left D, or exited, or was not seen, is forgotten.
Forgotten == [k \in DOMAIN since \cap seen |-> since[k]]

Finish ==
  LET stuck == {k \in seen : Stuck(k)} IN
  /\ step = "stat"
  /\ todo = {}
  /\ step' = "idle"
  /\ since' = Forgotten
  /\ report' = [readable |-> TRUE, stuck |-> stuck, gpu_stuck |-> stuck \cap gpu,
                wchan_denied |-> denied]
  /\ log' = Append(log, [at |-> now, sighted |-> sighted])
  /\ UNCHANGED <<clock, worldVars, now, todo, reading, seen, gpu, denied, faults,
                 sighted, untold, entered, missed>>

-----------------------------------------------------------------------------
(* The tasks, and time.                                                    *)

\* A task enters or leaves D, or exits and another one gets its tid.
TaskChanges(t) ==
  /\ changes < MaxChanges
  /\ changes' = changes + 1
  /\ missed' = missed \ {t}
  /\ entered' = [entered EXCEPT ![t] = clock]
  /\ LET start == tasks[t].start
         Entered == {Waiting(start, site) : site \in Site}
         Left == {Running(start)}
         Replaced == {Running(start + 1), Waiting(start + 1, "gpu")}
     IN \E task \in Replaced \cup IF tasks[t].state = "D" THEN Left ELSE Entered :
          tasks' = [tasks EXCEPT ![t] = task]
  /\ UNCHANGED <<clock, step, scanVars, since, report, faults, sighted, log, untold>>

Tick ==
  /\ clock < MaxClock
  /\ clock' = clock + 1
  /\ UNCHANGED <<worldVars, step, scanVars, since, report, faults, pastVars>>

CensusNext ==
  \/ Begin
  \/ ListFails
  \/ \E t \in Tid :
       \/ PassOver(t)
       \/ Miss(t)
       \/ ReadStat(t)
       \/ \E wchan \in Site \cup {"", "denied"} : ReadWchan(t, wchan)
  \/ Finish
  \/ \E t \in Tid : TaskChanges(t)
  \/ Tick

CensusSpec == CensusInit /\ [][CensusNext]_censusVars

-----------------------------------------------------------------------------
(* Properties.                                                             *)

(* A task is reported stuck exactly when an unbroken row of censuses, the   *)
(* last one included and those that could not list /proc aside, each found  *)
(* this very task in D - its tid and its start time - and the row began     *)
(* long enough ago (_since).  The row is of what the censuses found: a wait *)
(* that ended and began again between two of them goes unnoticed, and a     *)
(* read that failed ends the row.                                           *)
StuckAsSeen ==
  LET Last == Len(log)
      Wedged ==
        {k \in log[Last].sighted :
           \E i \in 1..Last :
             /\ log[Last].at - log[i].at >= STUCK_SECONDS
             /\ \A j \in i..Last : k \in log[j].sighted}
  IN Reported => {k.tid : k \in report.stuck} = {k.tid : k \in Wedged}

(* A task that really waits is found out: when its present wait was already *)
(* on at a census that began long enough before the last one, and no read   *)
(* of it failed since, the last one reports it, whatever censuses could not *)
(* list /proc in between and whatever had its tid before.                   *)
WaitedIsStuck ==
  LET Last == Len(log)
      LongAgo(t) ==
        \E i \in 1..Last :
          /\ log[i].at > entered[t]
          /\ log[Last].at - log[i].at >= STUCK_SECONDS
  IN Reported =>
       \A t \in Tid \ missed :
         (tasks[t].state = "D" /\ LongAgo(t)) => KeyOf(t) \in report.stuck

(* A stuck task that stayed where it is since before the census is counted  *)
(* as a GPU task exactly when it waits in the GPU stack, unless the report  *)
(* says that the kernel refused to tell (WCHAN_DENIED, wchan_denied) or the *)
(* read gave nothing, which leaves its name to decide and shows nowhere.    *)
BlindnessShows ==
  Reported =>
    \A k \in report.stuck :
      entered[k.tid] < now =>
        \/ k \in report.gpu_stuck <=> tasks[k.tid].site = "gpu"
        \/ k \in report.wchan_denied
        \/ k \in untold
=============================================================================

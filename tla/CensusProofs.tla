---------------------------- MODULE CensusProofs ----------------------------
(***************************************************************************)
(* The census of tasks in D, for any tasks and any limit.                  *)
(***************************************************************************)
EXTENDS DStateCensus, SequenceTheorems, TLAPS

Census == [at: Nat, sighted: SUBSET Key]

\* A census in progress has a time, no later than the clock; what it has seen it has
\* a time for, and what it reads is a task it has seen.
InProgress ==
  /\ now <= clock
  /\ step # "idle" => now \in Nat /\ seen \subseteq DOMAIN since
  /\ reading \subseteq seen
  /\ step # "wchan" => reading = {}
  /\ \A j, k \in reading : j = k

CensusTypeInv == CensusTypeOK /\ InProgress

LEMMA CensusInitType == CensusInit => CensusTypeInv
<1> SUFFICES ASSUME CensusInit PROVE CensusTypeInv
  OBVIOUS
<1>1. tasks \in [Tid -> Task]
  BY DEF CensusInit, Running, Waiting, Task, Site
<1>2. report \in Report /\ ~Reported
  BY DEF CensusInit, Blind, Report, Reported
<1>3. log \in Seq(Census)
  BY DEF CensusInit
<1>4. QED
  BY <1>1, <1>2, <1>3, CensusAssumption
     DEF CensusInit, CensusTypeInv, CensusTypeOK, InProgress, Census

\* A task that is there has a key.
LEMMA KeyOfType ==
  ASSUME CensusTypeOK, NEW t \in Tid
  PROVE  KeyOf(t) \in Key
BY DEF CensusTypeOK, Task, KeyOf, Key

LEMMA CensusKeepsTypes ==
  ASSUME CensusTypeInv, CensusNext
  PROVE  CensusTypeInv'
<1> USE CensusAssumption
    DEF CensusTypeInv, CensusTypeOK, InProgress, Reported, worldVars, scanVars, pastVars
<1>1. CASE Begin
  BY <1>1 DEF Begin
<1>2. CASE ListFails
  BY <1>2 DEF ListFails, Blind, Report
<1>3. ASSUME NEW t \in Tid, PassOver(t) \/ Miss(t)
      PROVE  CensusTypeInv'
  BY <1>3 DEF PassOver, Miss, Looking
<1>4. ASSUME NEW t \in Tid, ReadStat(t)
      PROVE  CensusTypeInv'
  <2> DEFINE k == KeyOf(t)
  <2>1. k \in Key
    BY KeyOfType
  <2>2. /\ step = "stat" /\ step' = "wchan"
        /\ todo' = todo \ {t}
        /\ reading' = {k}
        /\ seen' = seen \cup {k}
        /\ since' = [j \in DOMAIN since \cup {k} |-> SinceWhen(j)]
        /\ sighted' = sighted \cup {k}
        /\ UNCHANGED <<clock, tasks, changes, now, gpu, denied, report, faults, log,
                       untold, entered, missed>>
    BY <1>4 DEF ReadStat, KeyRead, Looking
  <2> HIDE DEF k
  <2>3. \A j \in DOMAIN since \cup {k} : SinceWhen(j) \in 0..clock
    BY <2>2 DEF SinceWhen
  <2>4. /\ DOMAIN since' = DOMAIN since \cup {k}
        /\ \A j \in DOMAIN since' : since'[j] \in 0..clock
    BY <2>2, <2>3
  <2>5. QED
    BY <2>1, <2>2, <2>4
<1>5. ASSUME NEW t \in Tid, NEW wchan \in Site \cup {"", "denied"}, ReadWchan(t, wchan)
      PROVE  CensusTypeInv'
  BY <1>5 DEF ReadWchan
<1>6. CASE Finish
  <2>1. [at |-> now, sighted |-> sighted] \in Census
    BY <1>6 DEF Finish, Census
  <2>2. log' \in Seq(Census)
    BY <1>6, <2>1 DEF Finish, Census
  <2>3. DOMAIN since' = seen /\ \A k \in seen : since'[k] = since[k]
    BY <1>6 DEF Finish, Forgotten
  <2>4. report' \in Report
    BY <1>6 DEF Finish, Report
  <2>5. QED
    BY <1>6, <2>2, <2>3, <2>4 DEF Finish, Census
<1>7. ASSUME NEW t \in Tid, TaskChanges(t)
      PROVE  CensusTypeInv'
  <2>1. tasks' \in [Tid -> Task]
    BY <1>7 DEF TaskChanges, Running, Waiting, Task, Site
  <2>2. QED
    BY <1>7, <2>1 DEF TaskChanges
<1>8. CASE Tick
  BY <1>8 DEF Tick
<1>9. QED
  BY <1>1, <1>2, <1>3, <1>4, <1>5, <1>6, <1>7, <1>8 DEF CensusNext

LEMMA CensusTypeInvariant == CensusSpec => []CensusTypeInv
<1>1. CensusTypeInv /\ [CensusNext]_censusVars => CensusTypeInv'
  <2> SUFFICES ASSUME CensusTypeInv, [CensusNext]_censusVars
               PROVE  CensusTypeInv'
    OBVIOUS
  <2>1. CASE UNCHANGED censusVars
    BY <2>1 DEF censusVars, worldVars, scanVars, pastVars, CensusTypeInv,
         CensusTypeOK, InProgress, Reported
  <2>2. QED
    BY <2>1, CensusKeepsTypes
<1>2. QED
  BY <1>1, CensusInitType, PTL DEF CensusSpec

(* Every variable of the census keeps its type; after a census that came to *)
(* its end, what is remembered is what it saw.                              *)
THEOREM CensusTypeCorrect == CensusSpec => []CensusTypeOK
<1>1. CensusTypeInv => CensusTypeOK
  BY DEF CensusTypeInv
<1>2. QED
  BY <1>1, CensusTypeInvariant, PTL

-----------------------------------------------------------------------------
(* Why stuck is as seen: what is remembered of a task is when the row of    *)
(* censuses that saw it began.                                              *)

\* What the last census that came to its end has seen.
Before == IF log = <<>> THEN {} ELSE log[Len(log)].sighted

\* The row of k began with census i.
RowFrom(i, k) ==
  /\ \A j \in i..Len(log) : k \in log[j].sighted
  /\ i > 1 => k \notin log[i - 1].sighted

RowKnown(k) == \E i \in 1..Len(log) : since[k] = log[i].at /\ RowFrom(i, k)

RowsKnown == \A k \in Before : RowKnown(k)

\* A census in progress adds what it sees first to what was seen before.
Remembered ==
  /\ step = "idle" => DOMAIN since = Before
  /\ step # "idle" =>
       /\ DOMAIN since = Before \cup seen
       /\ \A k \in seen \ Before : since[k] = now
  /\ seen = sighted

LogInOrder ==
  /\ \A i \in 1..Len(log) : log[i].at <= now
  /\ \A i, j \in 1..Len(log) : i <= j => log[i].at <= log[j].at

\* What was reported is what is remembered long enough.
ReportedIsRemembered ==
  Reported =>
    /\ log # <<>>
    /\ report.stuck =
         {k \in Before : log[Len(log)].at - since[k] >= STUCK_SECONDS}

StuckInv == RowsKnown /\ Remembered /\ LogInOrder /\ ReportedIsRemembered

\* The log is a sequence of censuses, and theirs are times.
LEMMA LogType ==
  ASSUME CensusTypeInv
  PROVE  /\ log \in Seq(Census) /\ Len(log) \in Nat
         /\ log # <<>> => Len(log) > 0
         /\ \A i \in 1..Len(log) : log[i] \in Census /\ log[i].at \in Nat
<1>1. log \in Seq(Census)
  BY DEF CensusTypeInv, CensusTypeOK, Census
<1>2. \A i \in 1..Len(log) : log[i] \in Census
  BY <1>1, ElementOfSeq
<1>3. \A i \in 1..Len(log) : log[i].at \in Nat
  BY <1>2 DEF Census
<1>4. QED
  BY <1>1, <1>2, <1>3, LenProperties, EmptySeq

LEMMA StuckInit == CensusInit => StuckInv
BY DEF CensusInit, StuckInv, RowsKnown, Remembered, LogInOrder, ReportedIsRemembered,
       Before, Reported, Blind

\* What an unbroken row that began long enough ago has seen.
Wedged ==
  {k \in log[Len(log)].sighted :
     \E i \in 1..Len(log) :
       /\ log[Len(log)].at - log[i].at >= STUCK_SECONDS
       /\ \A j \in i..Len(log) : k \in log[j].sighted}

\* A task in a census has been seen for as long as the row says.
LEMMA RowIsWedged ==
  ASSUME CensusTypeInv, StuckInv, Reported
  PROVE  report.stuck = Wedged
<1> DEFINE Last == Len(log)
           LongAgo(i) == log[Last].at - log[i].at >= STUCK_SECONDS
<1>1. /\ Last \in Nat \ {0}
      /\ Before = log[Last].sighted
      /\ \A i \in 1..Last : log[i].at \in Nat
  BY LogType DEF StuckInv, ReportedIsRemembered, Before
<1>2. ASSUME NEW k \in Before
      PROVE  log[Last].at - since[k] >= STUCK_SECONDS <=> k \in Wedged
  <2>1. PICK i \in 1..Last : since[k] = log[i].at /\ RowFrom(i, k)
    BY <1>2 DEF StuckInv, RowsKnown, RowKnown
  <2>2. ASSUME log[Last].at - since[k] >= STUCK_SECONDS
        PROVE  k \in Wedged
    BY <1>1, <2>1, <2>2 DEF RowFrom, Wedged
  <2>3. ASSUME k \in Wedged
        PROVE  log[Last].at - since[k] >= STUCK_SECONDS
    <3>1. PICK m \in 1..Last : LongAgo(m) /\ \A j \in m..Last : k \in log[j].sighted
      BY <2>3 DEF Wedged
    <3>2. i <= m
      BY <1>1, <2>1, <3>1 DEF RowFrom
    <3>3. log[i].at <= log[m].at
      BY <3>2 DEF StuckInv, LogInOrder
    <3>4. /\ {log[Last].at, log[i].at, log[m].at, STUCK_SECONDS} \subseteq Nat
          /\ log[Last].at - log[m].at >= STUCK_SECONDS
      BY <1>1, <3>1, CensusAssumption
    <3>5. QED
      BY <2>1, <3>3, <3>4
  <2>4. QED
    BY <2>2, <2>3
<1>3. QED
  BY <1>1, <1>2 DEF StuckInv, ReportedIsRemembered, Wedged

\* A census that goes on changes nothing of the rows before it.
LEMMA StuckByScan ==
  ASSUME CensusTypeInv, StuckInv, NEW t \in Tid, ReadStat(t)
  PROVE  StuckInv'
<1> DEFINE k == KeyOf(t)
<1>1. /\ step = "stat" /\ step' = "wchan"
      /\ seen' = seen \cup {k} /\ sighted' = sighted \cup {k}
      /\ since' = [j \in DOMAIN since \cup {k} |-> SinceWhen(j)]
      /\ UNCHANGED <<now, log, report>>
  BY DEF ReadStat, KeyRead, Looking
<1> HIDE DEF k
<1>2. /\ DOMAIN since' = DOMAIN since \cup {k}
      /\ \A j \in DOMAIN since : since'[j] = since[j]
      /\ k \notin DOMAIN since => since'[k] = now
  BY <1>1 DEF SinceWhen
<1>3. Before' = Before
  BY <1>1 DEF Before
<1>4. RowsKnown'
  <2> SUFFICES ASSUME NEW j \in Before PROVE RowKnown(j)'
    BY <1>3 DEF RowsKnown
  <2>1. since'[j] = since[j]
    BY <1>1, <1>2 DEF StuckInv, Remembered
  <2>2. RowKnown(j)
    BY DEF StuckInv, RowsKnown
  <2>3. QED
    BY <1>1, <2>1, <2>2 DEF RowKnown, RowFrom
<1>5. Remembered'
  BY <1>1, <1>2, <1>3 DEF StuckInv, Remembered
<1>6. LogInOrder' /\ ReportedIsRemembered'
  BY <1>1 DEF StuckInv, LogInOrder, ReportedIsRemembered, Reported
<1>7. QED
  BY <1>4, <1>5, <1>6 DEF StuckInv

\* A census that ends carries the rows on or lets them end.
LEMMA StuckByFinish ==
  ASSUME CensusTypeInv, StuckInv, Finish
  PROVE  StuckInv'
<1> DEFINE L == Len(log)
<1>1. /\ step = "stat" /\ step' = "idle"
      /\ since' = [k \in DOMAIN since \cap seen |-> since[k]]
      /\ report'.stuck = {k \in seen : now - since[k] >= STUCK_SECONDS}
      /\ log' = Append(log, [at |-> now, sighted |-> sighted])
      /\ UNCHANGED <<now, seen, sighted>>
  BY DEF Finish, Forgotten, Stuck
<1>2. /\ log \in Seq(Census) /\ L \in Nat /\ now \in Nat
      /\ log # <<>> => L > 0
      /\ \A i \in 1..L : log[i].at \in Nat
  BY <1>1, LogType DEF CensusTypeInv, CensusTypeOK, InProgress
<1>3. /\ Len(log') = L + 1 /\ log' # <<>>
      /\ \A i \in 1..L : log'[i] = log[i]
      /\ log'[L + 1].at = now /\ log'[L + 1].sighted = seen
  <2>1. [at |-> now, sighted |-> sighted] \in Census
    BY <1>2 DEF Census, CensusTypeInv, CensusTypeOK
  <2>2. QED
    BY <1>1, <1>2, <2>1, AppendProperties DEF StuckInv, Remembered
<1>4. Before' = seen
  BY <1>2, <1>3 DEF Before
<1>5. DOMAIN since' = seen /\ \A k \in seen : since'[k] = since[k]
  BY <1>1 DEF CensusTypeInv, InProgress
<1>6. RowsKnown'
  <2> SUFFICES ASSUME NEW k \in seen PROVE RowKnown(k)'
    BY <1>4 DEF RowsKnown
  <2>1. CASE k \in Before
    <3>1. PICK i \in 1..L : since[k] = log[i].at /\ RowFrom(i, k)
      BY <2>1 DEF StuckInv, RowsKnown, RowKnown
    <3>2. since'[k] = log'[i].at
      BY <1>3, <1>5, <3>1
    <3>3. RowFrom(i, k)'
      BY <1>2, <1>3, <3>1 DEF RowFrom
    <3>4. i \in 1..Len(log')
      BY <1>2, <1>3
    <3>5. QED
      BY <3>2, <3>3, <3>4 DEF RowKnown
  <2>2. CASE k \notin Before
    <3>1. PICK last \in Nat : last = Len(log')
      BY <1>2, <1>3
    <3>2. since'[k] = log'[last].at
      BY <1>1, <1>3, <1>5, <2>2, <3>1 DEF StuckInv, Remembered
    <3>3. last > 1 => k \notin log'[last - 1].sighted
      BY <1>2, <1>3, <2>2, <3>1 DEF Before
    <3>4. RowFrom(last, k)'
      BY <1>2, <1>3, <3>1, <3>3 DEF RowFrom
    <3>5. last \in 1..Len(log')
      BY <1>2, <1>3, <3>1
    <3>6. QED
      BY <3>2, <3>4, <3>5 DEF RowKnown
  <2>3. QED
    BY <2>1, <2>2
<1>7. Remembered'
  BY <1>1, <1>4, <1>5 DEF StuckInv, Remembered
<1>8. LogInOrder'
  <2>1. \A i \in 1..(L + 1) :
          log'[i].at = IF i <= L THEN log[i].at ELSE now
    BY <1>2, <1>3
  <2>2. /\ \A i \in 1..L : log[i].at <= now
        /\ \A i, j \in 1..L : i <= j => log[i].at <= log[j].at
    BY DEF StuckInv, LogInOrder
  <2>3. \A i \in 1..(L + 1) : log'[i].at <= now'
    BY <1>1, <1>2, <2>1, <2>2
  <2>4. \A i, j \in 1..(L + 1) : i <= j => log'[i].at <= log'[j].at
    BY <1>2, <2>1, <2>2
  <2>5. QED
    BY <1>3, <2>3, <2>4 DEF LogInOrder
<1>9. ReportedIsRemembered'
  BY <1>1, <1>3, <1>4, <1>5 DEF ReportedIsRemembered
<1>10. QED
  BY <1>6, <1>7, <1>8, <1>9 DEF StuckInv

LEMMA LaterInOrder ==
  ASSUME CensusTypeInv, LogInOrder, log' = log, now' = clock, clock > now
  PROVE  LogInOrder'
<1>1. clock \in Int /\ now \in Int
  BY CensusAssumption DEF CensusTypeInv, CensusTypeOK
<1>2. QED
  BY <1>1, LogType DEF LogInOrder

LEMMA StuckStep ==
  ASSUME CensusTypeInv, StuckInv, [CensusNext]_censusVars
  PROVE  StuckInv'
<1> USE DEF StuckInv, RowsKnown, RowKnown, RowFrom, Remembered, LogInOrder,
            ReportedIsRemembered, Before, Reported, worldVars, scanVars, pastVars
<1>1. CASE Begin
  BY <1>1, LaterInOrder DEF Begin
<1>2. CASE ListFails
  BY <1>2, LaterInOrder DEF ListFails, Blind
<1>3. ASSUME NEW t \in Tid, PassOver(t) \/ Miss(t)
      PROVE  StuckInv'
  BY <1>3 DEF PassOver, Miss, Looking
<1>4. ASSUME NEW t \in Tid, ReadStat(t)
      PROVE  StuckInv'
  BY <1>4, StuckByScan
<1>5. ASSUME NEW t \in Tid, NEW wchan \in Site \cup {"", "denied"}, ReadWchan(t, wchan)
      PROVE  StuckInv'
  BY <1>5 DEF ReadWchan
<1>6. CASE Finish
  BY <1>6, StuckByFinish
<1>7. CASE (\E t \in Tid : TaskChanges(t)) \/ Tick \/ UNCHANGED censusVars
  BY <1>7 DEF TaskChanges, Tick, censusVars
<1>8. QED
  BY <1>1, <1>2, <1>3, <1>4, <1>5, <1>6, <1>7 DEF CensusNext

LEMMA StuckInvariant == CensusSpec => []StuckInv
BY StuckInit, StuckStep, CensusTypeInvariant, PTL DEF CensusSpec

(* For any tasks, limit and length of run: a census reports as stuck exactly*)
(* the tasks, told apart by tid and start time, that an unbroken row of     *)
(* censuses begun long enough ago has found in D (_since of DStateCensus).  *)
THEOREM StuckAsSeenHolds == CensusSpec => []StuckAsSeen
<1>1. CensusTypeInv /\ StuckInv => StuckAsSeen
  <2>1. CASE Reported
    BY <2>1, RowIsWedged DEF StuckAsSeen, Wedged
  <2>2. CASE ~Reported
    BY <2>2 DEF StuckAsSeen
  <2>3. QED
    BY <2>1, <2>2
<1>2. QED
  BY <1>1, StuckInvariant, CensusTypeInvariant, PTL

-----------------------------------------------------------------------------
(* Why a wait is found out: every census that began while it was on and     *)
(* missed no read of it has found it.                                       *)

WaitSeen(t) ==
  /\ \A i \in 1..Len(log) : log[i].at > entered[t] => KeyOf(t) \in log[i].sighted
  /\ (step # "idle" /\ now > entered[t]) => t \in todo \/ KeyOf(t) \in sighted

WaitsSeen == \A t \in Tid \ missed : tasks[t].state = "D" => WaitSeen(t)

\* The row of a wait that was seen is long enough as soon as the wait is.
LEMMA SeenIsStuck ==
  ASSUME CensusTypeInv, StuckInv, WaitsSeen
  PROVE  WaitedIsStuck
<1> DEFINE Last == Len(log)
<1> SUFFICES ASSUME Reported, NEW t \in Tid \ missed, tasks[t].state = "D",
                    NEW i \in 1..Last, log[i].at > entered[t],
                    log[Last].at - log[i].at >= STUCK_SECONDS
             PROVE  KeyOf(t) \in report.stuck
  BY DEF WaitedIsStuck
<1>1. /\ Last \in Nat
      /\ \A j \in 1..Last : log[j].at \in Nat
      /\ entered[t] \in Int
  BY LogType DEF CensusTypeInv, CensusTypeOK
<1>2. \A j \in i..Last : log[j].at >= log[i].at
  BY <1>1 DEF StuckInv, LogInOrder
<1>3. \A j \in i..Last : log[j].at > entered[t]
  BY <1>1, <1>2
<1>4. \A j \in i..Last : KeyOf(t) \in log[j].sighted
  BY <1>1, <1>3 DEF WaitsSeen, WaitSeen
<1>5. KeyOf(t) \in Wedged
  BY <1>1, <1>4 DEF Wedged
<1>6. QED
  BY <1>5, RowIsWedged

\* A census that ends has looked at every task.
LEMMA WaitsByFinish ==
  ASSUME CensusTypeInv, WaitsSeen, Finish
  PROVE  WaitsSeen'
<1> DEFINE L == Len(log)
<1>1. /\ step = "stat" /\ todo = {} /\ step' = "idle"
      /\ log' = Append(log, [at |-> now, sighted |-> sighted])
      /\ UNCHANGED <<tasks, entered, missed>>
  BY DEF Finish, worldVars
<1>2. /\ Len(log') = L + 1 /\ L \in Nat
      /\ \A i \in 1..L : log'[i] = log[i]
      /\ log'[L + 1].at = now /\ log'[L + 1].sighted = sighted
  <2>1. now \in Nat /\ sighted \in SUBSET Key
    BY <1>1 DEF CensusTypeInv, CensusTypeOK, InProgress
  <2>2. [at |-> now, sighted |-> sighted] \in Census
    BY <2>1 DEF Census
  <2>3. QED
    BY <1>1, <2>2, LogType, AppendProperties
<1>3. ASSUME NEW t \in Tid \ missed, tasks[t].state = "D"
      PROVE  WaitSeen(t)'
  <2>1. WaitSeen(t)
    BY <1>3 DEF WaitsSeen
  <2>2. KeyOf(t)' = KeyOf(t)
    BY <1>1 DEF KeyOf
  <2>3. ASSUME NEW i \in 1..(L + 1), log'[i].at > entered[t]
        PROVE  KeyOf(t) \in log'[i].sighted
    <3>1. CASE i \in 1..L
      BY <1>2, <2>1, <2>3, <3>1 DEF WaitSeen
    <3>2. CASE i = L + 1
      BY <1>1, <1>2, <2>1, <2>3, <3>2 DEF WaitSeen
    <3>3. QED
      BY <1>2, <3>1, <3>2
  <2>4. QED
    BY <1>1, <1>2, <2>2, <2>3 DEF WaitSeen
<1>4. QED
  BY <1>1, <1>3 DEF WaitsSeen

\* No census that has begun began after a change that happens now.
LEMMA WaitsByChange ==
  ASSUME CensusTypeInv, StuckInv, WaitsSeen, NEW t \in Tid, TaskChanges(t)
  PROVE  WaitsSeen'
<1>1. /\ entered' = [entered EXCEPT ![t] = clock] /\ missed' = missed \ {t}
      /\ \A u \in Tid \ {t} : tasks'[u] = tasks[u]
      /\ UNCHANGED <<step, now, todo, log, sighted>>
  BY DEF TaskChanges, scanVars, CensusTypeInv, CensusTypeOK
<1>2. entered'[t] = clock /\ \A u \in Tid \ {t} : entered'[u] = entered[u]
  BY <1>1 DEF CensusTypeInv, CensusTypeOK
<1>3. ASSUME NEW u \in Tid \ missed', tasks'[u].state = "D", u # t
      PROVE  WaitSeen(u)'
  <2>1. WaitSeen(u) /\ KeyOf(u)' = KeyOf(u)
    BY <1>1, <1>3 DEF WaitsSeen, KeyOf
  <2>2. QED
    BY <1>1, <1>2, <1>3, <2>1 DEF WaitSeen
<1>4. WaitSeen(t)'
  <2>1. clock \in Int /\ now \in Int /\ now <= clock
    BY CensusAssumption DEF CensusTypeInv, CensusTypeOK, InProgress
  <2>2. \A i \in 1..Len(log) : log[i].at <= now /\ log[i].at \in Int
    BY LogType DEF StuckInv, LogInOrder
  <2>3. ~(now > clock) /\ \A i \in 1..Len(log) : ~(log[i].at > clock)
    BY <2>1, <2>2
  <2>4. QED
    BY <1>1, <1>2, <2>3 DEF WaitSeen
<1>5. QED
  BY <1>3, <1>4 DEF WaitsSeen

LEMMA WaitsStep ==
  ASSUME CensusTypeInv, StuckInv, WaitsSeen, [CensusNext]_censusVars
  PROVE  WaitsSeen'
<1> USE DEF WaitsSeen, WaitSeen, KeyOf, worldVars, scanVars, pastVars
<1>1. CASE Begin
  BY <1>1 DEF Begin
<1>2. CASE ListFails
  BY <1>2 DEF ListFails
<1>3. ASSUME NEW t \in Tid, PassOver(t)
      PROVE  WaitsSeen'
  BY <1>3 DEF PassOver, Looking
<1>4. ASSUME NEW t \in Tid, Miss(t)
      PROVE  WaitsSeen'
  BY <1>4 DEF Miss, Looking
<1>5. ASSUME NEW t \in Tid, ReadStat(t)
      PROVE  WaitsSeen'
  BY <1>5 DEF ReadStat, Looking
<1>6. ASSUME NEW t \in Tid, NEW wchan \in Site \cup {"", "denied"}, ReadWchan(t, wchan)
      PROVE  WaitsSeen'
  BY <1>6 DEF ReadWchan
<1>7. CASE Finish
  BY <1>7, WaitsByFinish
<1>8. ASSUME NEW t \in Tid, TaskChanges(t)
      PROVE  WaitsSeen'
  BY <1>8, WaitsByChange
<1>9. CASE Tick \/ UNCHANGED censusVars
  BY <1>9 DEF Tick, censusVars
<1>10. QED
  BY <1>1, <1>2, <1>3, <1>4, <1>5, <1>6, <1>7, <1>8, <1>9 DEF CensusNext

(* For any tasks, limit and length of run: a task that has waited since     *)
(* before a census begun long enough ago, and that no read has missed since,*)
(* is reported stuck (_since, collect).                                     *)
THEOREM WaitedIsStuckHolds == CensusSpec => []WaitedIsStuck
<1>1. CensusInit => WaitsSeen
  BY DEF CensusInit, WaitsSeen, WaitSeen
<1>2. QED
  BY <1>1, WaitsStep, SeenIsStuck, StuckInvariant, CensusTypeInvariant, PTL
     DEF CensusSpec

-----------------------------------------------------------------------------
(* Why a GPU task is told by its wait: a task that has not changed since    *)
(* before the census is still where its wchan was read.                     *)

\* The census is in progress, or the last one came to its end.
Live == step # "idle" \/ report.readable

Settled(k) == entered[k.tid] < now

SettledWaits == Live => \A k \in seen : Settled(k) => tasks[k.tid].state = "D"

Classified(k) ==
  \/ k \in gpu <=> tasks[k.tid].site = "gpu"
  \/ k \in denied
  \/ k \in untold

SettledClassified == Live => \A k \in seen \ reading : Settled(k) => Classified(k)

\* A tid is looked at once in a census, and its key classified once.
LookedAtOnce ==
  /\ \A k \in seen : k.tid \notin todo
  /\ reading \cap gpu = {}

ReportedAsRead ==
  Reported =>
    /\ report.stuck \subseteq seen
    /\ report.gpu_stuck = report.stuck \cap gpu
    /\ report.wchan_denied = denied

BlindInv == SettledWaits /\ SettledClassified /\ LookedAtOnce /\ ReportedAsRead

LEMMA BlindByWchan ==
  ASSUME CensusTypeInv, BlindInv, NEW t \in Tid,
         NEW wchan \in Site \cup {"", "denied"}, ReadWchan(t, wchan)
  PROVE  BlindInv'
<1> USE DEF CensusTypeInv, InProgress, worldVars, pastVars
<1>1. PICK k \in reading :
        /\ k.tid = t
        /\ wchan \in {WchanOf(t), "", "denied"}
        /\ reading' = {}
        /\ gpu' = IF IsGpuTask(t, wchan) THEN gpu \cup {k} ELSE gpu
        /\ denied' = IF IsDenied(wchan) THEN denied \cup {k} ELSE denied
        /\ untold' = IF wchan = "" THEN untold \cup {k} ELSE untold
  BY DEF ReadWchan
<1>2. /\ step = "wchan" /\ step' = "stat"
      /\ UNCHANGED <<tasks, seen, todo, entered, now, report>>
  BY DEF ReadWchan
<1>3. \A j \in seen \ {k} :
        /\ j \in gpu' <=> j \in gpu
        /\ j \in denied' <=> j \in denied
        /\ j \in untold' <=> j \in untold
  BY <1>1
<1>4. k \in seen /\ k \notin gpu /\ \A j \in reading : j = k
  BY <1>1 DEF BlindInv, LookedAtOnce
<1>5. ASSUME Settled(k)
      PROVE  Classified(k)'
  <2>1. WchanOf(t) = tasks[t].site
    BY <1>1, <1>2, <1>4, <1>5 DEF BlindInv, SettledWaits, Live, WchanOf
  <2>2. CASE wchan = ""
    BY <1>1, <2>2 DEF Classified
  <2>3. CASE wchan = "denied"
    BY <1>1, <2>3 DEF Classified, IsDenied
  <2>4. CASE wchan # "" /\ wchan # "denied"
    BY <1>1, <1>2, <1>4, <2>1, <2>4 DEF Classified, IsGpuTask
  <2>5. QED
    BY <2>2, <2>3, <2>4
<1>6. ASSUME NEW j \in seen \ {k}, Settled(j)
      PROVE  Classified(j)'
  <2>1. Classified(j)
    BY <1>2, <1>4, <1>6 DEF BlindInv, SettledClassified, Live
  <2>2. QED
    BY <1>2, <1>3, <2>1 DEF Classified
<1>7. SettledClassified'
  BY <1>2, <1>5, <1>6 DEF SettledClassified, Settled
<1>8. QED
  BY <1>1, <1>2, <1>7
     DEF BlindInv, SettledWaits, Settled, Live, LookedAtOnce, ReportedAsRead, Reported

\* A task that changes now has not stayed where it was.
LEMMA BlindByChange ==
  ASSUME CensusTypeInv, BlindInv, NEW t \in Tid, TaskChanges(t)
  PROVE  BlindInv'
<1>1. /\ entered' = [entered EXCEPT ![t] = clock]
      /\ \A u \in Tid \ {t} : tasks'[u] = tasks[u]
      /\ UNCHANGED <<step, now, todo, seen, reading, gpu, denied, untold, report>>
  BY DEF TaskChanges, scanVars, CensusTypeInv, CensusTypeOK
<1>2. \A k \in seen : k.tid \in Tid
  BY DEF CensusTypeInv, CensusTypeOK, Key
<1>3. ~(clock < now)
  BY CensusAssumption DEF CensusTypeInv, CensusTypeOK, InProgress
<1>4. ASSUME NEW k \in seen, Settled(k)'
      PROVE  Settled(k) /\ tasks'[k.tid] = tasks[k.tid]
  <2>1. k.tid # t
    BY <1>1, <1>2, <1>3, <1>4 DEF Settled, CensusTypeInv, CensusTypeOK
  <2>2. QED
    BY <1>1, <1>2, <1>4, <2>1 DEF Settled, CensusTypeInv, CensusTypeOK
<1>5. SettledWaits'
  BY <1>1, <1>4 DEF BlindInv, SettledWaits, Live
<1>6. SettledClassified'
  BY <1>1, <1>4 DEF BlindInv, SettledClassified, Live, Classified
<1>7. QED
  BY <1>1, <1>5, <1>6 DEF BlindInv, LookedAtOnce, ReportedAsRead, Reported

LEMMA BlindByScan ==
  ASSUME CensusTypeInv, BlindInv, NEW t \in Tid, ReadStat(t)
  PROVE  BlindInv'
<1> DEFINE k == KeyOf(t)
<1>1. /\ step = "stat" /\ step' = "wchan" /\ tasks[t].state = "D"
      /\ t \in todo /\ todo' = todo \ {t}
      /\ reading = {} /\ reading' = {k} /\ seen' = seen \cup {k}
      /\ UNCHANGED <<tasks, entered, now, gpu, denied, untold, report>>
  BY DEF ReadStat, KeyRead, Looking, worldVars, CensusTypeInv, InProgress
<1>2. k.tid = t
  BY DEF KeyOf
<1> HIDE DEF k
<1>3. k \notin gpu
  BY <1>1, <1>2 DEF BlindInv, LookedAtOnce, CensusTypeInv, CensusTypeOK
<1>4. SettledWaits'
  BY <1>1, <1>2 DEF BlindInv, SettledWaits, Live, Settled
<1>5. SettledClassified'
  BY <1>1 DEF BlindInv, SettledClassified, Live, Settled, Classified
<1>6. QED
  BY <1>1, <1>2, <1>3, <1>4, <1>5
     DEF BlindInv, LookedAtOnce, ReportedAsRead, Reported

LEMMA BlindStep ==
  ASSUME CensusTypeInv, BlindInv, [CensusNext]_censusVars
  PROVE  BlindInv'
<1> USE DEF CensusTypeInv, InProgress, BlindInv, SettledWaits, SettledClassified,
            Live, Settled, Classified, LookedAtOnce, ReportedAsRead, Reported,
            worldVars, scanVars, pastVars
<1>1. CASE Begin
  BY <1>1 DEF Begin
<1>2. CASE ListFails
  BY <1>2 DEF ListFails, Blind
<1>3. ASSUME NEW t \in Tid, PassOver(t) \/ Miss(t)
      PROVE  BlindInv'
  BY <1>3 DEF PassOver, Miss, Looking
<1>4. ASSUME NEW t \in Tid, ReadStat(t)
      PROVE  BlindInv'
  BY <1>4, BlindByScan
<1>5. ASSUME NEW t \in Tid, NEW wchan \in Site \cup {"", "denied"}, ReadWchan(t, wchan)
      PROVE  BlindInv'
  BY <1>5, BlindByWchan
<1>6. CASE Finish
  BY <1>6 DEF Finish
<1>7. ASSUME NEW t \in Tid, TaskChanges(t)
      PROVE  BlindInv'
  BY <1>7, BlindByChange
<1>8. CASE Tick \/ UNCHANGED censusVars
  BY <1>8 DEF Tick, censusVars
<1>9. QED
  BY <1>1, <1>2, <1>3, <1>4, <1>5, <1>6, <1>7, <1>8 DEF CensusNext

(* For any tasks and any limit: a stuck task that stayed where it is since  *)
(* before the census is counted as a GPU task exactly when it waits in the  *)
(* GPU stack, unless the report says that its wchan was refused or the read *)
(* of it gave nothing (_read_wchan, _is_gpu_task, WCHAN_DENIED).            *)
THEOREM BlindnessShowsHolds == CensusSpec => []BlindnessShows
<1>1. CensusInit => BlindInv
  BY DEF CensusInit, BlindInv, SettledWaits, SettledClassified, Live, LookedAtOnce,
         ReportedAsRead, Reported, Blind
<1>2. CensusTypeInv /\ BlindInv => BlindnessShows
  <2> SUFFICES ASSUME CensusTypeInv, BlindInv, Reported, NEW k \in report.stuck,
                      Settled(k)
               PROVE  \/ k \in report.gpu_stuck <=> tasks[k.tid].site = "gpu"
                      \/ k \in report.wchan_denied
                      \/ k \in untold
    BY DEF BlindnessShows, Settled
  <2>1. k \in seen \ reading /\ Live
    BY DEF CensusTypeInv, InProgress, BlindInv, ReportedAsRead, Reported, Live
  <2>2. Classified(k)
    BY <2>1 DEF BlindInv, SettledClassified
  <2>3. QED
    BY <2>2 DEF BlindInv, ReportedAsRead, Classified
<1>3. QED
  BY <1>1, <1>2, BlindStep, CensusTypeInvariant, PTL DEF CensusSpec
=============================================================================

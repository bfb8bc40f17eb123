---------------------------- MODULE AgentProofs -----------------------------
(***************************************************************************)
(* The agent, alone with its history and together with the guard, for all  *)
(* intervals, windows, thresholds and dwell times.                         *)
(***************************************************************************)
EXTENDS MCAgent, AgentGuard, SequenceTheorems, WellFoundedInduction, TLAPS

-----------------------------------------------------------------------------
(* The deque of samples.                                                   *)

LEMMA LeastOf ==
  ASSUME NEW T \in SUBSET Nat, T # {}
  PROVE  \E x \in T : \A y \in T : x <= y
<1> DEFINE R == OpToRel(<, Nat)
<1>1. IsWellFoundedOn(R, Nat)
  BY NatLessThanWellFounded, Zenon
<1>2. \A x, y \in Nat : x < y => <<x, y>> \in R
  BY DEF OpToRel
<1> HIDE DEF R
<1>3. PICK x \in T : \A y \in T : ~(<<y, x>> \in R)
  BY <1>1, WFMin, Zenon
<1>4. ASSUME NEW y \in T
      PROVE  x <= y
  <2>1. x \in Nat /\ y \in Nat
    OBVIOUS
  <2>2. ~(y < x)
    BY <1>2, <1>3, <2>1
  <2>3. QED
    BY <2>1, <2>2
<1>5. QED
  BY <1>4

\* What the popleft loop drops is a prefix of expired samples, and it stops at the
\* first that is not, or at the last.
LEMMA TrimmedDropsPrefix ==
  ASSUME NEW h \in Seq(Sample), h # <<>>, NEW t \in Nat
  PROVE  \E first \in 1..Len(h) :
           /\ Trimmed(h, t) = SubSeq(h, first, Len(h))
           /\ first = Len(h) \/ ~Expired(h[first], t)
           /\ \A j \in 1..(first - 1) : Expired(h[j], t)
<1> DEFINE Stop(i) == i = Len(h) \/ ~Expired(h[i], t)
           First(i) == Stop(i) /\ \A j \in 1..(i - 1) : Expired(h[j], t)
           T == {i \in 1..Len(h) : Stop(i)}
<1>1. Len(h) \in Nat /\ Len(h) > 0
  BY EmptySeq, LenProperties
<1>2. T \in SUBSET Nat /\ Len(h) \in T
  BY <1>1
<1>3. PICK m \in T : \A i \in T : m <= i
  BY <1>2, LeastOf
<1>4. ASSUME NEW j \in 1..(m - 1)
      PROVE  Expired(h[j], t)
  <2>1. j \in 1..Len(h) /\ ~(m <= j)
    BY <1>1, <1>2, <1>4
  <2>2. QED
    BY <1>3, <2>1
<1>5. m \in 1..Len(h) /\ First(m)
  BY <1>3, <1>4
<1> DEFINE first == CHOOSE i \in 1..Len(h) : First(i)
<1>6. first \in 1..Len(h) /\ First(first)
  BY <1>5
<1>7. Trimmed(h, t) = SubSeq(h, first, Len(h))
  BY DEF Trimmed
<1>8. QED
  BY <1>6, <1>7

\* The deque after an evaluation: d samples have gone, the new one is the last.
DroppedOf(h, t, counted, d) ==
  LET kept == Sampled(h, t, counted) IN
  /\ kept \in Seq(Sample)
  /\ Len(kept) = Len(h) + 1 - d
  /\ kept[Len(kept)] = [at |-> t, counts |-> counted]
  /\ \A i \in 1..(Len(kept) - 1) : kept[i] = h[i + d]
  /\ \A j \in 1..d : Expired(h[j], t)
  /\ d = Len(h) \/ ~Expired(h[d + 1], t)

LEMMA SampledDrops ==
  ASSUME NEW h \in Seq(Sample), NEW t \in Nat, NEW counted \in Counts
  PROVE  \E d \in 0..Len(h) : DroppedOf(h, t, counted, d)
<1> DEFINE s == [at |-> t, counts |-> counted]
           all == Append(h, s)
           L == Len(h)
<1>1. s \in Sample
  BY DEF Sample
<1>2. L \in Nat
  BY LenProperties
<1> HIDE DEF s
<1>3. /\ all \in Seq(Sample) /\ Len(all) = L + 1 /\ all # <<>>
      /\ all[L + 1] = s
      /\ \A i \in 1..L : all[i] = h[i]
  BY <1>1, <1>2, AppendProperties, EmptySeq
<1> HIDE DEF all
<1>4. PICK first \in 1..(L + 1) :
        /\ Trimmed(all, t) = SubSeq(all, first, L + 1)
        /\ first = L + 1 \/ ~Expired(all[first], t)
        /\ \A j \in 1..(first - 1) : Expired(all[j], t)
  BY <1>3, TrimmedDropsPrefix
<1> DEFINE kept == SubSeq(all, first, L + 1)
<1>5. \A i \in first..(L + 1) : all[i] \in Sample
  BY <1>2, <1>3, ElementOfSeq
<1>6. /\ kept \in Seq(Sample)
      /\ Len(kept) = L + 2 - first
      /\ \A i \in 1..(L + 2 - first) : kept[i] = all[first + i - 1]
  BY <1>2, <1>5, SubSeqProperties
<1>7. Sampled(h, t, counted) = kept
  BY <1>4 DEF Sampled, all, s
<1> HIDE DEF kept
<1>8. PICK d \in 0..L : d = first - 1
  BY <1>2
<1>9. Len(kept) = L + 1 - d /\ Len(kept) \in Nat /\ Len(kept) > 0
  BY <1>2, <1>6, <1>8
<1>10. kept[Len(kept)] = s
  <2>1. kept[Len(kept)] = all[first + Len(kept) - 1]
    BY <1>2, <1>6, <1>9
  <2>2. first + Len(kept) - 1 = L + 1
    BY <1>2, <1>6
  <2>3. QED
    BY <1>3, <2>1, <2>2
<1>11. \A i \in 1..(Len(kept) - 1) : kept[i] = h[i + d]
  <2> SUFFICES ASSUME NEW i \in 1..(Len(kept) - 1) PROVE kept[i] = h[i + d]
    OBVIOUS
  <2>1. i + d \in 1..L /\ first + i - 1 = i + d /\ i \in 1..(L + 2 - first)
    BY <1>2, <1>6, <1>8, <1>9
  <2>2. QED
    BY <1>3, <1>6, <2>1
<1>12. \A j \in 1..d : Expired(h[j], t)
  BY <1>2, <1>3, <1>4, <1>8
<1>13. d = L \/ ~Expired(h[d + 1], t)
  BY <1>2, <1>3, <1>4, <1>8
<1>14. QED
  BY <1>6, <1>7, <1>8, <1>9, <1>10, <1>11, <1>12, <1>13 DEF DroppedOf, s

-----------------------------------------------------------------------------
(* Types.                                                                  *)

\* A collection that succeeded has judged every condition.
AllOrNothing ==
  detail = Unjudged \/ \A c \in ALL_CONDITIONS : detail[c] \in {"True", "False"}

\* A status was sent exactly if it has a time.
StampedIfSent ==
  \A c \in ALL_CONDITIONS : last_status[c] = Unset <=> transitions[c] = NoTime

AgentTypeInv == AgentTypeOK /\ AllOrNothing /\ StampedIfSent /\ now <= clock

\* The variables of a process that has just started.
LEMMA NewProcessTypes ==
  /\ NoCounts \in Counts
  /\ Unseen \in [counts: Counts, trouble: SUBSET Disturbed]
  /\ <<>> \in Seq(Sample)
  /\ Unjudged \in [ALL_CONDITIONS -> Status]
  /\ [c \in ALL_CONDITIONS |-> NoTime] \in [ALL_CONDITIONS -> Time]
  /\ NoTime \in Time
  /\ Nothing \in [ALL_CONDITIONS -> NodeCondition]
<1>1. NoCounts \in Counts
  BY DEF NoCounts, Counts
<1>2. Unseen \in [counts: Counts, trouble: SUBSET Disturbed]
  BY <1>1 DEF Unseen
<1>3. Unjudged \in [ALL_CONDITIONS -> Status]
  BY DEF Unjudged, Status
<1>4. Nothing \in [ALL_CONDITIONS -> NodeCondition]
  BY DEF Nothing, NodeCondition, Status, Unset, Time
<1>5. <<>> \in Seq(Sample) /\ NoTime \in Time
  BY EmptySeq DEF Time
<1>6. QED
  BY <1>1, <1>2, <1>3, <1>4, <1>5

\* Nothing is sent, and nothing is stamped.
LEMMA NothingSent ==
  ASSUME last_status = Unjudged, transitions = [c \in ALL_CONDITIONS |-> NoTime]
  PROVE  StampedIfSent
BY DEF StampedIfSent, Unjudged

LEMMA AgentInitType == AgentInit => AgentTypeInv
<1> SUFFICES ASSUME AgentInit PROVE AgentTypeInv
  OBVIOUS
<1>1. StampedIfSent
  BY NothingSent DEF AgentInit, NewProcess
<1>2. AllOrNothing
  BY DEF AgentInit, NewProcess, AllOrNothing
<1>3. AgentTypeOK /\ now <= clock
  <2>1. transitions \in [ALL_CONDITIONS -> Time]
    BY NewProcessTypes, Zenon DEF AgentInit, NewProcess
  <2>2. /\ history \in Seq(Sample)
        /\ detail \in [ALL_CONDITIONS -> Status]
        /\ last_status \in [ALL_CONDITIONS -> Status]
        /\ node \in [ALL_CONDITIONS -> NodeCondition]
        /\ report \in [ALL_CONDITIONS -> NodeCondition]
        /\ seen \in [counts: Counts, trouble: SUBSET Disturbed]
        /\ counts \in Counts
        /\ last_publish \in Time
    BY NewProcessTypes, Zenon DEF AgentInit, NewProcess
  <2>3. /\ clock \in 0..MaxClock /\ now \in Nat /\ now <= clock
        /\ trouble \in SUBSET Disturbed /\ changes \in Nat
    BY AgentAssumption DEF AgentInit, NewProcess
  <2>4. /\ step \in {"collect", "evaluate", "publish", "patch", "wait"}
        /\ report # Nothing <=> step = "patch"
    BY DEF AgentInit, NewProcess
  <2>5. booted \in BOOLEAN
    BY DEF AgentInit, NewProcess
  <2>6. QED
    BY <2>1, <2>2, <2>3, <2>4, <2>5 DEF AgentTypeOK
<1>4. QED
  BY <1>1, <1>2, <1>3 DEF AgentTypeInv

LEMMA EvaluateKeepsTypes ==
  ASSUME AgentTypeInv, Evaluate
  PROVE  AgentTypeInv'
<1> USE DEF AgentTypeInv, AgentTypeOK
<1>1. seen.counts \in Counts
  OBVIOUS
<1>2. history' \in Seq(Sample)
  BY <1>1, SampledDrops DEF Evaluate, DroppedOf
<1>3. /\ detail' \in [ALL_CONDITIONS -> Status]
      /\ \A c \in ALL_CONDITIONS : detail'[c] \in {"True", "False"}
  BY DEF Evaluate, Status
<1>4. /\ step = "evaluate"
      /\ step' \in {"collect", "publish"}
      /\ booted' = TRUE
      /\ seen' = Unseen
      /\ UNCHANGED <<clock, trouble, changes, counts, node, now, last_status,
                     transitions, last_publish, report>>
  BY DEF Evaluate, AfterCollection, worldVars, publisherVars
<1>5. QED
  BY <1>2, <1>3, <1>4, NewProcessTypes DEF AllOrNothing, StampedIfSent

LEMMA BuildKeepsTypes ==
  ASSUME AgentTypeInv, BuildReport
  PROVE  /\ AgentTypeInv'
         /\ \A c \in ALL_CONDITIONS :
              /\ detail[c] \in {"True", "False"}
              /\ transitions'[c] = Transition(c) /\ transitions'[c] \in Nat
              /\ report'[c] = [status |-> detail[c], since |-> transitions'[c]]
<1> USE DEF AgentTypeInv, AgentTypeOK
<1>1. clock \in Nat
  BY AgentAssumption
<1>2. \A c \in ALL_CONDITIONS : detail[c] \in {"True", "False"}
  BY DEF BuildReport, Judged, AllOrNothing
<1>3. \A c \in ALL_CONDITIONS : Transition(c) \in Nat
  BY <1>1, <1>2 DEF Transition, StampedIfSent, Time, Unset
<1>4. /\ transitions' = [c \in ALL_CONDITIONS |-> Transition(c)]
      /\ report' =
           [c \in ALL_CONDITIONS |-> [status |-> detail[c], since |-> Transition(c)]]
      /\ last_status' = detail
      /\ step' = "patch"
      /\ UNCHANGED <<clock, trouble, changes, counts, node, booted, now, seen,
                     history, detail, last_publish>>
  BY DEF BuildReport, worldVars, evaluatorVars
<1>5. transitions' \in [ALL_CONDITIONS -> Time]
  BY <1>3, <1>4 DEF Time
<1>6. report' \in [ALL_CONDITIONS -> NodeCondition]
  <2> SUFFICES ASSUME NEW c \in ALL_CONDITIONS
               PROVE  [status |-> detail[c], since |-> Transition(c)] \in NodeCondition
    BY <1>4
  <2>1. detail[c] \in Status /\ detail[c] # Unset
    BY <1>2 DEF Status, Unset
  <2>2. Transition(c) \in Time /\ Transition(c) # NoTime
    BY <1>3 DEF Time, NoTime
  <2>3. QED
    BY <2>1, <2>2 DEF NodeCondition
<1>7. report' # Nothing
  <2>1. "GPUProbeFailed" \in ALL_CONDITIONS
    BY DEF ALL_CONDITIONS
  <2>2. report'["GPUProbeFailed"].status # Unset
    BY <1>2, <1>4, <2>1 DEF Unset
  <2>3. Nothing["GPUProbeFailed"].status = Unset
    BY <2>1 DEF Nothing
  <2>4. QED
    BY <2>2, <2>3
<1>8. AllOrNothing' /\ StampedIfSent'
  <2>1. AllOrNothing'
    BY <1>2, <1>4 DEF AllOrNothing
  <2>2. ASSUME NEW c \in ALL_CONDITIONS
        PROVE  last_status'[c] # Unset /\ transitions'[c] # NoTime
    <3>1. last_status'[c] = detail[c] /\ transitions'[c] = Transition(c)
      BY <1>4
    <3>2. detail[c] # Unset
      BY <1>2 DEF Unset
    <3>3. Transition(c) # NoTime
      BY <1>3 DEF NoTime
    <3>4. QED
      BY <3>1, <3>2, <3>3
  <2>3. QED
    BY <2>1, <2>2 DEF StampedIfSent
<1>9. QED
  BY <1>2, <1>3, <1>4, <1>5, <1>6, <1>7, <1>8

LEMMA AgentKeepsTypes ==
  ASSUME AgentTypeInv, [AgentNext]_agentVars
  PROVE  AgentTypeInv'
<1> USE AgentAssumption
    DEF AgentTypeInv, AgentTypeOK, AllOrNothing, StampedIfSent, worldVars,
        evaluatorVars, publisherVars, loopVars
<1>1. CASE Collect
  <2>1. seen' \in [counts: Counts, trouble: SUBSET Disturbed]
    BY <1>1 DEF Collect
  <2>2. QED
    BY <1>1, <2>1 DEF Collect
<1>2. CASE Evaluate
  BY <1>2, EvaluateKeepsTypes
<1>3. CASE CollectRaises
  BY <1>3, NewProcessTypes DEF CollectRaises, AfterCollection
<1>4. CASE NotDue
  BY <1>4 DEF NotDue
<1>5. CASE NothingToPublish
  BY <1>5 DEF NothingToPublish, Time
<1>6. CASE BuildReport
  BY <1>6, BuildKeepsTypes
<1>7. ASSUME NEW applied \in BOOLEAN, Patch(applied)
      PROVE  AgentTypeInv'
  BY <1>7, NewProcessTypes DEF Patch, Time
<1>8. CASE RestartAgent
  <2>1. StampedIfSent'
    <3>1. /\ last_status' = Unjudged
          /\ transitions' = [c \in ALL_CONDITIONS |-> NoTime]
      BY <1>8 DEF RestartAgent
    <3>2. QED
      BY <3>1 DEF Unjudged
  <2>2. AllOrNothing'
    BY <1>8 DEF RestartAgent
  <2>3. AgentTypeOK' /\ (now <= clock)'
    <3>1. /\ history' \in Seq(Sample)
          /\ detail' \in [ALL_CONDITIONS -> Status]
          /\ last_status' \in [ALL_CONDITIONS -> Status]
          /\ transitions' \in [ALL_CONDITIONS -> Time]
          /\ report' \in [ALL_CONDITIONS -> NodeCondition]
          /\ seen' \in [counts: Counts, trouble: SUBSET Disturbed]
          /\ counts' \in Counts
          /\ last_publish' \in Time
      BY <1>8, NewProcessTypes, Zenon DEF RestartAgent
    <3>2. /\ clock' \in 0..MaxClock /\ now' \in Nat /\ now' <= clock'
          /\ trouble' \in SUBSET Disturbed /\ changes' \in Nat
          /\ node' \in [ALL_CONDITIONS -> NodeCondition]
      BY <1>8 DEF RestartAgent
    <3>3. /\ step' \in {"collect", "evaluate", "publish", "patch", "wait"}
          /\ report' # Nothing <=> step' = "patch"
      BY <1>8 DEF RestartAgent
    <3>4. booted' \in BOOLEAN
      BY <1>8 DEF RestartAgent
    <3>5. QED
      BY <3>1, <3>2, <3>3, <3>4
  <2>4. QED
    BY <2>1, <2>2, <2>3
<1>9. ASSUME NEW r \in Watched, CountLine(r)
      PROVE  AgentTypeInv'
  BY <1>9 DEF CountLine, Counts
<1>10. ASSUME NEW t \in Disturbed, ComesOrGoes(t)
       PROVE  AgentTypeInv'
  BY <1>10 DEF ComesOrGoes
<1>11. CASE Tick
  BY <1>11 DEF Tick
<1>12. CASE UNCHANGED agentVars
  BY <1>12 DEF agentVars
<1>13. QED
  BY <1>1, <1>2, <1>3, <1>4, <1>5, <1>6, <1>7, <1>8, <1>9, <1>10, <1>11, <1>12
     DEF AgentNext, AgentGoes, AgentFails, World

(* Every variable of the agent keeps its type; above all, a report is in    *)
(* hand exactly while it is sent, and what is sent is judged and stamped.   *)
THEOREM AgentTypeCorrect == AgentSpec => []AgentTypeOK
<1>1. AgentTypeInv => AgentTypeOK
  BY DEF AgentTypeInv
<1>2. QED
  BY <1>1, AgentInitType, AgentKeepsTypes, PTL DEF AgentSpec

-----------------------------------------------------------------------------
(* Neither the history nor the guard adds anything to what the agent does. *)

LEMMA PastStep == [PastNext]_pastAgentVars => [AgentNext]_agentVars
BY DEF PastNext, pastAgentVars, AgentNext, AgentGoes, AgentFails, World

LEMMA PastIsAgent == PastSpec => AgentSpec
BY PastStep, PTL DEF PastSpec, PastInit, AgentSpec

LEMMA TogetherStep == [AgentGuardNext]_allVars => [AgentNext]_agentVars
BY DEF AgentGuardNext, AgentStep, AgentStumbles, GuardStep, GuardStumbles, TimePasses,
       Built, Delivered, Restarted, allVars, AgentNext, AgentGoes, AgentFails

(* Around one Node with the guard, the agent's part of every behaviour is   *)
(* one of the agent alone: what is proved of the agent holds there.         *)
THEOREM AgentGuardRunsTheAgent == AgentGuardSpec => AgentSpec
BY TogetherStep, PTL DEF AgentGuardSpec, AgentGuardInit, AgentSpec
-----------------------------------------------------------------------------
(* The time of a transition.                                               *)

\* The reports lie behind the clock, and those before the one in hand were published.
ReportsInTime ==
  \A r \in reports :
    /\ r.at \in Nat
    /\ r.at <= clock
    /\ step # "patch" => r.at <= last_publish

\* The publisher remembers a status exactly if it has built a report.
Remembering == \A c \in ALL_CONDITIONS : last_status[c] = Unset <=> reports = {}

\* What TransitionIsTheFlip says of a report, of what the publisher remembers.
FlipOf(c) ==
  /\ \E r \in reports : r.at = transitions[c]
  /\ \A r \in reports : r.at >= transitions[c] => r.status[c] = last_status[c]
  /\ \A r \in reports : r.at < transitions[c] =>
       \E q \in reports :
         r.at <= q.at /\ q.at < transitions[c] /\ q.status[c] # last_status[c]

RemembersTheFlip == reports # {} => \A c \in ALL_CONDITIONS : FlipOf(c)

\* What is sent is what is remembered.
SendsTheRemembered ==
  step = "patch" =>
    /\ reports # {}
    /\ \A c \in ALL_CONDITIONS :
         report[c] = [status |-> last_status[c], since |-> transitions[c]]

FlipInv ==
  /\ AgentTypeInv
  /\ ReportsInTime
  /\ Remembering
  /\ RemembersTheFlip
  /\ SendsTheRemembered

LEMMA FlipInit == PastInit => FlipInv
<1> SUFFICES ASSUME PastInit PROVE FlipInv
  OBVIOUS
<1>1. AgentTypeInv /\ reports = {} /\ last_status = Unjudged /\ step = "collect"
  BY AgentInitType DEF PastInit, AgentInit, NewProcess
<1>2. Remembering
  BY <1>1 DEF Remembering, Unjudged
<1>3. QED
  BY <1>1, <1>2
     DEF FlipInv, ReportsInTime, RemembersTheFlip, SendsTheRemembered

\* A step that builds no report and forgets none.
LEMMA FlipKept ==
  ASSUME FlipInv, AgentTypeInv', UNCHANGED <<reports, last_status, transitions>>,
         clock <= clock',
         step' = "patch" => step = "patch" /\ UNCHANGED report,
         step' # "patch" =>
           last_publish' = clock \/ (step # "patch" /\ UNCHANGED last_publish)
  PROVE  FlipInv'
<1> USE DEF FlipInv
<1>1. clock \in Nat /\ clock' \in Nat /\ last_publish \in Int
  BY AgentAssumption DEF AgentTypeInv, AgentTypeOK, Time, NoTime
<1>2. ReportsInTime'
  BY <1>1 DEF ReportsInTime
<1>3. Remembering' /\ RemembersTheFlip'
  BY DEF Remembering, RemembersTheFlip, FlipOf
<1>4. SendsTheRemembered'
  BY DEF SendsTheRemembered
<1>5. QED
  BY <1>2, <1>3, <1>4

\* All reports of before are older than the one that is built now.
LEMMA ReportsOlder ==
  ASSUME FlipInv, step = "publish", PublishDue, NODE_CONDITION_INTERVAL_SECONDS # 0,
         NEW r \in reports
  PROVE  r.at \in Nat /\ r.at < clock
<1>1. clock \in Nat /\ last_publish \in Time /\ NODE_CONDITION_INTERVAL_SECONDS \in Nat
  BY AgentAssumption DEF FlipInv, AgentTypeInv, AgentTypeOK
<1>2. r.at \in Nat /\ r.at <= last_publish
  BY DEF FlipInv, ReportsInTime
<1>3. clock - last_publish >= NODE_CONDITION_INTERVAL_SECONDS
  BY <1>1, <1>2 DEF PublishDue, NoTime
<1>4. QED
  BY <1>1, <1>2, <1>3 DEF Time, NoTime

LEMMA FlipBuilt ==
  ASSUME FlipInv, BuildReport, NODE_CONDITION_INTERVAL_SECONDS # 0,
         reports' = reports \cup {[at |-> clock, status |-> detail]}
  PROVE  FlipInv'
<1> DEFINE n == [at |-> clock, status |-> detail]
<1>1. /\ AgentTypeInv' /\ AgentTypeInv
      /\ \A c \in ALL_CONDITIONS :
           /\ detail[c] # Unset
           /\ transitions'[c] = Transition(c)
           /\ report'[c] = [status |-> detail[c], since |-> transitions'[c]]
  BY BuildKeepsTypes DEF FlipInv, Unset
<1>2. /\ clock \in Nat /\ clock' = clock
      /\ step = "publish" /\ step' = "patch"
      /\ last_status' = detail
      /\ PublishDue
  BY AgentAssumption, <1>1 DEF BuildReport, AgentTypeInv, AgentTypeOK
<1>3. \A r \in reports : r.at \in Nat /\ r.at < clock
  BY <1>2, ReportsOlder
<1>4. n.at = clock /\ n.status = detail /\ reports' = reports \cup {n}
  OBVIOUS
<1> HIDE DEF n
<1>5. ReportsInTime'
  BY <1>2, <1>3, <1>4 DEF ReportsInTime
<1>6. Remembering'
  BY <1>1, <1>2, <1>4 DEF Remembering
<1>7. SendsTheRemembered'
  BY <1>1, <1>2, <1>4 DEF SendsTheRemembered
<1>8. ASSUME NEW c \in ALL_CONDITIONS
      PROVE  FlipOf(c)'
  <2>1. transitions'[c] = Transition(c) /\ last_status'[c] = detail[c]
    BY <1>1, <1>2
  <2>2. CASE last_status[c] # detail[c]
    <3>1. transitions'[c] = clock
      BY <2>1, <2>2 DEF Transition
    <3>2. ASSUME NEW r \in reports
          PROVE  \E q \in reports :
                   r.at <= q.at /\ q.at < clock /\ q.status[c] # detail[c]
      <4>1. CASE r.status[c] # detail[c]
        BY <1>2, <1>3, <4>1
      <4>2. CASE r.status[c] = detail[c]
        <5>1. FlipOf(c)
          BY DEF FlipInv, RemembersTheFlip
        <5>2. PICK p \in reports : p.at = transitions[c]
          BY <5>1 DEF FlipOf
        <5>3. p.status[c] = last_status[c]
          BY <1>3, <5>1, <5>2 DEF FlipOf
        <5>4. ~(r.at >= transitions[c])
          BY <2>2, <4>2, <5>1 DEF FlipOf
        <5>5. r.at < p.at
          BY <1>3, <5>2, <5>4
        <5>6. QED
          BY <1>2, <1>3, <2>2, <5>3, <5>5
      <4>3. QED
        BY <4>1, <4>2
    <3>3. QED
      BY <1>2, <1>3, <1>4, <2>1, <3>1, <3>2 DEF FlipOf
  <2>3. CASE last_status[c] = detail[c]
    <3>1. transitions'[c] = transitions[c]
      BY <2>1, <2>3 DEF Transition
    <3>2. FlipOf(c)
      BY <1>1, <2>3 DEF FlipInv, Remembering, RemembersTheFlip
    <3>3. transitions[c] \in Nat /\ transitions[c] < clock
      BY <1>3, <3>2 DEF FlipOf
    <3>4. \E r \in reports' : r.at = transitions[c]
      BY <1>4, <3>2 DEF FlipOf
    <3>5. \A r \in reports' : r.at >= transitions[c] => r.status[c] = detail[c]
      BY <1>4, <2>3, <3>2 DEF FlipOf
    <3>6. \A r \in reports' : r.at < transitions[c] =>
            \E q \in reports' :
              r.at <= q.at /\ q.at < transitions[c] /\ q.status[c] # detail[c]
      BY <1>2, <1>4, <2>3, <3>2, <3>3 DEF FlipOf
    <3>7. QED
      BY <2>1, <3>1, <3>4, <3>5, <3>6 DEF FlipOf
  <2>4. QED
    BY <2>2, <2>3
<1>9. QED
  BY <1>1, <1>5, <1>6, <1>7, <1>8 DEF FlipInv, RemembersTheFlip

LEMMA FlipStep ==
  ASSUME NODE_CONDITION_INTERVAL_SECONDS # 0, FlipInv, [PastNext]_pastAgentVars
  PROVE  FlipInv'
<1>1. AgentTypeInv /\ AgentTypeInv'
  BY PastStep, AgentKeepsTypes DEF FlipInv
<1>2. clock \in Nat
  BY AgentAssumption, <1>1 DEF AgentTypeInv, AgentTypeOK
<1> USE DEF worldVars, evaluatorVars, publisherVars, loopVars, pastVars
<1>3. CASE BuildReport /\ reports' = reports \cup {[at |-> clock, status |-> detail]}
  BY <1>3, FlipBuilt
<1>4. CASE RestartAgent /\ reports' = {}
  <2>1. step' = "collect" /\ reports' = {} /\ last_status' = Unjudged
    BY <1>4 DEF RestartAgent
  <2>2. Remembering'
    BY <2>1 DEF Remembering, Unjudged
  <2>3. QED
    BY <1>1, <2>1, <2>2
       DEF FlipInv, ReportsInTime, RemembersTheFlip, SendsTheRemembered
<1>5. CASE Evaluate /\ UNCHANGED reports
  BY <1>1, <1>2, <1>5, FlipKept DEF Evaluate, AfterCollection
<1>6. CASE CollectRaises /\ UNCHANGED reports
  BY <1>1, <1>2, <1>6, FlipKept DEF CollectRaises, AfterCollection
<1>7. CASE Collect /\ UNCHANGED reports
  BY <1>1, <1>2, <1>7, FlipKept DEF Collect
<1>8. CASE NotDue /\ UNCHANGED reports
  BY <1>1, <1>2, <1>8, FlipKept DEF NotDue
<1>9. CASE NothingToPublish /\ UNCHANGED reports
  BY <1>1, <1>2, <1>9, FlipKept DEF NothingToPublish
<1>10. ASSUME NEW applied \in BOOLEAN, Patch(applied), UNCHANGED reports
       PROVE  FlipInv'
  BY <1>1, <1>2, <1>10, FlipKept DEF Patch
<1>11. ASSUME NEW r \in Watched, CountLine(r), UNCHANGED reports
       PROVE  FlipInv'
  BY <1>1, <1>2, <1>11, FlipKept DEF CountLine
<1>12. ASSUME NEW t \in Disturbed, ComesOrGoes(t), UNCHANGED reports
       PROVE  FlipInv'
  BY <1>1, <1>2, <1>12, FlipKept DEF ComesOrGoes
<1>13. CASE Tick /\ UNCHANGED reports
  BY <1>1, <1>2, <1>13, FlipKept DEF Tick
<1>14. CASE UNCHANGED pastAgentVars
  BY <1>1, <1>2, <1>14, FlipKept DEF pastAgentVars, agentVars
<1>15. QED
  BY <1>3, <1>4, <1>5, <1>6, <1>7, <1>8, <1>9, <1>10, <1>11, <1>12, <1>13, <1>14
     DEF PastNext

LEMMA FlipImplies == FlipInv => TransitionIsTheFlip
<1> SUFFICES ASSUME FlipInv, step = "patch", NEW c \in ALL_CONDITIONS
             PROVE  LET since == report[c].since
                        Says(r) == r.status[c] = report[c].status
                    IN /\ \E r \in reports : r.at = since
                       /\ \A r \in reports : r.at >= since => Says(r)
                       /\ \A r \in reports : r.at < since =>
                            \E q \in reports : r.at <= q.at /\ q.at < since /\ ~Says(q)
  BY DEF TransitionIsTheFlip
<1>1. report[c].status = last_status[c] /\ report[c].since = transitions[c]
  <2>1. report[c] = [status |-> last_status[c], since |-> transitions[c]]
    BY Zenon DEF FlipInv, SendsTheRemembered
  <2>2. QED
    BY <2>1
<1>2. FlipOf(c)
  BY DEF FlipInv, SendsTheRemembered, RemembersTheFlip
<1> DEFINE since == report[c].since
           status == report[c].status
<1>3. since = transitions[c] /\ status = last_status[c]
  BY <1>1
<1> HIDE DEF since, status
<1>4. /\ \E r \in reports : r.at = since
      /\ \A r \in reports : r.at >= since => r.status[c] = status
      /\ \A r \in reports : r.at < since =>
           \E q \in reports : r.at <= q.at /\ q.at < since /\ ~(q.status[c] = status)
  BY <1>2, <1>3 DEF FlipOf
<1>5. QED
  BY <1>4, Zenon DEF since, status

(* The stamp a report carries is that of the report at which the condition  *)
(* took its value: whatever was lost in between, no report since says       *)
(* otherwise, and the one before does.  The interval keeps two reports of   *)
(* one second, which a stamp could not tell apart, from being built.        *)
THEOREM TransitionIsTheFlipHolds ==
  NODE_CONDITION_INTERVAL_SECONDS # 0 => (PastSpec => []TransitionIsTheFlip)
<1> SUFFICES ASSUME NODE_CONDITION_INTERVAL_SECONDS # 0
             PROVE  PastSpec => []TransitionIsTheFlip
  OBVIOUS
<1>1. PastInit => FlipInv
  BY FlipInit
<1>2. FlipInv /\ [PastNext]_pastAgentVars => FlipInv'
  BY FlipStep
<1>3. FlipInv => TransitionIsTheFlip
  BY FlipImplies
<1>4. QED
  BY <1>1, <1>2, <1>3, PTL DEF PastSpec

-----------------------------------------------------------------------------
(* The window.                                                             *)

Last == history[Len(history)]

\* Of two samples the later one has the larger counts.
Grows(s, t) == s.at <= t.at /\ \A r \in LogRule : s.counts[r] <= t.counts[r]

InOrder == \A i, j \in 1..Len(history) : i <= j => Grows(history[i], history[j])

\* The deque holds samples of this process, and those it has dropped have expired
\* since, as seen from the last evaluation.
AllOrExpired ==
  /\ \A i \in 1..Len(history) : history[i] \in samples
  /\ \A s \in samples :
       (\E i \in 1..Len(history) : s = history[i]) \/ Expired(s, Last.at)
  /\ history = <<>> => samples = {}
  /\ history # <<>> => ~Expired(history[1], Last.at)

\* The counters have moved on since the last evaluation.
CountersGrow ==
  /\ history # <<>> => Grows(Last, [at |-> now, counts |-> counts])
  /\ step = "evaluate" =>
       /\ \A r \in LogRule : seen.counts[r] <= counts[r]
       /\ history # <<>> => Grows(Last, [at |-> now, counts |-> seen.counts])

\* The log conditions are those of the deque.
JudgedByWindow ==
  history # <<>> =>
    /\ (detail["GPUUnrecoverable"] = "True") <=> Hits(history, Last.counts, "fatal") > 0
    /\ (detail["GPUEngineTimeout"] = "True")
         <=> Hits(history, Last.counts, "engine") >= ENGINE_TIMEOUT_RECURRENCE
    /\ Hits(history, Last.counts, "workqueue") > 0
         => (detail["GPUWorkqueueStalled"] = "True")

\* The deque as it is, without the history it is compared with.
DequeInv ==
  /\ AgentTypeInv
  /\ InOrder
  /\ CountersGrow
  /\ JudgedByWindow

WindowInv ==
  /\ DequeInv
  /\ samples \subseteq Sample
  /\ AllOrExpired

\* Numbers, from the types of the samples.
LEMMA SampleParts ==
  ASSUME NEW s \in Sample
  PROVE  s.at \in Nat /\ s.counts \in Counts /\ \A r \in LogRule : s.counts[r] \in Nat
BY DEF Sample, Counts

LEMMA GrowsOn ==
  ASSUME NEW s \in Sample, NEW t \in Sample, NEW u \in Sample, Grows(s, t), Grows(t, u)
  PROVE  Grows(s, u)
BY SampleParts DEF Grows

\* Where the deque holds something.
LEMMA LastInside ==
  ASSUME history \in Seq(Sample), history # <<>>
  PROVE  /\ Len(history) \in Nat /\ 1 \in 1..Len(history)
         /\ Len(history) \in 1..Len(history)
         /\ Last \in Sample /\ history[1] \in Sample
         /\ \A i \in 1..Len(history) : history[i] \in Sample
<1>1. Len(history) \in Nat /\ Len(history) > 0
  BY EmptySeq, LenProperties
<1>2. \A i \in 1..Len(history) : history[i] \in Sample
  BY ElementOfSeq
<1>3. QED
  BY <1>1, <1>2 DEF Last

LEMMA DequeInit == AgentInit => DequeInv
<1> SUFFICES ASSUME AgentInit PROVE DequeInv
  OBVIOUS
<1>1. AgentTypeInv /\ history = <<>> /\ step = "collect"
  BY AgentInitType DEF AgentInit, NewProcess
<1>2. Len(history) = 0
  BY <1>1, EmptySeq
<1>3. QED
  BY <1>1, <1>2 DEF DequeInv, InOrder, CountersGrow, JudgedByWindow

LEMMA WindowInit == PastInit => WindowInv
<1> SUFFICES ASSUME PastInit PROVE WindowInv
  OBVIOUS
<1>1. history = <<>> /\ samples = {}
  BY DEF PastInit, AgentInit, NewProcess
<1>2. Len(history) = 0
  BY <1>1, EmptySeq
<1>3. QED
  BY <1>1, <1>2, DequeInit DEF PastInit, WindowInv, AllOrExpired

\* Where a sample of the trimmed deque stood before.
LEMMA ShiftInside ==
  ASSUME NEW l \in Nat, NEW d \in 0..l, NEW k, k = l + 1 - d
  PROVE  /\ k \in 1..k /\ (d = l => k = 1)
         /\ \A i \in 1..k : i # k => i \in 1..(k - 1) /\ i + d \in 1..l
OBVIOUS

\* Another evaluation: old samples have gone from the left, the new one is the last.
LEMMA DequeEvaluate ==
  ASSUME DequeInv, AgentTypeInv', Evaluate
  PROVE  DequeInv' /\ Last' = [at |-> now, counts |-> seen.counts]
<1> DEFINE new == [at |-> now, counts |-> seen.counts]
<1> USE DEF DequeInv, AgentTypeInv, AgentTypeOK
<1>1. /\ history \in Seq(Sample) /\ Len(history) \in Nat
      /\ \A i \in 1..Len(history) : history[i] \in Sample
  BY LenProperties, ElementOfSeq
<1>2. now \in Nat /\ seen.counts \in Counts /\ counts \in Counts
  OBVIOUS
<1>3. /\ step = "evaluate" /\ step' # "evaluate"
      /\ history' = Sampled(history, now, seen.counts)
      /\ now' = now /\ counts' = counts
  BY DEF Evaluate, AfterCollection
<1>4. PICK d \in 0..Len(history) : DroppedOf(history, now, seen.counts, d)
  BY <1>1, <1>2, SampledDrops
<1>5. /\ new \in Sample /\ new.at = now /\ new.counts = seen.counts
  BY <1>2 DEF Sample
<1> DEFINE L == Len(history)
           K == Len(history')
<1>6. /\ history' \in Seq(Sample) /\ K \in Nat /\ K = L + 1 - d
      /\ history'[K] = new
      /\ \A i \in 1..(K - 1) : history'[i] = history[i + d]
      /\ \A j \in 1..d : Expired(history[j], now)
      /\ d = L \/ ~Expired(history[d + 1], now)
  BY <1>3, <1>4, LenProperties DEF DroppedOf
<1> HIDE DEF new
<1>15. /\ K \in 1..K /\ (d = L => K = 1)
       /\ \A i \in 1..K : i # K => i \in 1..(K - 1) /\ i + d \in 1..L
  BY <1>1, <1>6, ShiftInside, Zenon
<1>7. \A i \in 1..L : Grows(history[i], new)
  <2> SUFFICES ASSUME NEW i \in 1..L PROVE Grows(history[i], new)
    OBVIOUS
  <2>1. history # <<>> /\ L \in 1..L
    BY <1>1, EmptySeq
  <2>2. Grows(history[i], Last)
    BY <1>1, <2>1 DEF InOrder, Last
  <2>3. Grows(Last, new)
    BY <1>3, <2>1 DEF CountersGrow, new
  <2>4. QED
    BY <1>1, <1>5, <2>1, <2>2, <2>3, GrowsOn, LastInside
<1>8. InOrder'
  <2> SUFFICES ASSUME NEW i \in 1..K, NEW j \in 1..K, i <= j
               PROVE  Grows(history'[i], history'[j])
    BY DEF InOrder
  <2>1. CASE j # K
    <3>0. i # K
      BY <1>6, <2>1
    <3>1. i \in 1..(K - 1) /\ j \in 1..(K - 1) /\ i + d \in 1..L /\ j + d \in 1..L
      BY <1>15, <2>1, <3>0, Zenon
    <3>2. i + d <= j + d
      OBVIOUS
    <3>3. QED
      BY <1>6, <3>1, <3>2 DEF InOrder
  <2>2. CASE j = K /\ i # K
    <3>1. i \in 1..(K - 1) /\ i + d \in 1..L
      BY <1>15, <2>2, Zenon
    <3>2. QED
      BY <1>6, <1>7, <2>2, <3>1
  <2>3. CASE j = K /\ i = K
    BY <1>5, <1>6, <2>3, SampleParts DEF Grows
  <2>4. QED
    BY <2>1, <2>2, <2>3
<1>10. Last' = new
  BY <1>6 DEF Last
<1>11. CountersGrow'
  <2>1. \A r \in LogRule : seen.counts[r] <= counts[r]
    BY <1>3 DEF CountersGrow
  <2>2. Grows(new, [at |-> now, counts |-> counts])
    BY <1>2, <1>5, <2>1 DEF Grows
  <2>3. QED
    BY <1>3, <1>10, <2>2 DEF CountersGrow
<1>12. JudgedByWindow'
  <2>1. \A c \in ALL_CONDITIONS :
          (detail'[c] = "True") <=>
            Active(history', seen.counts, seen.trouble \cup (trouble \cap {"probe"}), c)
    BY <1>3 DEF Evaluate
  <2>2. {"GPUUnrecoverable", "GPUEngineTimeout", "GPUWorkqueueStalled"} \subseteq ALL_CONDITIONS
    BY DEF ALL_CONDITIONS
  <2>3. /\ (detail'["GPUUnrecoverable"] = "True")
             <=> Hits(history', seen.counts, "fatal") > 0
        /\ (detail'["GPUEngineTimeout"] = "True")
             <=> Hits(history', seen.counts, "engine") >= ENGINE_TIMEOUT_RECURRENCE
        /\ Hits(history', seen.counts, "workqueue") > 0
             => (detail'["GPUWorkqueueStalled"] = "True")
    BY <2>1, <2>2 DEF Active
  <2>4. QED
    BY <1>5, <1>10, <2>3 DEF JudgedByWindow
<1>14. QED
  BY <1>8, <1>10, <1>11, <1>12 DEF new

LEMMA WindowEvaluate ==
  ASSUME WindowInv, AgentTypeInv', Evaluate,
         samples' = samples \cup {[at |-> now, counts |-> seen.counts]}
  PROVE  WindowInv'
<1> DEFINE new == [at |-> now, counts |-> seen.counts]
<1> USE DEF WindowInv, DequeInv, AgentTypeInv, AgentTypeOK
<1>1. /\ history \in Seq(Sample) /\ Len(history) \in Nat
      /\ \A i \in 1..Len(history) : history[i] \in Sample
  BY LenProperties, ElementOfSeq
<1>2. now \in Nat /\ seen.counts \in Counts /\ counts \in Counts
  OBVIOUS
<1>3. /\ step = "evaluate" /\ step' # "evaluate"
      /\ history' = Sampled(history, now, seen.counts)
      /\ now' = now /\ counts' = counts
  BY DEF Evaluate, AfterCollection
<1>4. PICK d \in 0..Len(history) : DroppedOf(history, now, seen.counts, d)
  BY <1>1, <1>2, SampledDrops
<1>5. /\ new \in Sample /\ new.at = now /\ new.counts = seen.counts
      /\ samples' = samples \cup {new}
  BY <1>2 DEF Sample
<1> DEFINE L == Len(history)
           K == Len(history')
<1>6. /\ history' \in Seq(Sample) /\ K \in Nat /\ K = L + 1 - d
      /\ history'[K] = new
      /\ \A i \in 1..(K - 1) : history'[i] = history[i + d]
      /\ \A j \in 1..d : Expired(history[j], now)
      /\ d = L \/ ~Expired(history[d + 1], now)
  BY <1>3, <1>4, LenProperties DEF DroppedOf
<1> HIDE DEF new
<1>15. /\ K \in 1..K /\ (d = L => K = 1)
       /\ \A i \in 1..K : i # K => i \in 1..(K - 1) /\ i + d \in 1..L
  BY <1>1, <1>6, ShiftInside, Zenon
<1>9. AllOrExpired'
  <2>1. \A i \in 1..K : history'[i] \in samples'
    <3> SUFFICES ASSUME NEW i \in 1..K PROVE history'[i] \in samples'
      OBVIOUS
    <3>1. CASE i = K
      BY <1>5, <1>6, <3>1
    <3>2. CASE i # K
      <4>1. i \in 1..(K - 1) /\ i + d \in 1..L
        BY <1>15, <3>2, Zenon
      <4>2. QED
        BY <1>5, <1>6, <4>1 DEF AllOrExpired
    <3>3. QED
      BY <3>1, <3>2
  <2>2. ASSUME NEW s \in samples
        PROVE  (\E i \in 1..K : s = history'[i]) \/ Expired(s, now)
    <3>1. s \in Sample /\ history # <<>>
      BY DEF AllOrExpired
    <3>2. CASE Expired(s, Last.at)
      <4>1. Last \in Sample
        BY <1>1, <3>1, LastInside
      <4>2. Last.at <= now /\ Last.at \in Nat /\ s.at \in Nat
        BY <3>1, <4>1, SampleParts DEF CountersGrow, Grows
      <4>3. QED
        BY <1>2, <3>2, <4>2, WindowAssumption DEF Expired
    <3>3. ASSUME NEW j \in 1..L, s = history[j]
          PROVE  (\E i \in 1..K : s = history'[i]) \/ Expired(s, now)
      <4>1. CASE j <= d
        BY <1>6, <3>3, <4>1
      <4>2. CASE ~(j <= d)
        <5>1. j - d \in 1..(K - 1) /\ (j - d) + d = j /\ j - d \in 1..K
          BY <1>1, <1>6, <4>2
        <5>2. QED
          BY <1>6, <3>3, <5>1
      <4>3. QED
        BY <4>1, <4>2
    <3>4. QED
      BY <3>2, <3>3 DEF AllOrExpired
  <2>3. Last' = new /\ K \in 1..K
    BY <1>1, <1>6 DEF Last
  <2>4. history' # <<>>
    BY <1>1, <1>6, EmptySeq
  <2>5. ~Expired(history'[1], now)
    <3>1. CASE d = L
      <4>1. history'[1] = new
        BY <1>6, <1>15, <3>1
      <4>2. history'[1].at = now
        BY <1>5, <4>1
      <4>3. now - history'[1].at = 0
        BY <1>2, <4>2
      <4>4. QED
        BY <4>3, WindowAssumption DEF Expired
    <3>2. CASE d # L
      <4>1. 1 \in 1..(K - 1) /\ 1 + d = d + 1
        BY <1>1, <1>6, <3>2
      <4>2. QED
        BY <1>6, <3>2, <4>1
    <3>3. QED
      BY <3>1, <3>2
  <2>6. QED
    BY <1>5, <1>6, <2>1, <2>2, <2>3, <2>4, <2>5 DEF AllOrExpired
<1>13. samples' \subseteq Sample
  BY <1>5
<1>14. DequeInv'
  BY DequeEvaluate
<1>16. QED
  BY <1>9, <1>13, <1>14

\* A step that evaluates nothing; the clock, the counters and the loop may go on.
LEMMA DequeKept ==
  ASSUME DequeInv, AgentTypeInv', UNCHANGED <<history, detail>>,
         now <= now', \A r \in LogRule : counts[r] <= counts'[r],
         step' = "evaluate" =>
           \/ seen'.counts = counts'
           \/ step = "evaluate" /\ now' = now /\ UNCHANGED seen
  PROVE  DequeInv'
<1> USE DEF DequeInv, AgentTypeInv, AgentTypeOK
<1>1. InOrder' /\ JudgedByWindow'
  BY DEF InOrder, JudgedByWindow, Last
<1>2. /\ now \in Nat /\ now' \in Nat
      /\ \A r \in LogRule : counts[r] \in Nat /\ counts'[r] \in Nat
  BY DEF Counts
<1>3. history # <<>> => Grows(Last, [at |-> now', counts |-> counts'])
  <2> SUFFICES ASSUME history # <<>>
               PROVE  Grows(Last, [at |-> now', counts |-> counts'])
    OBVIOUS
  <2>1. Last \in Sample
    BY LastInside
  <2>2. Last.at \in Nat /\ \A r \in LogRule : Last.counts[r] \in Nat
    BY <2>1, SampleParts
  <2>3. Last.at <= now /\ \A r \in LogRule : Last.counts[r] <= counts[r]
    BY DEF CountersGrow, Grows
  <2>4. QED
    BY <1>2, <2>2, <2>3 DEF Grows
<1>4. Last' = Last
  BY DEF Last
<1>5. CASE step' # "evaluate"
  BY <1>1, <1>3, <1>4, <1>5 DEF CountersGrow
<1>6. CASE seen'.counts = counts'
  BY <1>1, <1>2, <1>3, <1>4, <1>6 DEF CountersGrow
<1>7. CASE step = "evaluate" /\ now' = now /\ UNCHANGED seen
  <2>1. \A r \in LogRule : seen.counts[r] \in Nat /\ seen.counts[r] <= counts[r]
    BY <1>7 DEF CountersGrow, Counts
  <2>2. \A r \in LogRule : seen.counts[r] <= counts'[r]
    BY <1>2, <2>1
  <2>3. QED
    BY <1>1, <1>3, <1>4, <1>7, <2>2 DEF CountersGrow
<1>8. QED
  BY <1>5, <1>6, <1>7

LEMMA DequeStep ==
  ASSUME DequeInv, [AgentNext]_agentVars
  PROVE  DequeInv'
<1>1. AgentTypeInv /\ AgentTypeInv'
  BY AgentKeepsTypes DEF DequeInv
<1>2. now \in Nat /\ clock \in Nat /\ now <= clock /\ \A r \in LogRule : counts[r] \in Nat
  BY AgentAssumption, <1>1 DEF AgentTypeInv, AgentTypeOK, Counts
<1> USE DEF worldVars, evaluatorVars, publisherVars, loopVars
<1>3. CASE Evaluate
  BY <1>1, <1>3, DequeEvaluate
<1>4. CASE RestartAgent
  <2>1. history' = <<>> /\ step' = "collect"
    BY <1>4 DEF RestartAgent
  <2>2. Len(history') = 0
    BY <2>1, EmptySeq
  <2>3. QED
    BY <1>1, <2>1, <2>2 DEF DequeInv, InOrder, CountersGrow, JudgedByWindow
<1>5. CASE BuildReport
  BY <1>1, <1>2, <1>5, DequeKept DEF BuildReport
<1>6. CASE CollectRaises
  BY <1>1, <1>2, <1>6, DequeKept DEF CollectRaises, AfterCollection
<1>7. CASE Collect
  BY <1>1, <1>2, <1>7, DequeKept DEF Collect
<1>8. CASE NotDue
  BY <1>1, <1>2, <1>8, DequeKept DEF NotDue
<1>9. CASE NothingToPublish
  BY <1>1, <1>2, <1>9, DequeKept DEF NothingToPublish
<1>10. ASSUME NEW applied \in BOOLEAN, Patch(applied)
       PROVE  DequeInv'
  BY <1>1, <1>2, <1>10, DequeKept DEF Patch
<1>11. ASSUME NEW rule \in Watched, CountLine(rule)
       PROVE  DequeInv'
  <2>1. \A r \in LogRule : counts[r] <= counts'[r]
    BY <1>1, <1>2, <1>11 DEF CountLine, AgentTypeInv, AgentTypeOK, Counts
  <2>2. /\ UNCHANGED <<history, detail, now, seen, step>>
    BY <1>11 DEF CountLine
  <2>3. QED
    BY <1>1, <1>2, <1>11, <2>1, <2>2, DequeKept
<1>12. ASSUME NEW t \in Disturbed, ComesOrGoes(t)
       PROVE  DequeInv'
  BY <1>1, <1>2, <1>12, DequeKept DEF ComesOrGoes
<1>13. CASE Tick
  BY <1>1, <1>2, <1>13, DequeKept DEF Tick
<1>14. CASE UNCHANGED agentVars
  BY <1>1, <1>2, <1>14, DequeKept DEF agentVars
<1>15. QED
  BY <1>3, <1>4, <1>5, <1>6, <1>7, <1>8, <1>9, <1>10, <1>11, <1>12, <1>13, <1>14
     DEF AgentNext, AgentGoes, AgentFails, World

LEMMA WindowStep ==
  ASSUME WindowInv, [PastNext]_pastAgentVars
  PROVE  WindowInv'
<1>1. AgentTypeInv' /\ DequeInv'
  BY PastStep, DequeStep DEF WindowInv, DequeInv
<1> USE DEF evaluatorVars, pastVars
<1>2. CASE Evaluate /\ samples' = samples \cup {[at |-> now, counts |-> seen.counts]}
  BY <1>1, <1>2, WindowEvaluate
<1>3. CASE RestartAgent /\ samples' = {}
  <2>1. history' = <<>> /\ samples' = {}
    BY <1>3 DEF RestartAgent
  <2>2. Len(history') = 0
    BY <2>1, EmptySeq
  <2>3. QED
    BY <1>1, <2>1, <2>2 DEF WindowInv, AllOrExpired
<1>4. CASE UNCHANGED <<history, samples>>
  BY <1>1, <1>4 DEF WindowInv, AllOrExpired, Last
<1>5. ASSUME UNCHANGED samples,
             \/ BuildReport \/ Collect \/ CollectRaises \/ NotDue \/ NothingToPublish
             \/ Patch(TRUE) \/ Patch(FALSE) \/ Tick
             \/ (\E r \in Watched : CountLine(r)) \/ \E t \in Disturbed : ComesOrGoes(t)
      PROVE  WindowInv'
  <2>1. UNCHANGED history
    BY <1>5
       DEF BuildReport, Collect, CollectRaises, NotDue, NothingToPublish, Patch, CountLine,
           ComesOrGoes, Tick
  <2>2. QED BY <1>4, <1>5, <2>1
<1>6. CASE UNCHANGED pastAgentVars
  BY <1>4, <1>6 DEF pastAgentVars, agentVars
<1>7. QED
  BY <1>2, <1>3, <1>5, <1>6 DEF PastNext

\* The deque answers as all samples of the process would.
LEMMA HitsAreCounted ==
  ASSUME WindowInv, history # <<>>, NEW rule \in LogRule, NEW n \in Nat
  PROVE  CountedInWindow(rule, n) <=> Hits(history, Last.counts, rule) >= n
<1>1. history \in Seq(Sample) /\ samples \subseteq Sample
  BY DEF WindowInv, DequeInv, AgentTypeInv, AgentTypeOK
<1>2. /\ Len(history) \in Nat /\ 1 \in 1..Len(history)
      /\ Last \in Sample /\ history[1] \in Sample
      /\ \A i \in 1..Len(history) : history[i] \in Sample
  BY <1>1, LastInside
<1>3. ASSUME Hits(history, Last.counts, rule) >= n
      PROVE  CountedInWindow(rule, n)
  <2>1. history[1] \in samples /\ ~Expired(history[1], Last.at)
    BY <1>2 DEF WindowInv, AllOrExpired
  <2>2. Last.at - history[1].at <= WINDOW_SECONDS
    BY <1>2, <2>1, SampleParts, WindowAssumption DEF Expired
  <2>3. Last.counts[rule] - history[1].counts[rule] >= n
    BY <1>3 DEF Hits
  <2>4. QED
    BY <2>1, <2>2, <2>3 DEF CountedInWindow, Last
<1>4. ASSUME NEW s \in samples, Last.at - s.at <= WINDOW_SECONDS,
             Last.counts[rule] - s.counts[rule] >= n
      PROVE  Hits(history, Last.counts, rule) >= n
  <2>1. s \in Sample
    BY <1>1
  <2>2. ~Expired(s, Last.at)
    BY <1>2, <1>4, <2>1, SampleParts, WindowAssumption DEF Expired
  <2>3. PICK i \in 1..Len(history) : s = history[i]
    BY <2>2 DEF WindowInv, AllOrExpired
  <2>4. Grows(history[1], s)
    BY <1>2, <2>3 DEF WindowInv, DequeInv, InOrder
  <2>5. /\ history[1].counts[rule] <= s.counts[rule]
        /\ history[1].counts[rule] \in Nat /\ s.counts[rule] \in Nat
        /\ Last.counts[rule] \in Nat
    BY <1>2, <2>1, <2>4, SampleParts DEF Grows
  <2>6. QED
    BY <1>4, <2>5 DEF Hits
<1>5. QED
  BY <1>3, <1>4 DEF CountedInWindow, Last

LEMMA WindowImplies == WindowInv => ActiveExactlyInWindow
<1> SUFFICES ASSUME WindowInv, history # <<>> PROVE ActiveExactlyInWindow
  BY DEF ActiveExactlyInWindow
<1>1. history \in Seq(Sample)
  BY DEF WindowInv, DequeInv, AgentTypeInv, AgentTypeOK
<1>2. \A r \in LogRule : Hits(history, Last.counts, r) \in Int
  BY <1>1, LastInside, SampleParts DEF Hits
<1>3. {"fatal", "engine", "workqueue"} \subseteq LogRule
  BY DEF LogRule
<1>4. CountedInWindow("fatal", 1) <=> Hits(history, Last.counts, "fatal") > 0
  BY <1>2, <1>3, HitsAreCounted
<1>5. CountedInWindow("workqueue", 1) <=> Hits(history, Last.counts, "workqueue") > 0
  BY <1>2, <1>3, HitsAreCounted
<1>6. CountedInWindow("engine", ENGINE_TIMEOUT_RECURRENCE)
        <=> Hits(history, Last.counts, "engine") >= ENGINE_TIMEOUT_RECURRENCE
  BY <1>3, HitsAreCounted, WindowAssumption
<1>7. QED
  BY <1>4, <1>5, <1>6 DEF WindowInv, DequeInv, JudgedByWindow, ActiveExactlyInWindow

(* Whatever collections fail and however long they lie apart: the trimmed   *)
(* deque makes a log condition active exactly when all samples of the       *)
(* process would.                                                           *)
THEOREM ActiveExactlyInWindowHolds == PastSpec => []ActiveExactlyInWindow
BY WindowInit, WindowStep, WindowImplies, PTL DEF PastSpec

-----------------------------------------------------------------------------
(* The dwell time, from the report to the cordon.                          *)

\* Where a view of the Node says "True", a row of such reports has begun, no later than
\* the stamp says.
RowCovers(view, row) ==
  \A c \in ALL_CONDITIONS :
    view[c].status = "True" => row[c] # NoTime /\ row[c] <= view[c].since

RowsCover ==
  /\ RowCovers(node, shown)
  /\ RowCovers(gview, gshown)
  /\ step = "patch" => RowCovers(report, said)

\* So it is with what the publisher remembers.
RememberedRow ==
  \A c \in ALL_CONDITIONS :
    /\ last_status[c] = "True" => said[c] # NoTime /\ said[c] <= transitions[c]
    /\ said[c] <= clock

\* The guard goes to cordon for a condition that is old enough.
OldEnough ==
  gstep = "cordon" =>
    \E c \in Policy!Trigger :
      /\ Policy!Triggers(Snapshot(gview), c)
      /\ gview[c].since # NoTime
      /\ gnow - gview[c].since >= CONDITION_MIN_AGE_SECONDS

DwellInv ==
  /\ AgentTypeInv
  /\ AgentGuardTypeOK
  /\ RowsCover
  /\ RememberedRow
  /\ OldEnough

LEMMA DwellInit == AgentGuardInit => DwellInv
<1> SUFFICES ASSUME AgentGuardInit PROVE DwellInv
  OBVIOUS
<1>1. AgentTypeInv
  BY AgentInitType DEF AgentGuardInit
<1>2. NoRow \in Rows /\ \A c \in ALL_CONDITIONS : NoRow[c] = NoTime
  BY DEF NoRow, Rows, Time
<1>3. \A c \in ALL_CONDITIONS : Nothing[c].status # "True"
  BY DEF Nothing, Unset
<1>4. AgentGuardTypeOK
  <2>1. /\ gview \in [ALL_CONDITIONS -> NodeCondition]
        /\ said \in Rows /\ shown \in Rows /\ gshown \in Rows
    BY <1>2, NewProcessTypes, Zenon DEF AgentGuardInit
  <2>2. gnow \in 0..MaxClock /\ faults \in 0..MaxFaults
    BY AgentAssumption, AgentGuardAssumption DEF AgentGuardInit
  <2>3. unschedulable \in BOOLEAN /\ restarted \in BOOLEAN
    BY DEF AgentGuardInit
  <2>4. gstep \in {"idle", "list", "cordon"}
    BY DEF AgentGuardInit
  <2>5. QED
    BY <1>1, <2>1, <2>2, <2>3, <2>4 DEF AgentGuardTypeOK, AgentTypeInv
<1>5. RowsCover
  <2>1. node = Nothing /\ gview = Nothing /\ step = "collect"
    BY DEF AgentGuardInit, AgentInit, NewProcess
  <2>2. QED
    BY <1>3, <2>1 DEF RowsCover, RowCovers
<1>6. RememberedRow
  <2>1. last_status = Unjudged /\ said = NoRow /\ clock = 0
    BY DEF AgentGuardInit, AgentInit, NewProcess
  <2>2. \A c \in ALL_CONDITIONS : Unjudged[c] # "True"
    BY DEF Unjudged, Unset
  <2>3. QED
    BY <1>2, <2>1, <2>2 DEF RememberedRow, NoTime
<1>7. OldEnough
  BY DEF AgentGuardInit, OldEnough
<1>8. QED
  BY <1>1, <1>4, <1>5, <1>6, <1>7 DEF DwellInv

\* The reason "cordon" is given for no condition that is too young.
LEMMA CordonIsForTheOld ==
  ASSUME NEW view, Cordons(view)
  PROVE  \E c \in Policy!Trigger :
           /\ Policy!Triggers(Snapshot(view), c)
           /\ view[c].since # NoTime
           /\ ~(gnow - view[c].since < CONDITION_MIN_AGE_SECONDS)
<1> DEFINE nodes == [n \in {1} |-> Snapshot(view)]
<1>1. nodes[1] = Snapshot(view)
  OBVIOUS
<1>2. Policy!Reason(nodes, 1, gnow, 1) = "cordon"
  BY DEF Cordons
<1> HIDE DEF nodes
<1>3. /\ Policy!CordonWorthy(nodes[1])
      /\ \A c \in Policy!Trigger :
           Policy!Triggers(nodes[1], c) => ~Policy!TooYoung(nodes[1], c, gnow)
  BY <1>2 DEF Policy!Reason
<1>4. PICK c \in Policy!Trigger : Policy!Triggers(Snapshot(view), c)
  BY <1>1, <1>3 DEF Policy!CordonWorthy
<1>5. ~Policy!TooYoung(Snapshot(view), c, gnow)
  BY <1>1, <1>3, <1>4
<1>6. c \in ALL_CONDITIONS
  BY DEF Policy!Trigger, ALL_CONDITIONS
<1>7. Snapshot(view).cond[c].since = view[c].since
  BY <1>6 DEF Snapshot
<1>8. QED
  BY <1>4, <1>5, <1>7 DEF Policy!TooYoung, Policy!NoTime, NoTime

\* What triggers is "True" in the view.
LEMMA TriggersTrue ==
  ASSUME NEW view, NEW c \in Policy!Trigger, Policy!Triggers(Snapshot(view), c)
  PROVE  c \in ALL_CONDITIONS /\ view[c].status = "True"
<1>1. c \in ALL_CONDITIONS
  BY DEF Policy!Trigger, ALL_CONDITIONS
<1>2. Snapshot(view).cond[c].status
  BY DEF Policy!Triggers, Policy!Active
<1>3. QED
  BY <1>1, <1>2 DEF Snapshot

\* A step that delivers nothing: no report is built, none reaches the Node, none is
\* listed, and nobody decides.
LEMMA DwellKept ==
  ASSUME DwellInv, AgentTypeInv', AgentGuardTypeOK', clock <= clock',
         UNCHANGED <<node, last_status, transitions, said, shown, gview, gshown>>,
         step' = "patch" => step = "patch" /\ UNCHANGED report,
         gstep' = "cordon" => UNCHANGED <<gstep, gnow, unschedulable>>
  PROVE  DwellInv'
<1>1. RowsCover'
  BY DEF DwellInv, RowsCover, RowCovers
<1>2. RememberedRow'
  <2>1. /\ clock \in Nat /\ clock' \in Nat
        /\ \A c \in ALL_CONDITIONS : said[c] \in Int
    BY AgentAssumption
       DEF AgentTypeInv, AgentTypeOK, DwellInv, AgentGuardTypeOK, Rows, Time, NoTime
  <2>2. QED
    BY <2>1 DEF DwellInv, RememberedRow
<1>3. OldEnough'
  <2> SUFFICES ASSUME gstep' = "cordon" PROVE OldEnough'
    BY DEF OldEnough
  <2>1. UNCHANGED <<gstep, gnow, unschedulable, gview>>
    OBVIOUS
  <2>2. QED
    BY <2>1 DEF DwellInv, OldEnough, Snapshot, Policy!Triggers, Policy!Active
<1>4. QED
  BY <1>1, <1>2, <1>3 DEF DwellInv

LEMMA DwellBuilt ==
  ASSUME DwellInv, Built
  PROVE  DwellInv'
<1>1. AgentTypeInv
  BY DEF DwellInv
<1>2. /\ AgentTypeInv'
      /\ \A c \in ALL_CONDITIONS :
           /\ transitions'[c] = Transition(c) /\ transitions'[c] \in Nat
           /\ report'[c] = [status |-> detail[c], since |-> transitions'[c]]
  BY <1>1, BuildKeepsTypes DEF Built
<1>3. /\ last_status' = detail /\ clock' = clock /\ step' = "patch"
      /\ UNCHANGED <<node, shown, gview, gshown, gstep, gnow, unschedulable, faults,
                     restarted>>
      /\ said' = [c \in ALL_CONDITIONS |->
                   IF detail[c] # "True" THEN NoTime
                   ELSE IF said[c] = NoTime THEN clock ELSE said[c]]
  BY DEF Built, BuildReport, guardVars
<1>4. /\ clock \in Nat
      /\ \A c \in ALL_CONDITIONS : said[c] \in Time /\ said[c] <= clock
  BY AgentAssumption, <1>1
     DEF AgentTypeInv, AgentTypeOK, DwellInv, AgentGuardTypeOK, Rows, RememberedRow
<1>5. ASSUME NEW c \in ALL_CONDITIONS
      PROVE  /\ said'[c] \in Time /\ said'[c] <= clock
             /\ detail[c] = "True" => said'[c] # NoTime /\ said'[c] <= transitions'[c]
  <2>1. said'[c] = IF detail[c] # "True" THEN NoTime
                   ELSE IF said[c] = NoTime THEN clock ELSE said[c]
    BY <1>3
  <2>2. CASE detail[c] # "True"
    BY <1>4, <2>1, <2>2 DEF Time, NoTime
  <2>3. CASE detail[c] = "True" /\ last_status[c] # "True"
    <3>1. transitions'[c] = clock
      BY <1>2, <2>3 DEF Transition
    <3>2. QED
      BY <1>4, <2>1, <2>3, <3>1 DEF Time, NoTime
  <2>4. CASE detail[c] = "True" /\ last_status[c] = "True"
    <3>1. transitions'[c] = transitions[c]
      BY <1>2, <2>4 DEF Transition
    <3>2. said[c] # NoTime /\ said[c] <= transitions[c]
      BY <2>4 DEF DwellInv, RememberedRow
    <3>3. QED
      BY <1>4, <2>1, <2>4, <3>1, <3>2
  <2>5. QED
    BY <2>2, <2>3, <2>4
<1>6. said' \in Rows
  <2>1. said' = [c \in ALL_CONDITIONS |-> said'[c]]
    BY <1>3
  <2>2. QED
    BY <1>5, <2>1 DEF Rows
<1>7. AgentGuardTypeOK'
  BY <1>2, <1>3, <1>6 DEF DwellInv, AgentGuardTypeOK, AgentTypeInv
<1>8. RowsCover'
  <2>1. RowCovers(node, shown)' /\ RowCovers(gview, gshown)'
    BY <1>3 DEF DwellInv, RowsCover, RowCovers
  <2>2. RowCovers(report, said)'
    <3>1. ASSUME NEW c \in ALL_CONDITIONS
          PROVE  report'[c].status = detail[c] /\ report'[c].since = transitions'[c]
      <4>1. report'[c] = [status |-> detail[c], since |-> transitions'[c]]
        BY <1>2, Zenon
      <4>2. QED
        BY <4>1
    <3>2. QED
      BY <1>5, <3>1 DEF RowCovers
  <2>3. QED
    BY <2>1, <2>2 DEF RowsCover
<1>9. RememberedRow'
  BY <1>3, <1>5 DEF RememberedRow
<1>10. OldEnough'
  BY <1>3 DEF DwellInv, OldEnough, Snapshot, Policy!Triggers, Policy!Active
<1>11. QED
  BY <1>2, <1>7, <1>8, <1>9, <1>10 DEF DwellInv

LEMMA DwellListed ==
  ASSUME DwellInv, List, UNCHANGED <<agentVars, saidVars, faults>>
  PROVE  DwellInv'
<1>1. /\ gview' = node /\ gshown' = shown
      /\ gstep' = IF Cordons(node) THEN "cordon" ELSE "idle"
      /\ UNCHANGED <<unschedulable, gnow>>
  BY DEF List
<1>2. /\ UNCHANGED <<clock, node, step, report, last_status, transitions, said, shown,
                     restarted, faults>>
      /\ AgentTypeInv'
  BY AgentKeepsTypes DEF agentVars, publisherVars, loopVars, saidVars, DwellInv
<1>3. AgentTypeOK
  BY DEF DwellInv, AgentTypeInv
<1>4. AgentGuardTypeOK'
  <2>1. gstep' \in {"idle", "list", "cordon"}
    BY <1>1
  <2>2. gview' \in [ALL_CONDITIONS -> NodeCondition]
    BY <1>1, <1>3 DEF AgentTypeOK
  <2>3. QED
    BY <1>1, <1>2, <2>1, <2>2 DEF DwellInv, AgentGuardTypeOK, AgentTypeInv
<1>5. RowsCover'
  BY <1>1, <1>2 DEF DwellInv, RowsCover, RowCovers
<1>6. RememberedRow'
  BY <1>2 DEF DwellInv, RememberedRow
<1>7. OldEnough'
  <2> SUFFICES ASSUME gstep' = "cordon" PROVE OldEnough'
    BY DEF OldEnough
  <2>1. Cordons(node)
    BY <1>1
  <2>2. PICK c \in Policy!Trigger :
          /\ Policy!Triggers(Snapshot(node), c)
          /\ node[c].since # NoTime
          /\ ~(gnow - node[c].since < CONDITION_MIN_AGE_SECONDS)
    BY <2>1, CordonIsForTheOld
  <2>3. gnow \in Int /\ node[c].since \in Int /\ CONDITION_MIN_AGE_SECONDS \in Int
    <3>1. c \in ALL_CONDITIONS
      BY <2>2, TriggersTrue
    <3>2. node[c] \in NodeCondition
      BY <1>3, <3>1 DEF AgentTypeOK
    <3>3. node[c].since \in Time
      BY <3>2 DEF NodeCondition
    <3>4. QED
      BY <3>3, AgentAssumption, AgentGuardAssumption
         DEF DwellInv, AgentGuardTypeOK, Time, NoTime
  <2>4. gnow - node[c].since >= CONDITION_MIN_AGE_SECONDS
    BY <2>2, <2>3
  <2>5. \A d \in Policy!Trigger : d \in ALL_CONDITIONS
    BY DEF Policy!Trigger, ALL_CONDITIONS
  <2>6. QED
    BY <1>1, <2>2, <2>4 DEF OldEnough, Snapshot, Policy!Triggers, Policy!Active
<1>8. QED
  BY <1>2, <1>4, <1>5, <1>6, <1>7 DEF DwellInv

LEMMA DwellStep ==
  ASSUME DwellInv, [AgentGuardNext]_allVars
  PROVE  DwellInv'
<1>1. AgentTypeInv /\ AgentTypeInv'
  BY TogetherStep, AgentKeepsTypes DEF DwellInv
<1>2. /\ AgentGuardTypeOK /\ faults \in Nat
      /\ clock \in Nat /\ clock \in 0..MaxClock
  BY AgentAssumption, AgentGuardAssumption
     DEF DwellInv, AgentTypeInv, AgentTypeOK, AgentGuardTypeOK
<1> USE DEF worldVars, evaluatorVars, publisherVars, loopVars, guardVars, saidVars
<1>3. CASE UNCHANGED <<saidVars, guardVars>> /\ faults' \in 0..MaxFaults
           /\ UNCHANGED <<node, last_status, transitions>> /\ clock <= clock'
           /\ (step' = "patch" => step = "patch" /\ UNCHANGED report)
  <2>1. AgentGuardTypeOK'
    BY <1>1, <1>2, <1>3 DEF AgentGuardTypeOK, AgentTypeInv
  <2>2. QED
    BY <1>1, <1>3, <2>1, DwellKept
<1>4. ASSUME AgentStep
      PROVE  DwellInv'
  <2>1. faults \in 0..MaxFaults
    BY <1>2 DEF AgentGuardTypeOK
  <2>2. CASE Collect /\ UNCHANGED <<saidVars, guardVars, faults>>
    BY <1>2, <1>3, <2>1, <2>2 DEF Collect
  <2>3. CASE Evaluate /\ UNCHANGED <<saidVars, guardVars, faults>>
    BY <1>2, <1>3, <2>1, <2>3 DEF Evaluate, AfterCollection
  <2>4. CASE NotDue /\ UNCHANGED <<saidVars, guardVars, faults>>
    BY <1>2, <1>3, <2>1, <2>4 DEF NotDue
  <2>5. CASE NothingToPublish /\ UNCHANGED <<saidVars, guardVars, faults>>
    BY <1>2, <1>3, <2>1, <2>5 DEF NothingToPublish
  <2>6. CASE World /\ UNCHANGED <<saidVars, guardVars, faults>>
    BY <1>2, <1>3, <2>1, <2>6 DEF World, CountLine, ComesOrGoes
  <2>7. CASE Built
    BY <2>7, DwellBuilt DEF DwellInv
  <2>8. CASE Delivered
    <3>1. /\ step = "patch" /\ step' = "wait" /\ node' = report /\ shown' = said
          /\ UNCHANGED <<clock, last_status, transitions, said, restarted,
                         unschedulable, gstep, gnow, gview, gshown, faults>>
      BY <2>8 DEF Delivered, Patch
    <3>2. AgentGuardTypeOK'
      BY <1>1, <1>2, <3>1 DEF AgentGuardTypeOK, AgentTypeInv
    <3>3. RowsCover'
      BY <3>1 DEF DwellInv, RowsCover, RowCovers
    <3>4. RememberedRow'
      BY <3>1 DEF DwellInv, RememberedRow
    <3>5. OldEnough'
      BY <3>1 DEF DwellInv, OldEnough, Snapshot, Policy!Triggers, Policy!Active
    <3>6. QED
      BY <1>1, <3>2, <3>3, <3>4, <3>5 DEF DwellInv
  <2>9. CASE Restarted
    <3>1. /\ step' = "collect" /\ last_status' = Unjudged
          /\ UNCHANGED <<clock, node, said, shown, unschedulable, gstep, gnow, gview,
                         gshown, faults>>
      BY <2>9 DEF Restarted, RestartAgent
    <3>2. restarted' \in BOOLEAN
      BY <2>9 DEF Restarted
    <3>3. AgentGuardTypeOK'
      BY <1>1, <1>2, <3>1, <3>2 DEF AgentGuardTypeOK, AgentTypeInv
    <3>4. RowsCover'
      BY <3>1 DEF DwellInv, RowsCover, RowCovers
    <3>5. \A c \in ALL_CONDITIONS : last_status'[c] # "True"
      BY <3>1 DEF Unjudged, Unset
    <3>6. RememberedRow'
      BY <3>1, <3>5 DEF DwellInv, RememberedRow
    <3>7. OldEnough'
      BY <3>1 DEF DwellInv, OldEnough, Snapshot, Policy!Triggers, Policy!Active
    <3>8. QED
      BY <1>1, <3>3, <3>4, <3>6, <3>7 DEF DwellInv
  <2>10. QED
    BY <1>4, <2>2, <2>3, <2>4, <2>5, <2>6, <2>7, <2>8, <2>9 DEF AgentStep
<1>5. CASE AgentStumbles
  <2>1. faults' \in 0..MaxFaults /\ UNCHANGED <<saidVars, guardVars>>
    BY <1>2, <1>5, AgentGuardAssumption DEF AgentStumbles
  <2>2. CASE CollectRaises
    BY <1>2, <1>3, <2>1, <2>2 DEF CollectRaises, AfterCollection
  <2>3. CASE Patch(FALSE)
    BY <1>2, <1>3, <2>1, <2>3 DEF Patch
  <2>4. QED
    BY <1>5, <2>2, <2>3 DEF AgentStumbles
<1>6. CASE List /\ UNCHANGED <<agentVars, saidVars, faults>>
  BY <1>6, DwellListed
<1>7. CASE (StartLoop \/ Cordon \/ GuardStumbles)
             /\ UNCHANGED <<agentVars, saidVars>> /\ faults' \in 0..MaxFaults
  <2>1. /\ gstep' \in {"idle", "list"} /\ gnow' \in 0..MaxClock
        /\ UNCHANGED <<gview, gshown, said, shown, restarted, clock, node, step,
                       report, last_status, transitions>>
    BY <1>2, <1>7
       DEF StartLoop, Cordon, GuardStumbles, agentVars, AgentGuardTypeOK
  <2>2. unschedulable' \in BOOLEAN
    BY <1>2, <1>7 DEF StartLoop, Cordon, GuardStumbles, AgentGuardTypeOK
  <2>3. AgentGuardTypeOK'
    BY <1>1, <1>2, <1>7, <2>1, <2>2 DEF AgentGuardTypeOK, AgentTypeInv
  <2>4. QED
    BY <1>1, <1>2, <2>1, <2>3, DwellKept
<1>8. CASE GuardStep
  BY <1>2, <1>6, <1>7, <1>8 DEF GuardStep, AgentGuardTypeOK
<1>9. CASE GuardStumbles
  <2>1. faults' \in 0..MaxFaults /\ UNCHANGED <<agentVars, saidVars>>
    BY <1>2, <1>9, AgentGuardAssumption DEF GuardStumbles
  <2>2. QED
    BY <1>7, <1>9, <2>1
<1>10. CASE TimePasses
  BY <1>2, <1>3, <1>10 DEF TimePasses, Tick, AgentGuardTypeOK
<1>11. CASE UNCHANGED allVars
  BY <1>2, <1>3, <1>11 DEF allVars, agentVars, AgentGuardTypeOK
<1>12. QED
  BY <1>4, <1>5, <1>8, <1>9, <1>10, <1>11 DEF AgentGuardNext

LEMMA DwellImplies == DwellInv => DwellHeld
<1> SUFFICES ASSUME DwellInv, gstep = "cordon" PROVE DwellHeld
  BY DEF DwellHeld
<1>1. PICK c \in Policy!Trigger :
        /\ Policy!Triggers(Snapshot(gview), c)
        /\ gview[c].since # NoTime
        /\ gnow - gview[c].since >= CONDITION_MIN_AGE_SECONDS
  BY DEF DwellInv, OldEnough
<1>2. c \in ALL_CONDITIONS /\ gview[c].status = "True"
  BY <1>1, TriggersTrue
<1>3. gshown[c] # NoTime /\ gshown[c] <= gview[c].since
  BY <1>2 DEF DwellInv, RowsCover, RowCovers
<1>4. gview[c].since \in Int /\ gshown[c] \in Int /\ gnow \in Int
  <2>1. gview[c] \in NodeCondition /\ gshown[c] \in Time /\ gnow \in Int
    BY <1>2, AgentAssumption DEF DwellInv, AgentGuardTypeOK, Rows
  <2>2. gview[c].since \in Time
    BY <2>1 DEF NodeCondition
  <2>3. QED
    BY <2>1, <2>2 DEF Time, NoTime
<1>5. gnow - gshown[c] >= CONDITION_MIN_AGE_SECONDS
  BY <1>1, <1>3, <1>4, AgentGuardAssumption
<1>6. QED
  BY <1>1, <1>3, <1>5 DEF DwellHeld

\* Together with the guard, too, every variable keeps its type.
THEOREM AgentGuardTypeCorrect == AgentGuardSpec => []AgentGuardTypeOK
<1>1. DwellInv => AgentGuardTypeOK
  BY DEF DwellInv
<1>2. QED
  BY <1>1, DwellInit, DwellStep, PTL DEF AgentGuardSpec

(* The age of the stamp is the dwell time: the guard cordons for no         *)
(* condition whose row of "True" reports is younger than                    *)
(* CONDITION_MIN_AGE_SECONDS, whatever is lost, fails or restarts on the    *)
(* way from the evaluator to the guard's decision.                          *)
THEOREM DwellHeldHolds == AgentGuardSpec => []DwellHeld
BY DwellInit, DwellStep, DwellImplies, PTL DEF AgentGuardSpec

-----------------------------------------------------------------------------
(* The window against the dwell: with a window large enough, the guard has *)
(* cordoned before the agent takes back what a fatal line has set.         *)
(*                                                                         *)
(* The sample before the lines carries the argument: the report follows it *)
(* in time, the loop of the guard that finds the report old enough follows *)
(* in time, and until then the sample has not expired, so that every       *)
(* evaluation finds the condition active again.                            *)

U == "GPUUnrecoverable"

\* What a failed collection or request can cost: a report that waits for the next
\* time, or a loop of the guard.
FaultSeconds ==
  LET late == NODE_CONDITION_INTERVAL_SECONDS + 2 * MaxRound
  IN IF late > MaxLoop THEN late ELSE MaxLoop

Lost == faults * FaultSeconds

\* From the sample before the lines to the report on the Node.
Reported(a) == a + NODE_CONDITION_INTERVAL_SECONDS + 3 * MaxRound + Lost

\* A window that is large enough: until the report, until it is old, and until a loop
\* of the guard that began by then is over.
WindowOutlasts ==
  WINDOW_SECONDS >= NODE_CONDITION_INTERVAL_SECONDS + 3 * MaxRound
                    + CONDITION_MIN_AGE_SECONDS + 2 * MaxLoop + MaxFaults * FaultSeconds

\* Neither program lags behind; a round follows the one before, and a report that is
\* due goes out in the round that finds it due.
InTime ==
  /\ clock <= gnow + MaxLoop
  /\ last_publish <= clock
  /\ \A c \in ALL_CONDITIONS : transitions[c] <= clock
  /\ ~restarted =>
       /\ clock <= now + MaxRound
       /\ step \in {"evaluate", "publish", "patch"} => last_publish <= now
       /\ last_publish # NoTime =>
            now <= last_publish + NODE_CONDITION_INTERVAL_SECONDS
                   + (IF step = "wait" THEN 0 ELSE MaxRound)
       /\ history # <<>> =>
            now <= Last.at + Lost + (IF step = "evaluate" THEN MaxRound ELSE 0)

\* The collection before the loop, and what it leaves.
Booting ==
  /\ ~booted => history = <<>> /\ step \in {"collect", "evaluate"}
  /\ ~booted \/ step = "collect" => last_publish = NoTime
  /\ step = "wait" => last_publish # NoTime
  /\ history = <<>> => detail = Unjudged

\* What is sent is what was judged and remembered.
SendsTheJudged ==
  step = "patch" =>
    /\ report[U].status = detail[U]
    /\ report[U].since = transitions[U]
    /\ last_status[U] = detail[U]

\* A sample of the deque, taken at a, lies before the lines.
Before(a) ==
  \E i \in 1..Len(history) :
    history[i].at = a /\ history[i].counts["fatal"] < Last.counts["fatal"]

\* The Node does not say it yet: the report before is so old that the next one will,
\* in time.
Pending(a) ==
  IF last_publish = NoTime
  THEN step \in {"publish", "patch"} /\ now <= a + MaxRound + Lost
  ELSE last_publish <= a + MaxRound + Lost

\* The Node says it: no loop of the guard has started that would have found it old
\* enough, but for the one in progress.
Dwelling(a) ==
  /\ node[U].since <= Reported(a)
  /\ gnow <= Reported(a) + CONDITION_MIN_AGE_SECONDS
             + (IF gstep = "idle" THEN 0 ELSE MaxLoop)

\* Until the guard cordons, what a fatal line has set is not taken back.
Race ==
  ~restarted /\ ~unschedulable =>
    /\ node[U].status = "True" =>
         last_status[U] = "True" /\ node[U].since = transitions[U]
    /\ last_status[U] = "True" => detail[U] = "True"
    /\ detail[U] = "True" =>
         \E a \in Nat : Before(a) /\ IF node[U].status = "True" THEN Dwelling(a) ELSE Pending(a)

\* Nothing keeps the guard from deciding on what the Node says.
Seeing ==
  /\ detail["GPUHealthDataStale"] # "True"
  /\ node["GPUHealthDataStale"].status # "True"
  /\ step = "patch" => report["GPUHealthDataStale"].status # "True"

\* A loop of the guard has started by now.
Started == gnow <= clock

RaceInv ==
  /\ DwellInv
  /\ DequeInv
  /\ Started
  /\ Booting /\ SendsTheJudged /\ Seeing
  /\ InTime
  /\ Race

-----------------------------------------------------------------------------
(* Numbers.                                                                *)

LEMMA FaultNumbers ==
  /\ FaultSeconds \in Nat
  /\ FaultSeconds >= NODE_CONDITION_INTERVAL_SECONDS + 2 * MaxRound
  /\ FaultSeconds >= MaxLoop
  /\ NODE_CONDITION_INTERVAL_SECONDS \in Nat /\ MaxRound \in Nat /\ MaxLoop \in Nat
  /\ CONDITION_MIN_AGE_SECONDS \in Nat /\ MaxFaults \in Nat
  BY AgentAssumption, AgentGuardAssumption DEF FaultSeconds

LEMMA LostNumbers ==
  ASSUME AgentGuardTypeOK
  PROVE  Lost \in Nat /\ Lost <= MaxFaults * FaultSeconds /\ MaxFaults * FaultSeconds \in Nat
<1>1. ASSUME NEW f \in Nat, NEW m \in Nat, NEW k \in Nat, f <= m
      PROVE  f * k \in Nat /\ f * k <= m * k /\ m * k \in Nat
  BY <1>1, SMTT(30)
<1>2. faults \in Nat /\ faults <= MaxFaults
  BY FaultNumbers DEF AgentGuardTypeOK
<1>3. QED
  BY <1>1, <1>2, FaultNumbers DEF Lost

LEMMA LostNatural ==
  ASSUME NEW f \in 0..MaxFaults
  PROVE  f * FaultSeconds \in Nat
<1>1. ASSUME NEW g \in Nat, NEW k \in Nat
      PROVE  g * k \in Nat
  BY <1>1, SMTT(30)
<1>2. QED BY <1>1, FaultNumbers

LEMMA LostMore ==
  ASSUME AgentGuardTypeOK, faults' = faults + 1
  PROVE  Lost' = Lost + FaultSeconds
<1>1. ASSUME NEW f \in Nat, NEW k \in Nat
      PROVE  (f + 1) * k = f * k + k
  BY <1>1, SMTT(30)
<1>2. faults \in Nat
  BY FaultNumbers DEF AgentGuardTypeOK
<1>3. QED
  BY <1>1, <1>2, FaultNumbers DEF Lost

LEMMA RaceNumbers ==
  ASSUME DwellInv
  PROVE  /\ clock \in Nat /\ now \in Nat /\ gnow \in Nat /\ now <= clock
         /\ last_publish \in Int /\ (last_publish = NoTime \/ last_publish >= 0)
         /\ \A c \in ALL_CONDITIONS : transitions[c] \in Int /\ node[c].since \in Int
         /\ Lost \in Nat /\ faults \in 0..MaxFaults
         /\ U \in ALL_CONDITIONS /\ "GPUHealthDataStale" \in ALL_CONDITIONS
<1>1. AgentTypeOK /\ AgentGuardTypeOK /\ now <= clock
  BY DEF DwellInv, AgentTypeInv
<1>2. clock \in Nat /\ now \in Nat /\ gnow \in Nat /\ faults \in 0..MaxFaults
  BY <1>1, AgentAssumption DEF AgentTypeOK, AgentGuardTypeOK
<1>3. last_publish \in Int /\ (last_publish = NoTime \/ last_publish >= 0)
  BY <1>1 DEF AgentTypeOK, Time, NoTime
<1>4. ASSUME NEW c \in ALL_CONDITIONS
      PROVE  transitions[c] \in Int /\ node[c].since \in Int
  <2>1. transitions[c] \in Time /\ node[c] \in NodeCondition
    BY <1>1 DEF AgentTypeOK
  <2>2. node[c].since \in Time
    BY <2>1 DEF NodeCondition
  <2>3. QED BY <2>1, <2>2 DEF Time, NoTime
<1>5. U \in ALL_CONDITIONS /\ "GPUHealthDataStale" \in ALL_CONDITIONS
  BY DEF U, ALL_CONDITIONS
<1>6. QED
  BY <1>1, <1>2, <1>3, <1>4, <1>5, LostNumbers

-----------------------------------------------------------------------------
(* The agent's part.                                                       *)

LEMMA BootingStep ==
  ASSUME AgentTypeInv, Booting, [AgentNext]_agentVars
  PROVE  Booting'
<1> USE DEF worldVars, evaluatorVars, publisherVars, loopVars
<1>1. CASE Evaluate
  <2>1. history' = Sampled(history, now, seen.counts)
    BY <1>1 DEF Evaluate
  <2>2. history \in Seq(Sample) /\ now \in Nat /\ seen.counts \in Counts
    BY DEF AgentTypeInv, AgentTypeOK
  <2>3. history' # <<>>
    <3>1. PICK d \in 0..Len(history) : DroppedOf(history, now, seen.counts, d)
      BY <2>2, SampledDrops
    <3>2. Len(history') = Len(history) + 1 - d /\ Len(history) \in Nat
      BY <2>1, <2>2, <3>1, LenProperties DEF DroppedOf
    <3>3. Len(history') # 0
      BY <3>2
    <3>4. QED
      BY <3>3, EmptySeq
  <2>4. booted' = TRUE /\ step' = AfterCollection /\ UNCHANGED last_publish
    BY <1>1 DEF Evaluate
  <2>5. step' \in {"collect", "publish"} /\ (step' = "collect" => ~booted)
    BY <2>4 DEF AfterCollection
  <2>6. QED
    BY <2>3, <2>4, <2>5 DEF Booting
<1>2. CASE CollectRaises
  <2>1. booted' = TRUE /\ step' = AfterCollection /\ UNCHANGED <<last_publish, history, detail>>
    BY <1>2 DEF CollectRaises
  <2>2. step' \in {"collect", "publish"} /\ (step' = "collect" => ~booted)
    BY <2>1 DEF AfterCollection
  <2>3. QED
    BY <2>1, <2>2 DEF Booting
<1>3. CASE Collect
  BY <1>3 DEF Collect, Booting
<1>4. CASE NotDue
  BY <1>4 DEF NotDue, PublishDue, Booting
<1>5. CASE BuildReport
  BY <1>5 DEF BuildReport, Booting
<1>6. CASE NothingToPublish \/ \E applied \in BOOLEAN : Patch(applied)
  <2>1. last_publish' = clock /\ step' = "wait" /\ step \in {"publish", "patch"}
        /\ UNCHANGED <<booted, history, detail>>
    BY <1>6 DEF NothingToPublish, Patch
  <2>2. clock # NoTime
    BY AgentAssumption DEF AgentTypeInv, AgentTypeOK, NoTime
  <2>3. QED
    BY <2>1, <2>2 DEF Booting
<1>7. CASE RestartAgent
  BY <1>7 DEF RestartAgent, Booting
<1>8. CASE \/ \E r \in Watched : CountLine(r)
           \/ \E t \in Disturbed : ComesOrGoes(t)
           \/ Tick \/ UNCHANGED agentVars
  BY <1>8 DEF CountLine, ComesOrGoes, Tick, agentVars, Booting
<1>9. QED
  BY <1>1, <1>2, <1>3, <1>4, <1>5, <1>6, <1>7, <1>8 DEF AgentNext, AgentGoes, AgentFails, World

LEMMA SendsStep ==
  ASSUME AgentTypeInv, SendsTheJudged, [AgentNext]_agentVars
  PROVE  SendsTheJudged'
<1> USE DEF worldVars, evaluatorVars, publisherVars, loopVars
<1>1. CASE BuildReport
  <2>1. U \in ALL_CONDITIONS
    BY DEF U, ALL_CONDITIONS
  <2>2. report'[U] = [status |-> detail[U], since |-> transitions'[U]]
    BY <1>1, <2>1, BuildKeepsTypes, Zenon
  <2>3. last_status' = detail /\ detail' = detail
    BY <1>1 DEF BuildReport
  <2>4. report'[U].status = detail[U] /\ report'[U].since = transitions'[U]
    BY <2>2
  <2>5. QED
    BY <2>3, <2>4 DEF SendsTheJudged
<1>2. CASE Evaluate \/ CollectRaises
  BY <1>2 DEF Evaluate, CollectRaises, AfterCollection, SendsTheJudged
<1>3. CASE Collect \/ NotDue \/ NothingToPublish \/ RestartAgent
           \/ \E applied \in BOOLEAN : Patch(applied)
  BY <1>3 DEF Collect, NotDue, NothingToPublish, RestartAgent, Patch, SendsTheJudged
<1>4. CASE \/ \E r \in Watched : CountLine(r)
           \/ \E t \in Disturbed : ComesOrGoes(t)
           \/ Tick \/ UNCHANGED agentVars
  BY <1>4 DEF CountLine, ComesOrGoes, Tick, agentVars, SendsTheJudged
<1>5. QED
  BY <1>1, <1>2, <1>3, <1>4 DEF AgentNext, AgentGoes, AgentFails, World

LEMMA SeeingStep ==
  ASSUME "blind" \notin Disturbed, AgentTypeInv, Seeing, [AgentNext]_agentVars
  PROVE  Seeing'
<1> USE DEF worldVars, evaluatorVars, publisherVars, loopVars
<1> DEFINE S == "GPUHealthDataStale"
<1>0. S \in ALL_CONDITIONS
  BY DEF ALL_CONDITIONS
<1>1. CASE BuildReport
  <2>1. report'[S] = [status |-> detail[S], since |-> transitions'[S]]
    BY <1>0, <1>1, BuildKeepsTypes, Zenon
  <2>2. UNCHANGED <<detail, node>>
    BY <1>1 DEF BuildReport
  <2>3. report'[S].status = detail[S]
    BY <2>1
  <2>4. QED
    BY <2>2, <2>3 DEF Seeing
<1>2. CASE Evaluate
  <2> DEFINE found == seen.trouble \cup (trouble \cap {"probe"})
  <2>1. "blind" \notin found
    BY DEF AgentTypeInv, AgentTypeOK
  <2>2. ~Active(history', seen.counts, found, S)
    BY <2>1 DEF Active
  <2>3. detail'[S] = IF Active(history', seen.counts, found, S) THEN "True" ELSE "False"
    BY <1>0, <1>2 DEF Evaluate
  <2>4. UNCHANGED node /\ step' # "patch"
    BY <1>2 DEF Evaluate, AfterCollection
  <2>5. QED
    BY <2>2, <2>3, <2>4 DEF Seeing
<1>3. CASE RestartAgent
  <2>1. detail' = Unjudged /\ step' = "collect" /\ UNCHANGED node
    BY <1>3 DEF RestartAgent
  <2>2. QED
    BY <1>0, <2>1 DEF Unjudged, Unset, Seeing
<1>4. CASE CollectRaises
  BY <1>4 DEF CollectRaises, AfterCollection, Seeing
<1>5. ASSUME NEW applied \in BOOLEAN, Patch(applied)
      PROVE  Seeing'
  BY <1>5 DEF Patch, Seeing
<1>6. CASE Collect \/ NotDue \/ NothingToPublish
  BY <1>6 DEF Collect, NotDue, NothingToPublish, Seeing
<1>7. CASE \/ \E r \in Watched : CountLine(r)
           \/ \E t \in Disturbed : ComesOrGoes(t)
           \/ Tick \/ UNCHANGED agentVars
  BY <1>7 DEF CountLine, ComesOrGoes, Tick, agentVars, Seeing
<1>8. QED
  BY <1>1, <1>2, <1>3, <1>4, <1>5, <1>6, <1>7 DEF AgentNext, AgentGoes, AgentFails, World

-----------------------------------------------------------------------------
(* Neither program lags behind.                                            *)

\* Every kind of step, of the agent, of the guard, of the clock.
LEMMA RaceActions ==
  ASSUME [AgentGuardNext]_allVars
  PROVE  \/ /\ Collect \/ Evaluate \/ NotDue \/ NothingToPublish \/ World
            /\ UNCHANGED <<saidVars, guardVars, faults>>
         \/ Built \/ Delivered \/ Restarted
         \/ /\ CollectRaises \/ Patch(FALSE)
            /\ faults < MaxFaults /\ faults' = faults + 1
            /\ UNCHANGED <<saidVars, guardVars>>
         \/ (StartLoop \/ List \/ Cordon) /\ UNCHANGED <<agentVars, saidVars, faults>>
         \/ GuardStumbles \/ TimePasses \/ UNCHANGED allVars
  BY Zenon DEF AgentGuardNext, AgentStep, AgentStumbles, GuardStep

\* Time goes on for a loop that goes on.
LEMMA InTimeKept ==
  ASSUME RaceInv, AgentGuardTypeOK',
         UNCHANGED <<gnow, transitions, now, step, last_publish, history, restarted>>,
         clock <= clock', clock' <= gnow + MaxLoop,
         ~restarted => clock' <= now + MaxRound,
         clock' \in Nat, Lost' >= Lost, Lost' \in Nat
  PROVE  InTime'
<1>1. InTime
  BY DEF RaceInv
<1>2. /\ clock \in Nat /\ last_publish \in Int /\ now \in Nat
      /\ \A c \in ALL_CONDITIONS : transitions[c] \in Int
      /\ Lost \in Nat
  BY RaceNumbers DEF RaceInv
<1>3. Last' = Last
  BY DEF Last
<1>4. history # <<>> => Last.at \in Nat
  BY LastInside, SampleParts DEF RaceInv, DequeInv, AgentTypeInv, AgentTypeOK
<1>5. \A c \in ALL_CONDITIONS : transitions'[c] <= clock'
  BY <1>1, <1>2 DEF InTime
<1>6. last_publish' <= clock'
  BY <1>1, <1>2 DEF InTime
<1>7. ASSUME ~restarted, history # <<>>
      PROVE  now <= Last.at + Lost' + (IF step = "evaluate" THEN MaxRound ELSE 0)
  BY <1>1, <1>2, <1>4, <1>7, FaultNumbers DEF InTime
<1>8. QED
  BY <1>1, <1>3, <1>5, <1>6, <1>7 DEF InTime

LEMMA InTimeCollect ==
  ASSUME RaceInv, Collect, UNCHANGED <<saidVars, guardVars, faults>>
  PROVE  InTime'
<1>1. InTime /\ Booting
  BY DEF RaceInv
<1>2. /\ clock \in Nat /\ last_publish \in Int /\ now \in Nat /\ Lost \in Nat
  BY RaceNumbers DEF RaceInv
<1>3. /\ step \in {"collect", "wait"} /\ step' = "evaluate" /\ now' = clock
      /\ UNCHANGED <<clock, gnow, transitions, last_publish, history, restarted>>
  BY DEF Collect, publisherVars, guardVars, saidVars
<1>4. Last' = Last /\ Lost' = Lost
  BY <1>3 DEF Last, Lost
<1>5. history # <<>> => Last.at \in Nat
  BY LastInside, SampleParts DEF RaceInv, DequeInv, AgentTypeInv, AgentTypeOK
<1> HIDE DEF Last, Lost
<1>6. ASSUME ~restarted, last_publish # NoTime
      PROVE  clock <= last_publish + NODE_CONDITION_INTERVAL_SECONDS + MaxRound
  <2>1. step = "wait"
    BY <1>1, <1>3, <1>6 DEF Booting
  <2>2. now <= last_publish + NODE_CONDITION_INTERVAL_SECONDS
    BY <1>1, <1>6, <2>1, <1>2, FaultNumbers DEF InTime
  <2>3. QED
    BY <1>1, <1>2, <1>6, <2>2, FaultNumbers DEF InTime
<1>7. ASSUME ~restarted, history # <<>>
      PROVE  clock <= Last.at + Lost + MaxRound
  BY <1>1, <1>2, <1>3, <1>5, <1>7, FaultNumbers DEF InTime
<1>8. clock <= clock + MaxRound
  BY <1>2, FaultNumbers
<1>9. QED
  BY <1>1, <1>3, <1>4, <1>6, <1>7, <1>8 DEF InTime

LEMMA InTimeEvaluate ==
  ASSUME RaceInv, Evaluate, UNCHANGED <<saidVars, guardVars, faults>>,
         Last'.at = now
  PROVE  InTime'
<1>1. InTime
  BY DEF RaceInv
<1>2. now \in Nat /\ Lost \in Nat
  BY RaceNumbers DEF RaceInv
<1>3. /\ step = "evaluate" /\ step' \in {"collect", "publish"}
      /\ UNCHANGED <<clock, now, gnow, transitions, last_publish, restarted, faults>>
  BY DEF Evaluate, AfterCollection, publisherVars, guardVars, saidVars
<1>4. Lost' = Lost
  BY <1>3 DEF Lost
<1> HIDE DEF Last, Lost
<1>5. now <= Last'.at + Lost
  BY <1>2
<1>6. QED
  BY <1>1, <1>2, <1>3, <1>4, <1>5 DEF InTime

LEMMA InTimeRaises ==
  ASSUME RaceInv, CollectRaises, faults' = faults + 1, UNCHANGED <<saidVars, guardVars>>
  PROVE  InTime'
<1>1. InTime
  BY DEF RaceInv
<1>2. now \in Nat /\ Lost \in Nat
  BY RaceNumbers DEF RaceInv
<1>3. /\ step = "evaluate" /\ step' \in {"collect", "publish"}
      /\ UNCHANGED <<clock, now, gnow, transitions, last_publish, restarted, history>>
  BY DEF CollectRaises, AfterCollection, publisherVars, guardVars, saidVars
<1>4. Last' = Last /\ Lost' = Lost + FaultSeconds
  BY <1>3, LostMore DEF Last, RaceInv, DwellInv
<1>5. history # <<>> => Last.at \in Nat
  BY LastInside, SampleParts DEF RaceInv, DequeInv, AgentTypeInv, AgentTypeOK
<1> HIDE DEF Last, Lost
<1>6. ASSUME ~restarted, history # <<>>
      PROVE  now <= Last.at + Lost'
  <2>1. now <= Last.at + Lost + MaxRound
    BY <1>1, <1>3, <1>6 DEF InTime
  <2>2. MaxRound <= FaultSeconds
    BY FaultNumbers
  <2>3. QED
    BY <1>2, <1>4, <1>5, <1>6, <2>1, <2>2, FaultNumbers
<1>7. Lost' \in Nat
  BY <1>2, <1>4, FaultNumbers
<1>8. QED
  BY <1>1, <1>2, <1>3, <1>4, <1>5, <1>6, <1>7 DEF InTime

\* The round goes on to its end, without a publication or with one that has just ended.
LEMMA InTimePublish ==
  ASSUME RaceInv, step \in {"publish", "patch"}, step' \in {"patch", "wait"},
         UNCHANGED <<clock, now, gnow, history, restarted>>,
         Lost' >= Lost, Lost' \in Nat,
         \A c \in ALL_CONDITIONS : transitions'[c] <= clock,
         \/ last_publish' = clock /\ step' = "wait"
         \/ /\ last_publish' = last_publish
            /\ step' = "wait" => clock < last_publish + NODE_CONDITION_INTERVAL_SECONDS
  PROVE  InTime'
<1>1. InTime
  BY DEF RaceInv
<1>2. clock \in Nat /\ now \in Nat /\ Lost \in Nat /\ now <= clock /\ last_publish \in Int
  BY RaceNumbers DEF RaceInv
<1>3. Last' = Last
  BY DEF Last
<1>4. history # <<>> => Last.at \in Nat
  BY LastInside, SampleParts DEF RaceInv, DequeInv, AgentTypeInv, AgentTypeOK
<1> HIDE DEF Last, Lost
<1>5. ASSUME ~restarted, history # <<>>
      PROVE  now <= Last.at + Lost'
  BY <1>1, <1>2, <1>4, <1>5 DEF InTime
<1>6. ASSUME ~restarted, last_publish' # NoTime
      PROVE  now <= last_publish' + NODE_CONDITION_INTERVAL_SECONDS
                    + (IF step' = "wait" THEN 0 ELSE MaxRound)
  <2>1. CASE last_publish' = clock
    BY <1>2, <2>1, FaultNumbers
  <2>2. CASE last_publish' = last_publish
    BY <1>1, <1>2, <1>6, <2>2, FaultNumbers DEF InTime
  <2>3. QED BY <2>1, <2>2
<1>7. last_publish' <= clock
  BY <1>1, <1>2 DEF InTime
<1>8. ASSUME ~restarted, step' = "patch"
      PROVE  last_publish' <= now
  BY <1>1, <1>8 DEF InTime
<1>9. QED
  BY <1>1, <1>2, <1>3, <1>4, <1>5, <1>6, <1>7, <1>8 DEF InTime

LEMMA InTimeStep ==
  ASSUME RaceInv, [AgentGuardNext]_allVars
  PROVE  InTime'
<1>1. DwellInv /\ DwellInv' /\ DequeInv /\ DequeInv' /\ InTime /\ AgentGuardTypeOK'
  BY DwellStep, TogetherStep, DequeStep DEF RaceInv, DwellInv
<1>2. /\ clock \in Nat /\ now \in Nat /\ gnow \in Nat /\ now <= clock
      /\ last_publish \in Int /\ Lost \in Nat /\ Lost' \in Nat
      /\ \A c \in ALL_CONDITIONS : transitions[c] \in Int
  <2>1. Lost' \in Nat
    BY <1>1, LostNatural DEF AgentGuardTypeOK, Lost
  <2>2. QED BY <1>1, <2>1, RaceNumbers
<1> USE DEF worldVars, evaluatorVars, publisherVars, loopVars, guardVars, saidVars
<1>3. faults' = faults => Lost' = Lost
  BY DEF Lost
<1>4. faults' = faults + 1 => Lost' = Lost + FaultSeconds /\ Lost' >= Lost
  BY <1>1, <1>2, LostMore, FaultNumbers DEF DwellInv
<1> HIDE DEF Lost
<1>5. ASSUME UNCHANGED <<clock, gnow, transitions, now, step, last_publish, history,
                         restarted>>, Lost' >= Lost
      PROVE  InTime'
  <2>1. clock <= gnow + MaxLoop /\ (~restarted => clock <= now + MaxRound)
    BY <1>1 DEF InTime
  <2>2. QED
    BY <1>1, <1>2, <1>5, <2>1, InTimeKept
<1>6. CASE Collect /\ UNCHANGED <<saidVars, guardVars, faults>>
  BY <1>6, InTimeCollect
<1>7. CASE Evaluate /\ UNCHANGED <<saidVars, guardVars, faults>>
  <2>1. Last'.at = now
    BY <1>1, <1>7, DequeEvaluate DEF DwellInv
  <2>2. QED BY <1>7, <2>1, InTimeEvaluate
<1>8. CASE NotDue /\ UNCHANGED <<saidVars, guardVars, faults>>
  <2>1. clock < last_publish + NODE_CONDITION_INTERVAL_SECONDS
    BY <1>2, <1>8, FaultNumbers DEF NotDue, PublishDue
  <2>2. \A c \in ALL_CONDITIONS : transitions[c] <= clock
    BY <1>1 DEF InTime
  <2>3. QED
    BY <1>2, <1>3, <1>8, <2>1, <2>2, InTimePublish DEF NotDue
<1>9. CASE NothingToPublish /\ UNCHANGED <<saidVars, guardVars, faults>>
  <2>1. \A c \in ALL_CONDITIONS : transitions[c] <= clock
    BY <1>1 DEF InTime
  <2>2. QED
    BY <1>2, <1>3, <1>9, <2>1, InTimePublish DEF NothingToPublish
<1>10. CASE World /\ UNCHANGED <<saidVars, guardVars, faults>>
  BY <1>2, <1>3, <1>5, <1>10 DEF World, CountLine, ComesOrGoes
<1>11. CASE Built
  <2>1. BuildReport /\ UNCHANGED <<restarted, guardVars, faults>>
    BY <1>11 DEF Built
  <2>2. \A c \in ALL_CONDITIONS : transitions'[c] = Transition(c)
    BY <1>1, <2>1, BuildKeepsTypes DEF DwellInv
  <2>3. \A c \in ALL_CONDITIONS : transitions'[c] <= clock
    BY <1>1, <1>2, <2>2 DEF Transition, InTime
  <2>4. QED
    BY <1>2, <1>3, <2>1, <2>3, InTimePublish DEF BuildReport
<1>12. ASSUME NEW applied \in BOOLEAN, Patch(applied), UNCHANGED <<restarted, guardVars>>,
              Lost' >= Lost
       PROVE  InTime'
  <2>1. \A c \in ALL_CONDITIONS : transitions[c] <= clock
    BY <1>1 DEF InTime
  <2>2. QED
    BY <1>2, <1>12, <2>1, InTimePublish DEF Patch
<1>13. CASE Delivered
  <2>1. Patch(TRUE) /\ UNCHANGED <<restarted, guardVars, faults>>
    BY <1>13 DEF Delivered
  <2>2. Lost' >= Lost
    BY <1>2, <1>3, <2>1
  <2>3. QED BY <1>12, <2>1, <2>2
<1>14. CASE Restarted
  <2>1. /\ restarted' = TRUE /\ last_publish' = NoTime
        /\ transitions' = [c \in ALL_CONDITIONS |-> NoTime]
        /\ UNCHANGED <<clock, gnow>>
    BY <1>14 DEF Restarted, RestartAgent
  <2>2. \A c \in ALL_CONDITIONS : transitions'[c] <= clock
    BY <1>2, <2>1 DEF NoTime
  <2>3. clock <= gnow + MaxLoop /\ NoTime <= clock
    BY <1>1, <1>2 DEF InTime, NoTime
  <2>4. QED
    BY <2>1, <2>2, <2>3 DEF InTime
<1>15. CASE CollectRaises /\ faults' = faults + 1 /\ UNCHANGED <<saidVars, guardVars>>
  BY <1>15, InTimeRaises
<1>16. CASE Patch(FALSE) /\ faults' = faults + 1 /\ UNCHANGED <<saidVars, guardVars>>
  BY <1>4, <1>12, <1>16
<1>17. CASE StartLoop /\ UNCHANGED <<agentVars, saidVars, faults>>
  <2>1. gnow' = clock
        /\ UNCHANGED <<clock, now, transitions, step, last_publish, history, restarted>>
    BY <1>17 DEF StartLoop, agentVars
  <2>2. Last' = Last /\ Lost' = Lost
    BY <1>3, <1>17, <2>1 DEF Last
  <2>3. clock <= clock + MaxLoop
    BY <1>2, FaultNumbers
  <2>4. QED
    BY <1>1, <2>1, <2>2, <2>3 DEF InTime
<1>18. CASE (List \/ Cordon) /\ UNCHANGED <<agentVars, saidVars, faults>>
  BY <1>2, <1>3, <1>5, <1>18 DEF List, Cordon, agentVars
<1>19. CASE GuardStumbles
  BY <1>4, <1>5, <1>19 DEF GuardStumbles, agentVars
<1>20. CASE TimePasses
  <2>1. /\ clock' = clock + 1 /\ clock < now + MaxRound /\ clock < gnow + MaxLoop
        /\ UNCHANGED <<gnow, transitions, now, step, last_publish, history, restarted, faults>>
    BY <1>20 DEF TimePasses, Tick, Timely
  <2>2. clock <= clock' /\ clock' <= gnow + MaxLoop /\ clock' <= now + MaxRound /\ clock' \in Nat
    BY <1>2, <2>1, FaultNumbers
  <2>3. Lost' >= Lost
    BY <1>2, <1>3, <2>1
  <2>4. QED
    BY <1>1, <1>2, <2>1, <2>2, <2>3, InTimeKept
<1>21. CASE UNCHANGED allVars
  BY <1>2, <1>3, <1>5, <1>21 DEF allVars, agentVars
<1>22. QED
  BY <1>6, <1>7, <1>8, <1>9, <1>10, <1>11, <1>13, <1>14, <1>15, <1>16, <1>17, <1>18, <1>19,
     <1>20, <1>21, RaceActions, Zenon

-----------------------------------------------------------------------------
(* The sample before the lines.                                            *)

\* Where the samples of one evaluation are after it.
LEMMA Evaluated ==
  ASSUME DequeInv, Evaluate
  PROVE  \E d \in 0..Len(history) :
           /\ Len(history) \in Nat /\ Len(history') = Len(history) + 1 - d
           /\ history'[Len(history')] = [at |-> now, counts |-> seen.counts]
           /\ \A i \in 1..(Len(history') - 1) : history'[i] = history[i + d]
           /\ \A j \in 1..d : Expired(history[j], now)
<1>1. history \in Seq(Sample) /\ now \in Nat /\ seen.counts \in Counts
  BY DEF DequeInv, AgentTypeInv, AgentTypeOK
<1>2. history' = Sampled(history, now, seen.counts)
  BY DEF Evaluate
<1>3. PICK d \in 0..Len(history) : DroppedOf(history, now, seen.counts, d)
  BY <1>1, SampledDrops
<1>4. QED
  BY <1>1, <1>2, <1>3, LenProperties DEF DroppedOf

LEMMA FatalCounts ==
  ASSUME AgentTypeInv, history # <<>>
  PROVE  /\ Last.counts["fatal"] \in Nat /\ Last.at \in Nat
         /\ \A i \in 1..Len(history) :
              history[i].counts["fatal"] \in Nat /\ history[i].at \in Nat
<1>1. "fatal" \in LogRule
  BY DEF LogRule
<1>2. QED
  BY <1>1, LastInside, SampleParts DEF AgentTypeInv, AgentTypeOK

\* As long as it has not expired, every evaluation finds the lines.
LEMMA BeforeStays ==
  ASSUME DequeInv, DequeInv', Evaluate, NEW a \in Nat, Before(a), now - a <= WINDOW_SECONDS
  PROVE  Before(a)' /\ detail'[U] = "True"
<1>1. PICK i \in 1..Len(history) :
        history[i].at = a /\ history[i].counts["fatal"] < Last.counts["fatal"]
  BY DEF Before
<1>2. PICK d \in 0..Len(history) :
        /\ Len(history) \in Nat /\ Len(history') = Len(history) + 1 - d
        /\ history'[Len(history')] = [at |-> now, counts |-> seen.counts]
        /\ \A j \in 1..(Len(history') - 1) : history'[j] = history[j + d]
        /\ \A j \in 1..d : Expired(history[j], now)
  BY Evaluated
<1>3. history # <<>>
  BY <1>2, EmptySeq
<1>4. ~(i <= d)
  <2> SUFFICES ASSUME i <= d PROVE FALSE
    OBVIOUS
  <2>1. now - history[i].at > WINDOW_SECONDS
    BY <1>2 DEF Expired
  <2>2. now \in Nat
    BY DEF DequeInv, AgentTypeInv, AgentTypeOK
  <2>3. QED
    BY <1>1, <2>1, <2>2, WindowAssumption
<1> DEFINE j == i - d
<1>5. j \in 1..(Len(history') - 1) /\ j + d = i /\ j \in 1..Len(history')
      /\ 1 \in 1..Len(history') /\ 1 <= j
  BY <1>2, <1>4
<1>6. history'[j] = history[i]
  BY <1>2, <1>5
<1> HIDE DEF j
<1>7. Last'.counts["fatal"] = seen.counts["fatal"]
  BY DequeEvaluate DEF DequeInv
<1>8. "fatal" \in LogRule
  BY DEF LogRule
<1>9. Last.counts["fatal"] <= seen.counts["fatal"]
  BY <1>3, <1>8 DEF DequeInv, CountersGrow, Grows, Evaluate
<1>10. /\ Last.counts["fatal"] \in Nat /\ history[i].counts["fatal"] \in Nat
       /\ seen.counts["fatal"] \in Nat
  BY <1>3, <1>8, FatalCounts DEF DequeInv, AgentTypeInv, AgentTypeOK, Counts
<1>11. history'[j].counts["fatal"] < Last'.counts["fatal"]
  BY <1>1, <1>6, <1>7, <1>9, <1>10
<1>12. Before(a)'
  BY <1>1, <1>5, <1>6, <1>11 DEF Before
<1>13. history' # <<>>
  BY <1>2, <1>5, EmptySeq
<1>14. Grows(history'[1], history'[j])
  BY <1>5 DEF DequeInv, InOrder
<1>15. history'[1].counts["fatal"] <= history'[j].counts["fatal"]
  BY <1>8, <1>14 DEF Grows
<1>16. history'[1].counts["fatal"] \in Nat
  <2>1. history'[1] \in Sample
    BY <1>5, ElementOfSeq DEF DequeInv, AgentTypeInv, AgentTypeOK
  <2>2. QED BY <1>8, <2>1, SampleParts
<1>17. Last'.counts["fatal"] - history'[1].counts["fatal"] > 0
  BY <1>6, <1>7, <1>10, <1>11, <1>15, <1>16
<1>18. QED
  BY <1>12, <1>13, <1>17 DEF DequeInv, JudgedByWindow, Hits, U

\* When the lines are found, the last sample of before lies before them.
LEMMA BeforeComes ==
  ASSUME DequeInv, DequeInv', Evaluate, detail[U] # "True", detail'[U] = "True"
  PROVE  history # <<>> /\ \E a \in Nat : a = Last.at /\ Before(a)'
<1>1. PICK d \in 0..Len(history) :
        /\ Len(history) \in Nat /\ Len(history') = Len(history) + 1 - d
        /\ history'[Len(history')] = [at |-> now, counts |-> seen.counts]
        /\ \A i \in 1..(Len(history') - 1) : history'[i] = history[i + d]
        /\ \A j \in 1..d : Expired(history[j], now)
  BY Evaluated
<1>2. "fatal" \in LogRule /\ seen.counts["fatal"] \in Nat
  BY DEF DequeInv, AgentTypeInv, AgentTypeOK, Counts, LogRule
<1>3. Last'.counts["fatal"] = seen.counts["fatal"]
  BY DequeEvaluate DEF DequeInv
<1>4. history' # <<>>
  BY <1>1, EmptySeq
<1>5. seen.counts["fatal"] - history'[1].counts["fatal"] > 0
  BY <1>3, <1>4 DEF DequeInv, JudgedByWindow, Hits, U
<1>6. d # Len(history)
  <2> SUFFICES ASSUME d = Len(history) PROVE FALSE
    OBVIOUS
  <2>1. Len(history') = 1
    BY <1>1
  <2>2. history'[1].counts["fatal"] = seen.counts["fatal"]
    BY <1>1, <2>1
  <2>3. QED
    BY <1>2, <1>5, <2>2
<1>7. history # <<>> /\ d + 1 \in 1..Len(history) /\ 1 \in 1..Len(history)
      /\ Len(history) \in 1..Len(history) /\ 1 \in 1..(Len(history') - 1) /\ 1 <= d + 1
  BY <1>1, <1>6, EmptySeq
<1>8. history'[1] = history[d + 1]
  BY <1>1, <1>7
<1>9. history[1].counts["fatal"] <= history[d + 1].counts["fatal"]
  BY <1>2, <1>7 DEF DequeInv, InOrder, Grows
<1>10. ~(Last.counts["fatal"] - history[1].counts["fatal"] > 0)
  BY <1>7 DEF DequeInv, JudgedByWindow, Hits, U
<1>11. /\ Last.counts["fatal"] \in Nat /\ history[1].counts["fatal"] \in Nat
       /\ history[d + 1].counts["fatal"] \in Nat /\ Last.at \in Nat
  BY <1>7, FatalCounts DEF DequeInv
<1>12. Last.counts["fatal"] < seen.counts["fatal"]
  BY <1>2, <1>5, <1>8, <1>9, <1>10, <1>11
<1> DEFINE j == Len(history) - d
<1>13. j \in 1..(Len(history') - 1) /\ j + d = Len(history) /\ j \in 1..Len(history')
  BY <1>1, <1>6
<1>14. history'[j] = Last
  BY <1>1, <1>13 DEF Last
<1> HIDE DEF j
<1>15. PICK a \in Nat : a = Last.at
  BY <1>11
<1>16. Before(a)'
  BY <1>3, <1>12, <1>13, <1>14, <1>15 DEF Before
<1>17. QED
  BY <1>7, <1>15, <1>16

-----------------------------------------------------------------------------
(* The guard's part.                                                       *)

LEMMA StartedStep ==
  ASSUME DwellInv, Started, [AgentGuardNext]_allVars
  PROVE  Started'
<1> USE DEF worldVars, evaluatorVars, publisherVars, loopVars, guardVars, saidVars
<1>1. clock \in Nat /\ gnow \in Nat
  BY RaceNumbers
<1>2. CASE gnow' = gnow /\ clock' = clock
  BY <1>2 DEF Started
<1>3. CASE gnow' = gnow /\ clock' = clock + 1
  BY <1>1, <1>3 DEF Started
<1>4. CASE gnow' = clock /\ clock' = clock
  BY <1>1, <1>4 DEF Started
<1>5. CASE (Collect \/ Evaluate \/ NotDue \/ NothingToPublish \/ World)
             /\ UNCHANGED <<saidVars, guardVars, faults>>
  BY <1>2, <1>5
     DEF Collect, Evaluate, NotDue, NothingToPublish, World, CountLine, ComesOrGoes
<1>6. CASE Built \/ Delivered \/ Restarted
  BY <1>2, <1>6 DEF Built, BuildReport, Delivered, Patch, Restarted, RestartAgent
<1>7. CASE (CollectRaises \/ Patch(FALSE)) /\ UNCHANGED <<saidVars, guardVars>>
  BY <1>2, <1>7 DEF CollectRaises, Patch
<1>8. CASE (StartLoop \/ List \/ Cordon) /\ UNCHANGED <<agentVars, saidVars, faults>>
  BY <1>2, <1>4, <1>8 DEF StartLoop, List, Cordon, agentVars
<1>9. CASE GuardStumbles
  BY <1>2, <1>9 DEF GuardStumbles, agentVars
<1>10. CASE TimePasses
  BY <1>3, <1>10 DEF TimePasses, Tick
<1>11. CASE UNCHANGED allVars
  BY <1>2, <1>11 DEF allVars, agentVars
<1>12. QED
  BY <1>5, <1>6, <1>7, <1>8, <1>9, <1>10, <1>11, RaceActions, Zenon

\* Policy's Cardinality is FiniteSets' own.
LEMMA NobodyElse == Policy!Cardinality({}) = 0
<1> DEFINE f == [T \in SUBSET {} |-> 0]
           Is(g) == g = [T \in SUBSET {} |-> IF T = {} THEN 0 ELSE 1 + g[T \ {CHOOSE x : x \in T}]]
           h == CHOOSE g : Is(g)
<1>1. \A T \in SUBSET {} : T = {}
  OBVIOUS
<1>2. Is(f)
  BY <1>1
<1>3. Is(h)
  BY <1>2
<1>4. h[{}] = 0
  <2>1. {} \in SUBSET {}
    OBVIOUS
  <2> HIDE DEF h
  <2>2. QED BY <1>3, <2>1
<1>5. Policy!Cardinality({}) = h[{}]
  BY DEF Policy!Cardinality
<1>6. QED BY <1>4, <1>5

\* The fleet has no other node, and its floor is none.
LEMMA NoFloor ==
  ASSUME NEW nodes
  PROVE  ~Policy!BelowFloor(nodes, 1)
<1>1. {n \in {1} \ {1} : Policy!Serving(nodes[n])} = {}
  OBVIOUS
<1>2. Policy!HealthyCapacity(nodes, {1}) = Policy!Cardinality({})
  BY <1>1, Zenon DEF Policy!HealthyCapacity
<1>3. Policy!HealthyCapacity(nodes, {1}) = 0
  BY <1>2, NobodyElse
<1>4. QED
  BY <1>3 DEF Policy!BelowFloor

\* For a fatal condition that is old enough, the guard that sees it cordons.
LEMMA OldCordons ==
  ASSUME NEW view, ~unschedulable, view[U].status = "True",
         view["GPUHealthDataStale"].status # "True", view[U].since # NoTime,
         ~(gnow - view[U].since < CONDITION_MIN_AGE_SECONDS)
  PROVE  Cordons(view)
<1> DEFINE nodes == [n \in {1} |-> Snapshot(view)]
<1>1. nodes[1] = Snapshot(view)
  OBVIOUS
<1> HIDE DEF nodes
<1>2. /\ U \in Policy!Trigger /\ U \in ALL_CONDITIONS
      /\ "GPUHealthDataStale" \in ALL_CONDITIONS
  BY DEF U, Policy!Trigger, ALL_CONDITIONS
<1>3. /\ Policy!Active(nodes[1], U)
      /\ ~Policy!Active(nodes[1], "GPUHealthDataStale")
      /\ ~nodes[1].unschedulable
      /\ nodes[1].cond[U].since = view[U].since
  <2>1. Snapshot(view).cond[U].since = view[U].since
    BY <1>2 DEF Snapshot
  <2>2. Snapshot(view).cond[U].status
    BY <1>2 DEF Snapshot
  <2>3. ~Snapshot(view).cond["GPUHealthDataStale"].status
    BY <1>2 DEF Snapshot
  <2>4. ~Snapshot(view).unschedulable
    BY DEF Snapshot
  <2>5. QED
    BY <1>1, <2>1, <2>2, <2>3, <2>4, Zenon DEF Policy!Active
<1>4. \A c \in Policy!Trigger :
        /\ ~(Policy!Rank[c] < Policy!Rank[U])
        /\ c # U => Policy!Rank[U] < Policy!Rank[c]
  BY DEF Policy!Rank, Policy!Trigger, U
<1>5. Policy!Triggers(nodes[1], U)
  BY <1>3, <1>4 DEF Policy!Triggers
<1>6. \A c \in Policy!Trigger : Policy!Triggers(nodes[1], c) => c = U
  BY <1>2, <1>3, <1>4 DEF Policy!Triggers
<1>7. ~Policy!TooYoung(nodes[1], U, gnow)
  BY <1>3 DEF Policy!TooYoung, Policy!NoTime, NoTime
<1>8. Policy!Level[U] \in Policy!CORDON_LEVELS
  BY DEF Policy!Level, Policy!CORDON_LEVELS, U
<1>9. Policy!CordonWorthy(nodes[1])
  BY <1>2, <1>5, <1>8 DEF Policy!CordonWorthy
<1>10. ~(\A c \in Policy!Trigger : ~Policy!Active(nodes[1], c))
  BY <1>2, <1>3
<1>11. ~(\E c \in Policy!Trigger :
           Policy!Triggers(nodes[1], c) /\ Policy!TooYoung(nodes[1], c, gnow))
  BY <1>6, <1>7
<1>12. ~Policy!BelowFloor(nodes, 1) /\ ~(1 <= 0)
  BY NoFloor
<1>13. Policy!Reason(nodes, 1, gnow, 1) = "cordon"
  BY <1>3, <1>9, <1>10, <1>11, <1>12 DEF Policy!Reason
<1>14. QED
  BY <1>13 DEF Cordons, nodes

\* Until the Node says it, and until the guard that reads it has to cordon, the sample
\* before the lines is in the window.
LEMMA InTheWindow ==
  ASSUME RaceInv, ~restarted, NEW a \in Nat
  PROVE  /\ Reported(a) \in Nat
         /\ Pending(a) => clock <= Reported(a)
         /\ Dwelling(a) => clock <= Reported(a) + CONDITION_MIN_AGE_SECONDS + 2 * MaxLoop
         /\ (WindowOutlasts /\ (Pending(a) \/ Dwelling(a))) => now - a <= WINDOW_SECONDS
<1>1. InTime /\ Started /\ DwellInv /\ AgentGuardTypeOK
  BY DEF RaceInv, DwellInv
<1>2. /\ clock \in Nat /\ now \in Nat /\ gnow \in Nat /\ now <= clock
      /\ last_publish \in Int /\ Lost \in Nat
  BY <1>1, RaceNumbers
<1>3. Lost <= MaxFaults * FaultSeconds /\ MaxFaults * FaultSeconds \in Nat
  BY <1>1, LostNumbers
<1> DEFINE all == MaxFaults * FaultSeconds
<1> HIDE DEF Lost, all
<1>4. Reported(a) = a + NODE_CONDITION_INTERVAL_SECONDS + 3 * MaxRound + Lost
  BY DEF Reported
<1>5. clock <= now + MaxRound /\ clock <= gnow + MaxLoop
  BY <1>1 DEF InTime
<1>6. ASSUME Pending(a) PROVE clock <= Reported(a)
  <2>1. CASE last_publish = NoTime
    BY <1>2, <1>4, <1>5, <1>6, <2>1, FaultNumbers DEF Pending
  <2>2. CASE last_publish # NoTime
    <3>1. last_publish <= a + MaxRound + Lost
      BY <1>6, <2>2 DEF Pending
    <3>2. now <= last_publish + NODE_CONDITION_INTERVAL_SECONDS + MaxRound
      BY <1>1, <1>2, <2>2, FaultNumbers DEF InTime
    <3>3. QED
      BY <1>2, <1>4, <1>5, <3>1, <3>2, FaultNumbers
  <2>3. QED BY <2>1, <2>2
<1>7. ASSUME Dwelling(a)
      PROVE  clock <= Reported(a) + CONDITION_MIN_AGE_SECONDS + 2 * MaxLoop
  <2>1. gnow <= Reported(a) + CONDITION_MIN_AGE_SECONDS
                + (IF gstep = "idle" THEN 0 ELSE MaxLoop)
    BY <1>7 DEF Dwelling
  <2> HIDE DEF Reported
  <2>2. CASE gstep = "idle"
    BY <1>2, <1>4, <1>5, <2>1, <2>2, FaultNumbers
  <2>3. CASE gstep # "idle"
    BY <1>2, <1>4, <1>5, <2>1, <2>3, FaultNumbers
  <2>4. QED BY <2>2, <2>3
<1>8. ASSUME WindowOutlasts
      PROVE  Reported(a) + CONDITION_MIN_AGE_SECONDS + 2 * MaxLoop <= a + WINDOW_SECONDS
  <2>1. WINDOW_SECONDS >= NODE_CONDITION_INTERVAL_SECONDS + 3 * MaxRound
                          + CONDITION_MIN_AGE_SECONDS + 2 * MaxLoop + all
    BY <1>8 DEF WindowOutlasts, all
  <2>2. Lost <= all /\ all \in Nat
    BY <1>3 DEF all
  <2>3. QED
    BY <1>2, <1>4, <2>1, <2>2, FaultNumbers, WindowAssumption
<1>9. Reported(a) \in Nat
  BY <1>2, <1>4, FaultNumbers
<1>10. ASSUME WindowOutlasts, Pending(a) \/ Dwelling(a)
       PROVE  now - a <= WINDOW_SECONDS
  BY <1>2, <1>6, <1>7, <1>8, <1>9, <1>10, FaultNumbers, WindowAssumption
<1>11. QED
  BY <1>6, <1>7, <1>9, <1>10

LEMMA DwellingStays ==
  ASSUME RaceInv, NEW a \in Nat, Dwelling(a), UNCHANGED gnow,
         node'[U].since = node[U].since,
         Lost' \in Nat, Lost' >= Lost, gstep' = "idle" => gstep = "idle"
  PROVE  Dwelling(a)'
<1>1. /\ gnow \in Nat /\ Lost \in Nat /\ node[U].since \in Int /\ U \in ALL_CONDITIONS
  BY RaceNumbers DEF RaceInv
<1>2. /\ Reported(a) = a + NODE_CONDITION_INTERVAL_SECONDS + 3 * MaxRound + Lost
      /\ Reported(a)' = a + NODE_CONDITION_INTERVAL_SECONDS + 3 * MaxRound + Lost'
  BY DEF Reported
<1>3. /\ node[U].since <= Reported(a)
      /\ gnow <= Reported(a) + CONDITION_MIN_AGE_SECONDS
                 + (IF gstep = "idle" THEN 0 ELSE MaxLoop)
  BY DEF Dwelling
<1> HIDE DEF Lost, Reported
<1>4. node[U].since <= Reported(a)'
  BY <1>1, <1>2, <1>3, FaultNumbers
<1>5. gnow <= Reported(a)' + CONDITION_MIN_AGE_SECONDS
              + (IF gstep' = "idle" THEN 0 ELSE MaxLoop)
  <2>1. Reported(a) \in Nat /\ Reported(a)' \in Nat /\ Reported(a) <= Reported(a)'
    <3>1. ASSUME NEW l \in Nat, NEW m \in Nat, m >= l
          PROVE  /\ a + NODE_CONDITION_INTERVAL_SECONDS + 3 * MaxRound + l
                    <= a + NODE_CONDITION_INTERVAL_SECONDS + 3 * MaxRound + m
                 /\ a + NODE_CONDITION_INTERVAL_SECONDS + 3 * MaxRound + m \in Nat
      BY <3>1, FaultNumbers
    <3>2. Reported(a) <= Reported(a)'
      BY <1>1, <1>2, <3>1
    <3>3. Reported(a) \in Nat /\ Reported(a)' \in Nat
      BY <1>1, <1>2, <3>1
    <3>4. QED BY <3>2, <3>3
  <2>2. CASE gstep' = "idle"
    BY <1>1, <1>3, <2>1, <2>2, FaultNumbers
  <2>3. CASE gstep' # "idle"
    BY <1>1, <1>3, <2>1, <2>3, FaultNumbers
  <2>4. QED BY <2>2, <2>3
<1>6. QED
  BY <1>4, <1>5 DEF Dwelling

LEMMA PendingStays ==
  ASSUME RaceInv, NEW a \in Nat, Pending(a), UNCHANGED last_publish,
         Lost' \in Nat, Lost' >= Lost,
         last_publish = NoTime /\ step \in {"publish", "patch"} =>
           step' \in {"publish", "patch"} /\ now' = now
  PROVE  Pending(a)'
<1>1. last_publish \in Int /\ Lost \in Nat /\ now \in Nat
  BY RaceNumbers DEF RaceInv
<1>2. CASE last_publish = NoTime
  <2>1. step \in {"publish", "patch"} /\ now <= a + MaxRound + Lost
    BY <1>2 DEF Pending
  <2>2. now' <= a + MaxRound + Lost'
    BY <1>1, <1>2, <2>1, FaultNumbers
  <2>3. QED
    BY <1>2, <2>1, <2>2 DEF Pending
<1>3. CASE last_publish # NoTime
  <2>1. last_publish <= a + MaxRound + Lost
    BY <1>3 DEF Pending
  <2>2. ASSUME NEW l \in Nat, NEW m \in Nat, m >= l
        PROVE  a + MaxRound + l <= a + MaxRound + m
    BY <2>2, FaultNumbers
  <2>3. a + MaxRound + Lost \in Int /\ a + MaxRound + Lost' \in Int
    BY <1>1, FaultNumbers
  <2>4. last_publish' <= a + MaxRound + Lost'
    <3>1. a + MaxRound + Lost <= a + MaxRound + Lost'
      BY <1>1, <2>2
    <3>2. QED
      BY <1>1, <2>1, <2>3, <3>1
  <2>5. QED
    BY <1>3, <2>4 DEF Pending
<1>4. QED
  BY <1>2, <1>3

\* A step that judges nothing and publishes nothing.
LEMMA RaceQuiet ==
  ASSUME RaceInv,
         UNCHANGED <<node, last_status, transitions, detail, history, last_publish,
                     gnow, restarted, unschedulable>>,
         Lost' \in Nat, Lost' >= Lost, gstep' = "idle" => gstep = "idle",
         last_publish = NoTime /\ step \in {"publish", "patch"} =>
           step' \in {"publish", "patch"} /\ now' = now
  PROVE  Race'
<1> SUFFICES ASSUME ~restarted, ~unschedulable PROVE Race'
  BY DEF Race
<1>1. /\ node[U].status = "True" =>
           last_status[U] = "True" /\ node[U].since = transitions[U]
      /\ last_status[U] = "True" => detail[U] = "True"
  BY DEF RaceInv, Race
<1>2. ASSUME detail[U] = "True"
      PROVE  \E a \in Nat :
               Before(a)' /\ IF node'[U].status = "True" THEN Dwelling(a)' ELSE Pending(a)'
  <2>1. PICK a \in Nat :
          Before(a) /\ IF node[U].status = "True" THEN Dwelling(a) ELSE Pending(a)
    BY <1>2 DEF RaceInv, Race
  <2>2. Before(a)'
    BY <2>1 DEF Before, Last
  <2>3. Dwelling(a) => Dwelling(a)'
    BY DwellingStays
  <2>4. Pending(a) => Pending(a)'
    BY PendingStays
  <2>5. QED
    BY <2>1, <2>2, <2>3, <2>4
<1>3. QED
  BY <1>1, <1>2 DEF Race

\* What is found stays found, and what is newly found is reported in time.
LEMMA RaceEvaluate ==
  ASSUME WindowOutlasts, RaceInv, DequeInv', Evaluate, UNCHANGED <<saidVars, guardVars, faults>>
  PROVE  Race'
<1> SUFFICES ASSUME ~restarted, ~unschedulable PROVE Race'
  BY DEF Race, saidVars, guardVars
<1>1. DequeInv /\ InTime /\ Booting /\ Race
  BY DEF RaceInv
<1>2. /\ step = "evaluate" /\ step' = AfterCollection
      /\ UNCHANGED <<node, now, last_status, transitions, last_publish, gnow, gstep, faults>>
  BY DEF Evaluate, publisherVars, guardVars
<1>3. /\ now \in Nat /\ Lost \in Nat /\ Lost' = Lost /\ last_publish \in Int
  BY <1>2, RaceNumbers DEF RaceInv, Lost
<1>4. /\ node[U].status = "True" =>
           last_status[U] = "True" /\ node[U].since = transitions[U]
      /\ last_status[U] = "True" => detail[U] = "True"
  BY <1>1 DEF Race
<1>5. ASSUME detail[U] = "True"
      PROVE  /\ detail'[U] = "True"
             /\ \E a \in Nat :
                  Before(a)' /\ IF node'[U].status = "True" THEN Dwelling(a)' ELSE Pending(a)'
  <2>1. PICK a \in Nat :
          Before(a) /\ IF node[U].status = "True" THEN Dwelling(a) ELSE Pending(a)
    BY <1>1, <1>5 DEF Race
  <2>2. now - a <= WINDOW_SECONDS
    BY <2>1, InTheWindow
  <2>3. Before(a)' /\ detail'[U] = "True"
    BY <1>1, <2>1, <2>2, BeforeStays
  <2>4. Dwelling(a) => Dwelling(a)'
    BY <1>2, <1>3, DwellingStays
  <2>5. Pending(a) => Pending(a)'
    BY <1>2, <1>3, PendingStays
  <2>6. QED
    BY <1>2, <2>1, <2>3, <2>4, <2>5
<1>6. ASSUME detail[U] # "True", detail'[U] = "True"
      PROVE  \E a \in Nat :
               Before(a)' /\ IF node'[U].status = "True" THEN Dwelling(a)' ELSE Pending(a)'
  <2>1. history # <<>> /\ \E a \in Nat : a = Last.at /\ Before(a)'
    BY <1>1, <1>6, BeforeComes
  <2>2. PICK a \in Nat : a = Last.at /\ Before(a)'
    BY <2>1
  <2>3. now <= a + Lost + MaxRound
    BY <1>1, <1>2, <2>1, <2>2 DEF InTime
  <2>4. now <= a + MaxRound + Lost
    BY <1>3, <2>3, FaultNumbers
  <2> HIDE DEF Lost
  <2>5. Pending(a)'
    <3>1. CASE last_publish = NoTime
      <4>1. step' = "publish"
        BY <1>1, <1>2, <2>1 DEF Booting, AfterCollection
      <4>2. QED
        BY <1>2, <1>3, <2>4, <3>1, <4>1 DEF Pending
    <3>2. CASE last_publish # NoTime
      <4>1. last_publish <= now
        BY <1>1, <1>2 DEF InTime
      <4>2. last_publish <= a + MaxRound + Lost
        BY <1>3, <2>4, <4>1, FaultNumbers
      <4>3. QED
        BY <1>2, <1>3, <3>2, <4>2 DEF Pending
    <3>3. QED BY <3>1, <3>2
  <2>6. node'[U].status # "True"
    BY <1>2, <1>4, <1>6
  <2>7. QED
    BY <2>2, <2>5, <2>6
<1>7. QED
  BY <1>2, <1>4, <1>5, <1>6 DEF Race

\* A report is due: a condition that the Node has keeps its stamp.
LEMMA RaceBuilt ==
  ASSUME RaceInv, Built
  PROVE  Race'
<1> SUFFICES ASSUME ~restarted, ~unschedulable PROVE Race'
  BY DEF Race, Built, guardVars
<1>1. /\ step = "publish" /\ step' = "patch" /\ last_status' = detail
      /\ transitions' = [c \in ALL_CONDITIONS |-> Transition(c)]
      /\ UNCHANGED <<node, now, detail, history, last_publish, gnow, gstep, faults>>
  BY DEF Built, BuildReport, evaluatorVars, guardVars
<1>2. Lost \in Nat /\ Lost' = Lost /\ U \in ALL_CONDITIONS
  BY <1>1, RaceNumbers DEF RaceInv, Lost
<1>3. /\ node[U].status = "True" =>
           last_status[U] = "True" /\ node[U].since = transitions[U]
      /\ last_status[U] = "True" => detail[U] = "True"
  BY DEF RaceInv, Race
<1>4. node[U].status = "True" =>
        detail[U] = "True" /\ node[U].since = transitions'[U]
  BY <1>1, <1>2, <1>3 DEF Transition
<1>5. ASSUME detail[U] = "True"
      PROVE  \E a \in Nat :
               Before(a)' /\ IF node'[U].status = "True" THEN Dwelling(a)' ELSE Pending(a)'
  <2>1. PICK a \in Nat :
          Before(a) /\ IF node[U].status = "True" THEN Dwelling(a) ELSE Pending(a)
    BY <1>5 DEF RaceInv, Race
  <2>2. Before(a)'
    BY <1>1, <2>1 DEF Before, Last
  <2>3. Dwelling(a) => Dwelling(a)'
    BY <1>1, <1>2, DwellingStays
  <2>4. Pending(a) => Pending(a)'
    BY <1>1, <1>2, PendingStays
  <2>5. QED
    BY <1>1, <2>1, <2>2, <2>3, <2>4
<1>6. QED
  BY <1>1, <1>4, <1>5 DEF Race

\* The report reaches the Node, in time; a report of what it has already changes nothing.
LEMMA RaceDelivered ==
  ASSUME RaceInv, Delivered
  PROVE  Race'
<1> SUFFICES ASSUME ~restarted, ~unschedulable PROVE Race'
  BY DEF Race, Delivered, guardVars
<1>1. /\ step = "patch" /\ node' = report /\ last_publish' = clock
      /\ UNCHANGED <<detail, history, last_status, transitions, gnow, gstep, faults>>
  BY DEF Delivered, Patch, evaluatorVars, guardVars
<1>2. /\ Lost \in Nat /\ Lost' = Lost /\ U \in ALL_CONDITIONS
      /\ clock \in Nat /\ gnow \in Nat /\ transitions[U] \in Int
  BY <1>1, RaceNumbers DEF RaceInv, Lost
<1>3. /\ node'[U].status = detail[U] /\ node'[U].since = transitions[U]
      /\ last_status[U] = detail[U]
  BY <1>1 DEF RaceInv, SendsTheJudged
<1>4. ASSUME detail[U] = "True"
      PROVE  \E a \in Nat : Before(a)' /\ Dwelling(a)'
  <2>1. PICK a \in Nat :
          Before(a) /\ IF node[U].status = "True" THEN Dwelling(a) ELSE Pending(a)
    BY <1>4 DEF RaceInv, Race
  <2>2. Before(a)'
    BY <1>1, <2>1 DEF Before, Last
  <2>3. CASE node[U].status = "True"
    <3>1. node'[U].since = node[U].since
      BY <1>3, <2>3 DEF RaceInv, Race
    <3>2. Dwelling(a)'
      BY <1>1, <1>2, <2>1, <2>3, <3>1, DwellingStays
    <3>3. QED BY <2>2, <3>2
  <2>4. CASE node[U].status # "True"
    <3>1. clock <= Reported(a) /\ Reported(a) \in Nat
      BY <2>1, <2>4, InTheWindow
    <3>2. Reported(a)' = Reported(a)
      BY <1>2 DEF Reported
    <3> HIDE DEF Reported
    <3>3. gnow <= clock /\ transitions[U] <= clock
      BY <1>2 DEF RaceInv, Started, InTime
    <3>4. node'[U].since <= Reported(a)'
      BY <1>2, <1>3, <3>1, <3>2, <3>3
    <3>5. gnow <= Reported(a)' + CONDITION_MIN_AGE_SECONDS
                  + (IF gstep' = "idle" THEN 0 ELSE MaxLoop)
      BY <1>2, <3>1, <3>2, <3>3, FaultNumbers
    <3>6. Dwelling(a)'
      BY <1>1, <3>4, <3>5 DEF Dwelling
    <3>7. QED BY <2>2, <3>6
  <2>5. QED BY <2>3, <2>4
<1>5. QED
  BY <1>1, <1>3, <1>4 DEF Race

\* The report is lost: the next one is, at the latest, a round and an interval later.
LEMMA RacePatchFails ==
  ASSUME RaceInv, Patch(FALSE), faults' = faults + 1, UNCHANGED <<saidVars, guardVars>>
  PROVE  Race'
<1> SUFFICES ASSUME ~restarted, ~unschedulable PROVE Race'
  BY DEF Race, saidVars, guardVars
<1>1. /\ last_publish' = clock
      /\ UNCHANGED <<node, detail, history, last_status, transitions, gnow, gstep>>
  BY DEF Patch, evaluatorVars, guardVars
<1>2. Lost \in Nat /\ Lost' = Lost + FaultSeconds /\ clock \in Nat
  BY RaceNumbers, LostMore DEF RaceInv, DwellInv
<1>3. /\ node[U].status = "True" =>
           last_status[U] = "True" /\ node[U].since = transitions[U]
      /\ last_status[U] = "True" => detail[U] = "True"
  BY DEF RaceInv, Race
<1> HIDE DEF Lost
<1>4. Lost' \in Nat /\ Lost' >= Lost
  BY <1>2, FaultNumbers
<1>5. ASSUME detail[U] = "True"
      PROVE  \E a \in Nat :
               Before(a)' /\ IF node'[U].status = "True" THEN Dwelling(a)' ELSE Pending(a)'
  <2>1. PICK a \in Nat :
          Before(a) /\ IF node[U].status = "True" THEN Dwelling(a) ELSE Pending(a)
    BY <1>5 DEF RaceInv, Race
  <2>2. Before(a)'
    BY <1>1, <2>1 DEF Before, Last
  <2>3. Dwelling(a) => Dwelling(a)'
    BY <1>1, <1>4, DwellingStays
  <2>4. ASSUME Pending(a) PROVE Pending(a)'
    <3>1. clock <= a + NODE_CONDITION_INTERVAL_SECONDS + 3 * MaxRound + Lost
      BY <2>4, InTheWindow DEF Reported
    <3>2. clock <= a + MaxRound + Lost'
      BY <1>2, <3>1, FaultNumbers
    <3>3. clock # NoTime
      BY <1>2 DEF NoTime
    <3>4. QED
      BY <1>1, <3>2, <3>3 DEF Pending
  <2>5. QED
    BY <1>1, <2>1, <2>2, <2>3, <2>4
<1>6. QED
  BY <1>1, <1>3, <1>5 DEF Race

\* The guard steps: what it has to do in time, it does.
LEMMA RaceGuard ==
  ASSUME RaceInv, UNCHANGED <<agentVars, restarted, unschedulable>>,
         Lost' \in Nat, Lost' >= Lost,
         \A a \in Nat :
           (/\ ~restarted /\ ~unschedulable
            /\ node[U].status = "True" /\ Dwelling(a)) => Dwelling(a)'
  PROVE  Race'
<1> SUFFICES ASSUME ~restarted, ~unschedulable PROVE Race'
  BY DEF Race
<1>1. UNCHANGED <<node, step, now, detail, history, last_status, transitions, last_publish>>
  BY DEF agentVars, loopVars, evaluatorVars, publisherVars
<1>2. /\ node[U].status = "True" =>
           last_status[U] = "True" /\ node[U].since = transitions[U]
      /\ last_status[U] = "True" => detail[U] = "True"
  BY DEF RaceInv, Race
<1>3. ASSUME detail[U] = "True"
      PROVE  \E a \in Nat :
               Before(a)' /\ IF node'[U].status = "True" THEN Dwelling(a)' ELSE Pending(a)'
  <2>1. PICK a \in Nat :
          Before(a) /\ IF node[U].status = "True" THEN Dwelling(a) ELSE Pending(a)
    BY <1>3 DEF RaceInv, Race
  <2>2. Before(a)'
    BY <1>1, <2>1 DEF Before, Last
  <2>3. Pending(a) => Pending(a)'
    BY <1>1, PendingStays
  <2>4. QED
    BY <1>1, <2>1, <2>2, <2>3
<1>4. QED
  BY <1>1, <1>2, <1>3 DEF Race

LEMMA RaceStartLoop ==
  ASSUME RaceInv, StartLoop, UNCHANGED <<agentVars, saidVars, faults>>
  PROVE  Race'
<1>1. /\ gstep = "idle" /\ gstep' = "list" /\ gnow' = clock
      /\ UNCHANGED <<unschedulable, restarted, node, faults>>
  BY DEF StartLoop, saidVars, agentVars
<1>2. /\ Lost \in Nat /\ Lost' = Lost /\ clock \in Nat /\ gnow \in Nat
  BY <1>1, RaceNumbers DEF RaceInv, Lost
<1>3. ASSUME NEW a \in Nat, Dwelling(a), ~restarted
      PROVE  Dwelling(a)'
  <2>1. Reported(a)' = Reported(a) /\ Reported(a) \in Nat
    BY <1>2, <1>3, InTheWindow DEF Reported
  <2>2. /\ node[U].since <= Reported(a)
        /\ gnow <= Reported(a) + CONDITION_MIN_AGE_SECONDS
    BY <1>1, <1>2, <1>3, <2>1, FaultNumbers DEF Dwelling
  <2> HIDE DEF Reported
  <2>3. clock <= gnow + MaxLoop
    BY DEF RaceInv, InTime
  <2>4. clock <= Reported(a)' + CONDITION_MIN_AGE_SECONDS + MaxLoop
    BY <1>2, <2>1, <2>2, <2>3, FaultNumbers
  <2>5. QED
    BY <1>1, <2>1, <2>2, <2>4 DEF Dwelling
<1>4. QED
  BY <1>1, <1>2, <1>3, RaceGuard

\* A loop that does not cordon began before the condition was old enough.
LEMMA RaceListed ==
  ASSUME RaceInv, List, UNCHANGED <<agentVars, saidVars, faults>>
  PROVE  Race'
<1>1. /\ gstep' = IF Cordons(node) THEN "cordon" ELSE "idle"
      /\ gstep = "list"
      /\ UNCHANGED <<gnow, unschedulable, restarted, node, faults>>
  BY DEF List, saidVars, agentVars
<1>2. /\ Lost \in Nat /\ Lost' = Lost /\ gnow \in Nat /\ U \in ALL_CONDITIONS
      /\ node[U].since \in Int
  BY <1>1, RaceNumbers DEF RaceInv, Lost
<1>3. ASSUME NEW a \in Nat, Dwelling(a), ~restarted, ~unschedulable, node[U].status = "True"
      PROVE  Dwelling(a)'
  <2>1. CASE Cordons(node)
    <3>1. gstep' # "idle"
      BY <1>1, <2>1
    <3>2. QED
      BY <1>1, <1>2, <1>3, <3>1, DwellingStays
  <2>2. CASE ~Cordons(node)
    <3>1. gstep' = "idle"
      BY <1>1, <2>2
    <3>2. Reported(a)' = Reported(a) /\ Reported(a) \in Nat
      BY <1>2, <1>3, InTheWindow DEF Reported
    <3>3. node[U].since <= Reported(a)
      BY <1>3 DEF Dwelling
    <3>4. node[U].since # NoTime
      <4>1. node[U] \in NodeCondition
        BY <1>2 DEF RaceInv, DwellInv, AgentTypeInv, AgentTypeOK
      <4>2. QED
        BY <1>3, <4>1 DEF NodeCondition, Unset
    <3>5. gnow - node[U].since < CONDITION_MIN_AGE_SECONDS
      BY <1>3, <2>2, <3>4, OldCordons DEF RaceInv, Seeing
    <3> HIDE DEF Reported
    <3>6. gnow <= Reported(a)' + CONDITION_MIN_AGE_SECONDS + 0
      BY <1>2, <3>2, <3>3, <3>5, FaultNumbers
    <3>7. QED
      BY <1>1, <3>1, <3>2, <3>3, <3>6 DEF Dwelling
  <2>3. QED BY <2>1, <2>2
<1>4. QED
  BY <1>1, <1>2, <1>3, RaceGuard

\* A loop is cut short: the next one begins a loop later.
LEMMA RaceStumbles ==
  ASSUME RaceInv, GuardStumbles
  PROVE  Race'
<1>1. /\ gstep' = "idle" /\ faults' = faults + 1
      /\ UNCHANGED <<agentVars, gnow, unschedulable, restarted, node>>
  BY DEF GuardStumbles, saidVars, agentVars
<1>2. /\ Lost \in Nat /\ Lost' = Lost + FaultSeconds /\ gnow \in Nat
      /\ node[U].since \in Int
  BY <1>1, RaceNumbers, LostMore DEF RaceInv, DwellInv
<1>3. ASSUME NEW a \in Nat, Dwelling(a), ~restarted
      PROVE  Dwelling(a)'
  <2>1. Reported(a)' = Reported(a) + FaultSeconds /\ Reported(a) \in Nat
    <3>1. Reported(a) \in Nat
      BY <1>3, InTheWindow
    <3>2. /\ Reported(a) = a + NODE_CONDITION_INTERVAL_SECONDS + 3 * MaxRound + Lost
          /\ Reported(a)' = a + NODE_CONDITION_INTERVAL_SECONDS + 3 * MaxRound + Lost'
      BY DEF Reported
    <3> HIDE DEF Reported, Lost
    <3>3. QED
      BY <1>2, <3>1, <3>2, FaultNumbers
  <2>2. /\ node[U].since <= Reported(a)
        /\ gnow <= Reported(a) + CONDITION_MIN_AGE_SECONDS
                   + (IF gstep = "idle" THEN 0 ELSE MaxLoop)
    BY <1>3 DEF Dwelling
  <2> HIDE DEF Reported
  <2>3. gnow <= Reported(a) + CONDITION_MIN_AGE_SECONDS + MaxLoop
    BY <1>2, <2>1, <2>2, FaultNumbers
  <2>4. node[U].since <= Reported(a)'
    BY <1>2, <2>1, <2>2, FaultNumbers
  <2>5. gnow <= Reported(a)' + CONDITION_MIN_AGE_SECONDS + 0
    BY <1>2, <2>1, <2>3, FaultNumbers
  <2>6. QED
    BY <1>1, <2>4, <2>5 DEF Dwelling
<1>4. Lost' \in Nat /\ Lost' >= Lost
  BY <1>2, FaultNumbers
<1>5. QED
  BY <1>1, <1>3, <1>4, RaceGuard

LEMMA RaceStep ==
  ASSUME WindowOutlasts, RaceInv, DequeInv', AgentGuardTypeOK', [AgentGuardNext]_allVars
  PROVE  Race'
<1> USE DEF worldVars, evaluatorVars, publisherVars, loopVars, guardVars, saidVars
<1>1. Lost \in Nat /\ Lost' \in Nat
  <2>1. Lost' \in Nat
    BY LostNatural DEF AgentGuardTypeOK, Lost
  <2>2. QED BY <2>1, RaceNumbers DEF RaceInv
<1>2. faults' = faults => Lost' = Lost
  BY DEF Lost
<1>3. faults' = faults + 1 => Lost' >= Lost
  BY <1>1, LostMore, FaultNumbers DEF RaceInv, DwellInv
<1> HIDE DEF Lost
<1>4. CASE Collect /\ UNCHANGED <<saidVars, guardVars, faults>>
  <2>1. step \in {"collect", "wait"} /\ Lost' >= Lost
        /\ UNCHANGED <<node, last_status, transitions, detail, history, last_publish,
                       gnow, gstep, restarted, unschedulable>>
    BY <1>1, <1>2, <1>4 DEF Collect
  <2>2. QED BY <1>1, <2>1, RaceQuiet
<1>5. CASE NotDue /\ UNCHANGED <<saidVars, guardVars, faults>>
  <2>1. last_publish # NoTime /\ Lost' >= Lost
        /\ UNCHANGED <<node, last_status, transitions, detail, history, last_publish,
                       gnow, gstep, restarted, unschedulable>>
    BY <1>1, <1>2, <1>5 DEF NotDue, PublishDue
  <2>2. QED BY <1>1, <2>1, RaceQuiet
<1>6. CASE NothingToPublish /\ UNCHANGED <<saidVars, guardVars, faults>>
  <2>1. detail[U] # "True"
    BY <1>6 DEF NothingToPublish, Judged, Unjudged, Unset, U, ALL_CONDITIONS
  <2>2. UNCHANGED <<node, last_status, transitions, detail, restarted, unschedulable>>
    BY <1>6 DEF NothingToPublish
  <2>3. QED
    BY <2>1, <2>2 DEF RaceInv, Race
<1>7. CASE Evaluate /\ UNCHANGED <<saidVars, guardVars, faults>>
  BY <1>7, RaceEvaluate
<1>8. CASE World /\ UNCHANGED <<saidVars, guardVars, faults>>
  <2>1. Lost' >= Lost /\ UNCHANGED step /\ UNCHANGED now
        /\ UNCHANGED <<node, last_status, transitions, detail, history, last_publish,
                       gnow, gstep, restarted, unschedulable>>
    BY <1>1, <1>2, <1>8 DEF World, CountLine, ComesOrGoes
  <2>2. QED BY <1>1, <2>1, RaceQuiet
<1>9. CASE Built
  BY <1>9, RaceBuilt
<1>10. CASE Delivered
  BY <1>10, RaceDelivered
<1>11. CASE Restarted
  BY <1>11 DEF Restarted, Race
<1>12. CASE CollectRaises /\ faults' = faults + 1 /\ UNCHANGED <<saidVars, guardVars>>
  <2>1. step = "evaluate" /\ Lost' >= Lost
        /\ UNCHANGED <<node, last_status, transitions, detail, history, last_publish,
                       gnow, gstep, restarted, unschedulable>>
    BY <1>3, <1>12 DEF CollectRaises
  <2>2. QED BY <1>1, <2>1, RaceQuiet
<1>13. CASE Patch(FALSE) /\ faults' = faults + 1 /\ UNCHANGED <<saidVars, guardVars>>
  BY <1>13, RacePatchFails
<1>14. CASE StartLoop /\ UNCHANGED <<agentVars, saidVars, faults>>
  BY <1>14, RaceStartLoop
<1>15. CASE List /\ UNCHANGED <<agentVars, saidVars, faults>>
  BY <1>15, RaceListed
<1>16. CASE Cordon
  BY <1>16 DEF Cordon, Race
<1>17. CASE GuardStumbles
  BY <1>17, RaceStumbles
<1>18. CASE TimePasses \/ UNCHANGED allVars
  <2>1. Lost' >= Lost /\ UNCHANGED step /\ UNCHANGED now
        /\ UNCHANGED <<node, last_status, transitions, detail, history, last_publish,
                       gnow, gstep, restarted, unschedulable>>
    BY <1>1, <1>2, <1>18 DEF TimePasses, Tick, allVars, agentVars
  <2>2. QED BY <1>1, <2>1, RaceQuiet
<1>19. QED
  BY <1>4, <1>5, <1>6, <1>7, <1>8, <1>9, <1>10, <1>11, <1>12, <1>13, <1>14, <1>15, <1>16,
     <1>17, <1>18, RaceActions, Zenon

LEMMA RaceInit == AgentGuardInit => RaceInv
<1> SUFFICES ASSUME AgentGuardInit PROVE RaceInv
  OBVIOUS
<1>1. /\ clock = 0 /\ gnow = 0 /\ now = 0 /\ last_publish = NoTime /\ history = <<>>
      /\ step = "collect" /\ booted = FALSE /\ node = Nothing
      /\ detail = Unjudged /\ last_status = Unjudged
      /\ transitions = [c \in ALL_CONDITIONS |-> NoTime]
  BY DEF AgentGuardInit, AgentInit, NewProcess
<1>2. DwellInv /\ DequeInv
  BY DwellInit, DequeInit DEF AgentGuardInit
<1>3. Started
  BY <1>1 DEF Started
<1>4. Booting
  BY <1>1 DEF Booting
<1>5. SendsTheJudged
  BY <1>1 DEF SendsTheJudged
<1>6. U \in ALL_CONDITIONS /\ "GPUHealthDataStale" \in ALL_CONDITIONS
  BY DEF U, ALL_CONDITIONS
<1>7. Seeing
  BY <1>1, <1>6 DEF Seeing, Unjudged, Nothing, Unset
<1>8. InTime
  BY <1>1, FaultNumbers DEF InTime, NoTime
<1>9. Race
  <2>1. node[U].status # "True" /\ last_status[U] # "True" /\ detail[U] # "True"
    BY <1>1, <1>6 DEF Nothing, Unjudged, Unset
  <2>2. QED BY <2>1 DEF Race
<1>10. QED
  BY <1>2, <1>3, <1>4, <1>5, <1>7, <1>8, <1>9 DEF RaceInv

LEMMA RaceInvStep ==
  ASSUME "blind" \notin Disturbed, WindowOutlasts, RaceInv, [AgentGuardNext]_allVars
  PROVE  RaceInv'
<1>1. [AgentNext]_agentVars /\ AgentTypeInv
  BY TogetherStep DEF RaceInv, DwellInv
<1>2. DwellInv' /\ AgentGuardTypeOK'
  BY DwellStep DEF RaceInv, DwellInv
<1>3. DequeInv'
  BY <1>1, DequeStep DEF RaceInv
<1>4. Started' /\ InTime'
  BY StartedStep, InTimeStep DEF RaceInv
<1>5. Booting' /\ SendsTheJudged' /\ Seeing'
  BY <1>1, BootingStep, SendsStep, SeeingStep DEF RaceInv
<1>6. Race'
  BY <1>2, <1>3, RaceStep
<1>7. QED
  BY <1>2, <1>3, <1>4, <1>5, <1>6 DEF RaceInv

\* Only a report takes the condition from the Node, and the report says what was judged.
LEMMA RaceImplies ==
  ASSUME RaceInv, [AgentGuardNext]_allVars, node[U].status = "True",
         node'[U].status = "False", ~restarted
  PROVE  unschedulable
<1> SUFFICES ASSUME ~unschedulable PROVE FALSE
  OBVIOUS
<1>1. detail[U] = "True"
  BY DEF RaceInv, Race
<1>2. node' # node
  OBVIOUS
<1>3. step = "patch" /\ node' = report
  BY <1>2, RaceActions
     DEF worldVars, evaluatorVars, publisherVars, loopVars, Collect, Evaluate, NotDue,
         NothingToPublish, World, CountLine, ComesOrGoes, Built, BuildReport, Delivered,
         Patch, Restarted, RestartAgent, CollectRaises, GuardStumbles, TimePasses, Tick,
         allVars, agentVars
<1>4. node'[U].status = detail[U]
  BY <1>3 DEF RaceInv, SendsTheJudged
<1>5. QED
  BY <1>1, <1>4


\* One step of CordonBeatsExpiry.
CordonFirst ==
  (/\ node["GPUUnrecoverable"].status = "True"
   /\ node'["GPUUnrecoverable"].status = "False"
   /\ ~restarted) => unschedulable

(* The window outlasts the dwell.  The agent that has put                   *)
(* GPUUnrecoverable on the Node does not take it off, by an expired window, *)
(* before the guard has cordoned: with WINDOW_SECONDS at least the sum that *)
(* WindowOutlasts names, whatever MaxFaults collections and requests fail   *)
(* and in whatever order the two loops meet (conditions.py, policy.py).  An *)
(* agent that has gone blind is another matter: the guard then decides      *)
(* nothing from what it says.                                               *)
THEOREM CordonBeatsExpiryHolds ==
  "blind" \notin Disturbed /\ WindowOutlasts => (AgentGuardSpec => CordonBeatsExpiry)
<1> SUFFICES ASSUME "blind" \notin Disturbed, WindowOutlasts
             PROVE  AgentGuardSpec => CordonBeatsExpiry
  OBVIOUS
<1>1. AgentGuardInit => RaceInv
  BY RaceInit
<1>2. RaceInv /\ [AgentGuardNext]_allVars => RaceInv'
  BY RaceInvStep
<1>3. RaceInv /\ [AgentGuardNext]_allVars => [CordonFirst]_allVars
  BY RaceImplies DEF CordonFirst, U
<1>4. AgentGuardSpec => [][CordonFirst]_allVars
  BY <1>1, <1>2, <1>3, PTL DEF AgentGuardSpec
<1>5. QED
  BY <1>4 DEF CordonBeatsExpiry, CordonFirst

-----------------------------------------------------------------------------
(* What the Node says, as an implementation of ReportedConditions.         *)

Told == [c \in ALL_CONDITIONS |-> [status |-> last_status[c], since |-> transitions[c]]]

\* No stamp lies ahead, and none that is told is older than what the Node says, whoever
\* put it there.
StampsInOrder ==
  \A c \in ALL_CONDITIONS :
    /\ node[c].since <= clock
    /\ transitions[c] <= clock
    /\ last_status[c] # Unset => node[c].since <= transitions[c]

\* The report in progress is what is told.
SendsTheTold ==
  step = "patch" =>
    report = Told /\ \A c \in ALL_CONDITIONS : last_status[c] # Unset

ToldInv == AgentTypeInv /\ StampsInOrder /\ SendsTheTold

LEMMA ToldNumbers ==
  ASSUME AgentTypeInv
  PROVE  /\ clock \in Nat
         /\ \A c \in ALL_CONDITIONS :
              transitions[c] \in Int /\ node[c].since \in Int
<1>1. AgentTypeOK
  BY DEF AgentTypeInv
<1>2. clock \in Nat
  BY <1>1, AgentAssumption DEF AgentTypeOK
<1>3. ASSUME NEW c \in ALL_CONDITIONS
      PROVE  transitions[c] \in Int /\ node[c].since \in Int
  <2>1. transitions[c] \in Time /\ node[c] \in NodeCondition
    BY <1>1 DEF AgentTypeOK
  <2>2. node[c].since \in Time
    BY <2>1 DEF NodeCondition
  <2>3. QED BY <2>1, <2>2 DEF Time, NoTime
<1>4. QED BY <1>2, <1>3

LEMMA ToldInit == AgentInit => ToldInv
<1> SUFFICES ASSUME AgentInit PROVE ToldInv
  OBVIOUS
<1>1. /\ clock = 0 /\ step = "collect" /\ node = Nothing /\ last_status = Unjudged
      /\ transitions = [c \in ALL_CONDITIONS |-> NoTime]
  BY DEF AgentInit, NewProcess
<1>2. \A c \in ALL_CONDITIONS :
        node[c].since = NoTime /\ transitions[c] = NoTime /\ last_status[c] = Unset
  BY <1>1 DEF Nothing, Unjudged
<1>3. StampsInOrder
  BY <1>1, <1>2 DEF StampsInOrder, NoTime
<1>4. QED
  BY <1>1, <1>3, AgentInitType DEF ToldInv, SendsTheTold

\* A report tells: each condition as before, or flipped now.
LEMMA ToldBuilt ==
  ASSUME ToldInv, BuildReport
  PROVE  ToldInv' /\ Publisher!Tell
<1>1. AgentTypeInv /\ AgentTypeInv' /\ StampsInOrder
  BY BuildKeepsTypes DEF ToldInv
<1>2. /\ last_status' = detail /\ step' = "patch"
      /\ UNCHANGED <<clock, node, detail>>
      /\ report' = [c \in ALL_CONDITIONS |-> [status |-> detail[c], since |-> Transition(c)]]
      /\ transitions' = [c \in ALL_CONDITIONS |-> Transition(c)]
  BY DEF BuildReport, evaluatorVars
<1>3. \A c \in ALL_CONDITIONS :
        /\ detail[c] # Unset /\ transitions'[c] = Transition(c)
        /\ last_status'[c] = detail[c]
  BY <1>1, <1>2, BuildKeepsTypes DEF Unset
<1>4. Told' = [c \in ALL_CONDITIONS |-> [status |-> detail[c], since |-> transitions'[c]]]
  BY <1>2 DEF Told
<1>5. report' = Told'
  BY <1>2, <1>3, <1>4
<1>6. SendsTheTold'
  BY <1>3, <1>5 DEF SendsTheTold
<1>7. ASSUME NEW c \in ALL_CONDITIONS
      PROVE  \/ transitions'[c] = clock /\ last_status'[c] # last_status[c]
             \/ /\ transitions'[c] = transitions[c] /\ last_status'[c] = last_status[c]
                /\ last_status[c] # Unset
  BY <1>3 DEF Transition
<1>8. StampsInOrder'
  BY <1>1, <1>2, <1>7, ToldNumbers DEF StampsInOrder
<1>9. \A c \in ALL_CONDITIONS :
        /\ Told[c] = [status |-> last_status[c], since |-> transitions[c]]
        /\ Told'[c] = [status |-> last_status'[c], since |-> transitions'[c]]
  BY <1>3, <1>4 DEF Told
<1>10. ASSUME NEW c \in ALL_CONDITIONS
       PROVE  \/ Told'[c] = Told[c]
              \/ Told'[c].status # Told[c].status /\ Told'[c].since = clock
  <2>1. CASE transitions'[c] = clock /\ last_status'[c] # last_status[c]
    <3>1. /\ Told[c] = [status |-> last_status[c], since |-> transitions[c]]
          /\ Told'[c] = [status |-> last_status'[c], since |-> transitions'[c]]
      BY <1>9
    <3>2. Told[c].status = last_status[c]
      BY <3>1
    <3>3. Told'[c].status = last_status'[c] /\ Told'[c].since = transitions'[c]
      BY <3>1
    <3>4. QED
      BY <2>1, <3>2, <3>3
  <2>2. CASE transitions'[c] = transitions[c] /\ last_status'[c] = last_status[c]
    BY <1>9, <2>2
  <2>3. QED
    BY <1>7, <2>1, <2>2
<1>11. Publisher!Tell
  BY <1>2, <1>10 DEF Publisher!Tell, Publisher!Flips, Told
<1>12. QED
  BY <1>1, <1>6, <1>8, <1>11 DEF ToldInv

\* A PATCH that takes effect shows what was told, and with no older stamp.
LEMMA ToldShown ==
  ASSUME ToldInv, Patch(TRUE)
  PROVE  ToldInv' /\ Publisher!Show
<1>1. AgentTypeInv /\ AgentTypeInv'
  BY AgentKeepsTypes DEF ToldInv, AgentNext, AgentGoes
<1>2. /\ step = "patch" /\ step' = "wait" /\ node' = report
      /\ UNCHANGED <<clock, last_status, transitions>>
  BY DEF Patch
<1>3. report = Told /\ \A c \in ALL_CONDITIONS : last_status[c] # Unset
  BY <1>2 DEF ToldInv, SendsTheTold
<1>4. \A c \in ALL_CONDITIONS :
        Told[c].status = last_status[c] /\ Told[c].since = transitions[c]
  BY DEF Told
<1>5. StampsInOrder'
  <2>1. ASSUME NEW c \in ALL_CONDITIONS
        PROVE  /\ node'[c].since = transitions[c] /\ transitions'[c] = transitions[c]
               /\ transitions[c] <= clock /\ clock' = clock
               /\ transitions[c] <= transitions[c]
    BY <1>1, <1>2, <1>3, <1>4, ToldNumbers DEF ToldInv, StampsInOrder
  <2>2. QED
    BY <2>1 DEF StampsInOrder
<1>6. Told' = Told
  BY <1>2 DEF Told
<1>7. \A c \in ALL_CONDITIONS :
        /\ Told[c] # [status |-> Unset, since |-> NoTime]
        /\ Told[c].since >= node[c].since
  <2>1. \A c \in ALL_CONDITIONS : Told[c].since >= node[c].since
    BY <1>1, <1>3, <1>4, ToldNumbers DEF ToldInv, StampsInOrder
  <2>2. \A c \in ALL_CONDITIONS : Told[c] # [status |-> Unset, since |-> NoTime]
    BY <1>3, <1>4
  <2>3. QED BY <2>1, <2>2
<1>8. Publisher!Show
  BY <1>2, <1>3, <1>6, <1>7 DEF Publisher!Show, Told
<1>9. QED
  BY <1>1, <1>2, <1>5, <1>8 DEF ToldInv, SendsTheTold

LEMMA ToldStep ==
  ASSUME ToldInv, [AgentNext]_agentVars
  PROVE  ToldInv' /\ [Publisher!Next]_(Publisher!vars)
<1> USE DEF worldVars, evaluatorVars, publisherVars, loopVars
<1>1. AgentTypeInv /\ AgentTypeInv'
  BY AgentKeepsTypes DEF ToldInv
<1>2. CASE UNCHANGED <<clock, node, last_status, transitions>>
           /\ (step' = "patch" => step = "patch" /\ UNCHANGED report)
  <2>1. Told' = Told
    BY <1>2 DEF Told
  <2>2. StampsInOrder' /\ SendsTheTold'
    BY <1>2, <2>1 DEF ToldInv, StampsInOrder, SendsTheTold
  <2>3. UNCHANGED Publisher!vars
    BY <1>2, <2>1 DEF Publisher!vars, Told
  <2>4. QED
    BY <1>1, <2>2, <2>3 DEF ToldInv
<1>3. CASE Collect \/ Evaluate \/ CollectRaises \/ NotDue \/ NothingToPublish
  BY <1>2, <1>3 DEF Collect, Evaluate, CollectRaises, AfterCollection, NotDue, NothingToPublish
<1>4. CASE Patch(FALSE)
  BY <1>2, <1>4 DEF Patch
<1>5. CASE (\E r \in Watched : CountLine(r)) \/ (\E t \in Disturbed : ComesOrGoes(t))
  BY <1>2, <1>5 DEF CountLine, ComesOrGoes
<1>6. CASE UNCHANGED agentVars
  BY <1>2, <1>6 DEF agentVars
<1>7. CASE BuildReport
  BY <1>7, ToldBuilt DEF Publisher!Next
<1>8. CASE Patch(TRUE)
  BY <1>8, ToldShown DEF Publisher!Next
<1>9. CASE RestartAgent
  <2>1. /\ last_status' = Unjudged /\ step' = "collect"
        /\ transitions' = [c \in ALL_CONDITIONS |-> NoTime]
        /\ UNCHANGED <<clock, node>>
    BY <1>9 DEF RestartAgent
  <2>2. \A c \in ALL_CONDITIONS : last_status'[c] = Unset /\ transitions'[c] = NoTime
    BY <2>1 DEF Unjudged
  <2>3. StampsInOrder'
    BY <1>1, <2>1, <2>2, ToldNumbers DEF ToldInv, StampsInOrder, NoTime
  <2>4. Told' = [c \in ALL_CONDITIONS |-> [status |-> Unset, since |-> NoTime]]
    BY <2>2 DEF Told
  <2>5. Publisher!NewProcess
    BY <2>1, <2>4 DEF Publisher!NewProcess, Publisher!NothingYet, Told
  <2>6. QED
    BY <1>1, <2>1, <2>3, <2>5 DEF ToldInv, SendsTheTold, Publisher!Next
<1>10. CASE Tick
  <2>1. clock' = clock + 1 /\ UNCHANGED <<node, last_status, transitions, step, report>>
    BY <1>10 DEF Tick
  <2>2. StampsInOrder'
    BY <1>1, <2>1, ToldNumbers DEF ToldInv, StampsInOrder
  <2>3. Told' = Told
    BY <2>1 DEF Told
  <2>4. SendsTheTold'
    BY <2>1, <2>3 DEF ToldInv, SendsTheTold
  <2>5. Publisher!Pass
    BY <1>1, <2>1, <2>3, ToldNumbers DEF Publisher!Pass, Told
  <2>6. QED
    BY <1>1, <2>2, <2>4, <2>5 DEF ToldInv, Publisher!Next
<1>11. QED
  BY <1>3, <1>4, <1>5, <1>6, <1>7, <1>8, <1>9, <1>10 DEF AgentNext, AgentGoes, AgentFails, World

LEMMA ToldInitially == AgentInit => Publisher!Init
<1> SUFFICES ASSUME AgentInit PROVE Publisher!Init
  OBVIOUS
<1>1. /\ clock = 0 /\ node = Nothing /\ last_status = Unjudged
      /\ transitions = [c \in ALL_CONDITIONS |-> NoTime]
  BY DEF AgentInit, NewProcess
<1>2. Told = [c \in ALL_CONDITIONS |-> [status |-> Unset, since |-> NoTime]]
  BY <1>1 DEF Told, Unjudged
<1>3. QED
  BY <1>1, <1>2 DEF Publisher!Init, Publisher!NothingYet, Told, Nothing

(* The Node as the guard may read it.  The publisher's memory and its       *)
(* PATCHes implement ReportedConditions: whatever raises, is lost or        *)
(* restarts, the Node holds one process's whole report, whose stamps are    *)
(* its flips, and no stamp on the Node goes back (main.py, publish).        *)
THEOREM AgentImplementsReportedConditions == AgentSpec => ImplementsReportedConditions
<1>1. ToldInv /\ [AgentNext]_agentVars => ToldInv' /\ [Publisher!Next]_(Publisher!vars)
  BY ToldStep
<1>2. QED
  BY <1>1, ToldInit, ToldInitially, PTL
     DEF AgentSpec, ImplementsReportedConditions, Publisher!Spec

\* So it is with the guard beside it.
COROLLARY GuardReadsReportedConditions == AgentGuardSpec => ImplementsReportedConditions
BY AgentGuardRunsTheAgent, AgentImplementsReportedConditions, PTL
=============================================================================

--------------------------- MODULE RecorderProofs ---------------------------
(***************************************************************************)
(* Proofs about the stress recorder, for any pods, any number of their     *)
(* changes and of markers.                                                 *)
(*                                                                         *)
(* Three invariants, one per property: where a marker is between its echo  *)
(* and its row; that what lies in the file is later than what is in any    *)
(* row; and what a calm sample knows of the two addresses.                 *)
(***************************************************************************)
EXTENDS StressRecorder, TLAPS

\* A sample past take_marker.
Polling == {"agent", "agent resolve", "guard", "guard resolve", "guard again", "write"}

\* Nothing is in the row before the file has been read.
RowEmpty == step \in {"start", "tick", "open", "read", "done"} => row = EmptyRow

\* take_marker reads the inode the path still names: only the recorder unlinks.
\* The shell's inode is that of the path, or has been unlinked under it.
Inodes ==
  /\ step = "read" => open = path
  /\ step \in {"read", "unlink"} => path # NoInode
  /\ echo # NoInode => path \in {echo, NoInode}

\* What has not been taken is later than what has.
Order ==
  /\ row.marker <= written
  /\ landed <= written
  /\ row.marker # NoMarker => row.marker > landed
  /\ path # NoInode =>
       /\ text[path] <= written
       /\ text[path] # NoMarker =>
            /\ text[path] > landed
            /\ IF step = "unlink" THEN text[path] >= row.marker ELSE text[path] > row.marker
  /\ echo # NoInode =>
       text[echo] = NoMarker /\ written > landed /\ written > row.marker

\* The marker that has to be taken is in the file the path names, and nobody
\* writes there; then it is in the row; then in the last row.
Lands ==
  /\ due # NoMarker =>
       /\ step \notin {"read", "unlink"}
       /\ echo = NoInode /\ path # NoInode /\ text[path] = due
  /\ expected # NoMarker =>
       /\ step # "start"
       /\ step = "read" => echo = NoInode /\ text[path] = expected
       /\ step \in {"unlink"} \cup Polling => row.marker = expected
       /\ step \in {"tick", "open"} => last.marker = expected

\* A calm sample finds what answers.
Recovers ==
  /\ calm => Calm
  /\ calm /\ step = "guard resolve" => guard_url \notin up
  /\ calm /\ step = "guard again" => guard_url \in up
  /\ calm /\ step = "write" => row.guard_ok
  /\ missed <= 1
  /\ missed # 0 => agent_url \in up
  /\ step = "agent resolve" => missed = 0
  /\ step \in {"guard", "guard resolve", "guard again", "write"} /\ ~row.agent_ok =>
       missed = 0 /\ (calm => agent_url \in up)

RecorderInv ==
  /\ RecorderTypeOK
  /\ RowEmpty /\ Inodes /\ Order
  /\ Lands
  /\ Recovers

-----------------------------------------------------------------------------
(* A sample writes its row field by field.                                  *)

LEMMA RowMarker ==
  ASSUME NEW r \in Row, NEW m \in Marker \cup {NoMarker}
  PROVE  LET q == [r EXCEPT !.marker = m] IN
         /\ q \in Row /\ q.marker = m
         /\ q.agent_ok = r.agent_ok /\ q.guard_ok = r.guard_ok
  BY DEF Row

LEMMA EmptyRowIsRow == EmptyRow \in Row /\ EmptyRow.marker = NoMarker
  BY DEF EmptyRow, Row

-----------------------------------------------------------------------------
(* Every kind of step: of the recorder, of the operator's shell, of the pods.*)

LEMMA RecorderActions ==
  ASSUME RecorderNext
  PROVE  \/ \E agent \in AgentAddress \cup {NoAddress}, guard \in GuardAddress \cup {NoAddress} :
               Start(agent, guard) \/ ResolveAgent(agent, guard) \/ ResolveGuard(agent, guard)
         \/ Stop \/ Sample \/ Open \/ Read \/ Unlink \/ TakeFails
         \/ PollAgent \/ PollGuard \/ PollGuardAgain \/ WriteRow
         \/ EchoWrites \/ (\E i \in Inode : EchoOpens(i))
         \/ Cluster
  BY Zenon DEF RecorderNext, Recorder, Shell

\* What a change of the pods leaves alone.
LEMMA ClusterParts ==
  ASSUME RecorderTypeOK, Cluster
  PROVE  /\ PodsChange
         /\ pods' \in SUBSET Address
         /\ up' \in SUBSET pods'
<1>1. ASSUME NEW a \in Address, Appear(a) \/ Turn(a) \/ Vanish(a)
      PROVE  PodsChange /\ pods' \in SUBSET Address /\ up' \in SUBSET pods'
  BY <1>1 DEF RecorderTypeOK, Appear, Turn, Vanish
<1>2. ASSUME NEW a \in Address, NEW b \in Address, Replace(a, b)
      PROVE  PodsChange /\ pods' \in SUBSET Address /\ up' \in SUBSET pods'
  BY <1>2 DEF RecorderTypeOK, Replace
<1>3. QED BY <1>1, <1>2 DEF Cluster

-----------------------------------------------------------------------------
(* Types.                                                                  *)

\* The fields and the texts of well-typed variables.
LEMMA RecorderFields ==
  ASSUME RecorderTypeOK
  PROVE  /\ row \in Row /\ last \in Row
         /\ row.marker \in Nat /\ last.marker \in Nat
         /\ row.marker \in Marker \cup {NoMarker}
         /\ \A i \in Inode : text[i] \in Nat /\ text[i] \in Marker \cup {NoMarker}
         /\ row.agent_ok \in BOOLEAN /\ row.guard_ok \in BOOLEAN
         /\ written \in Nat /\ landed \in Nat /\ due \in Nat /\ expected \in Nat
  BY RecorderAssumption DEF RecorderTypeOK, Row, Marker, NoMarker

\* What a poll does to the row.
LEMMA AgentPolled ==
  ASSUME RecorderTypeOK, PollAgent
  PROVE  /\ row' \in Row
         /\ row'.agent_ok = (agent_url \in up)
         /\ row'.marker = row.marker /\ row'.guard_ok = row.guard_ok
<1>1. row' = [row EXCEPT !.agent_ok = agent_url \in up]
  BY Zenon DEF PollAgent
<1>2. row \in Row
  BY Zenon DEF RecorderTypeOK
<1>3. (agent_url \in up) \in BOOLEAN
  OBVIOUS
<1>4. QED BY <1>1, <1>2, <1>3, Zenon DEF Row

LEMMA GuardPolled ==
  ASSUME RecorderTypeOK, PollGuard \/ PollGuardAgain
  PROVE  /\ row' \in Row
         /\ row'.guard_ok = (guard_url \in up)
         /\ row'.marker = row.marker /\ row'.agent_ok = row.agent_ok
<1>1. row' = [row EXCEPT !.guard_ok = guard_url \in up]
  BY Zenon DEF PollGuard, PollGuardAgain
<1>2. row \in Row
  BY Zenon DEF RecorderTypeOK
<1>3. (guard_url \in up) \in BOOLEAN
  OBVIOUS
<1>4. QED BY <1>1, <1>2, <1>3, Zenon DEF Row

LEMMA RecorderInitTypes == RecorderInit => RecorderTypeOK
<1> SUFFICES ASSUME RecorderInit PROVE RecorderTypeOK
  OBVIOUS
<1>1. row \in Row /\ last \in Row
  BY EmptyRowIsRow DEF RecorderInit
<1>2. pods \in SUBSET Address /\ up \in SUBSET pods
  BY DEF RecorderInit
<1>3. (open # NoInode) <=> (step = "read")
  BY DEF RecorderInit
<1>4. text \in [Inode -> Marker \cup {NoMarker}]
  BY DEF RecorderInit
<1>5. changes \in 0..MaxChanges /\ written \in 0..MaxMarkers
  BY RecorderAssumption DEF RecorderInit
<1>6. QED
  BY <1>1, <1>2, <1>3, <1>4, <1>5 DEF RecorderInit, RecorderTypeOK, Steps

LEMMA RecorderStepTypes == RecorderTypeOK /\ [RecorderNext]_vars => RecorderTypeOK'
<1> SUFFICES ASSUME RecorderTypeOK, [RecorderNext]_vars PROVE RecorderTypeOK'
  OBVIOUS
<1>0. CASE UNCHANGED vars
  BY <1>0 DEF RecorderTypeOK, vars, podVars, fileVars, pollVars, pastVars
<1>1. ASSUME NEW agent \in AgentAddress \cup {NoAddress}, NEW guard \in GuardAddress \cup {NoAddress},
             Start(agent, guard)
      PROVE  RecorderTypeOK'
  <2>1. CASE agent = NoAddress
    BY <1>1, <2>1 DEF Start, Ends, RecorderTypeOK, podVars, fileVars, pollVars, pastVars, Steps
  <2>2. CASE agent # NoAddress
    BY <1>1, <2>2 DEF Start, RecorderTypeOK, podVars, fileVars, pastVars, Steps
  <2>3. QED BY <2>1, <2>2
<1>2. ASSUME NEW agent \in AgentAddress \cup {NoAddress}, NEW guard \in GuardAddress \cup {NoAddress},
             ResolveAgent(agent, guard)
      PROVE  RecorderTypeOK'
  BY <1>2 DEF ResolveAgent, RecorderTypeOK, IfFound, podVars, fileVars, Steps
<1>3. ASSUME NEW agent \in AgentAddress \cup {NoAddress}, NEW guard \in GuardAddress \cup {NoAddress},
             ResolveGuard(agent, guard)
      PROVE  RecorderTypeOK'
  BY <1>3 DEF ResolveGuard, RecorderTypeOK, IfFound, podVars, fileVars, Steps
<1>4. CASE Stop
  BY <1>4 DEF Stop, Ends, RecorderTypeOK, podVars, fileVars, pollVars, pastVars, Steps
<1>5. CASE Sample
  BY <1>5 DEF Sample, Calm, RecorderTypeOK, podVars, fileVars, pollVars, Steps
<1>6. CASE Open
  BY <1>6 DEF Open, RecorderTypeOK, podVars, fileVars, pollVars, Steps, NoInode, NoMarker, Inode
<1>7. CASE Read
  <2>1. open \in Inode
    BY <1>7 DEF Read, RecorderTypeOK
  <2>2. row' \in Row
    BY <1>7, <2>1, RecorderFields, RowMarker DEF Read
  <2>3. QED
    BY <1>7, <2>2 DEF Read, RecorderTypeOK, podVars, fileVars, pollVars, pastVars, Steps, NoInode
<1>8. CASE Unlink
  BY <1>8 DEF Unlink, Unlinked, RecorderTypeOK, podVars, pollVars, pastVars, Steps
<1>9. CASE TakeFails
  <2>1. row' \in Row
    BY <1>9, RecorderFields, RowMarker DEF TakeFails
  <2>2. QED
    BY <1>9, <2>1 DEF TakeFails, RecorderTypeOK, podVars, fileVars, pollVars, Steps, NoInode, NoMarker
<1>10. CASE PollAgent
  <2>1. row' \in Row
    BY <1>10, AgentPolled
  <2>2. QED
    BY <1>10, <2>1
       DEF PollAgent, RecorderTypeOK, podVars, fileVars, pollVars, pastVars, Steps
<1>11. CASE PollGuard
  <2>1. row' \in Row
    BY <1>11, GuardPolled
  <2>2. QED
    BY <1>11, <2>1
       DEF PollGuard, RecorderTypeOK, podVars, fileVars, pollVars, pastVars, Steps
<1>12. CASE PollGuardAgain
  <2>1. row' \in Row
    BY <1>12, GuardPolled
  <2>2. QED
    BY <1>12, <2>1
       DEF PollGuardAgain, RecorderTypeOK, podVars, fileVars, pollVars, pastVars, Steps
<1>13. CASE WriteRow
  <2>1. row' \in Row /\ last' \in Row /\ landed' \in Marker \cup {NoMarker}
    BY <1>13, RecorderFields, EmptyRowIsRow DEF WriteRow, Recorded, RecorderTypeOK
  <2>2. missed' \in Nat
    BY <1>13 DEF WriteRow, RecorderTypeOK
  <2>3. QED
    BY <1>13, <2>1, <2>2 DEF WriteRow, RecorderTypeOK, podVars, fileVars, pollVars, Steps
<1>14. CASE EchoWrites
  <2>1. echo \in Inode /\ written \in Marker \cup {NoMarker}
    BY <1>14, RecorderAssumption DEF EchoWrites, RecorderTypeOK, Marker, NoMarker
  <2>2. QED
    BY <1>14, <2>1 DEF EchoWrites, RecorderTypeOK, podVars, pollVars, NoInode
<1>15. ASSUME NEW i \in Inode, EchoOpens(i)
       PROVE  RecorderTypeOK'
  <2>1. written + 1 \in 0..MaxMarkers
    BY <1>15, RecorderAssumption DEF EchoOpens, RecorderTypeOK
  <2>2. QED
    BY <1>15, <2>1 DEF EchoOpens, RecorderTypeOK, podVars, pollVars, NoMarker
<1>16. CASE Cluster
  <2>1. PodsChange /\ pods' \in SUBSET Address /\ up' \in SUBSET pods'
    BY <1>16, ClusterParts
  <2>2. changes' \in 0..MaxChanges
    BY <2>1, RecorderAssumption DEF PodsChange, RecorderTypeOK
  <2>3. QED
    BY <2>1, <2>2 DEF PodsChange, RecorderTypeOK, fileVars, pollVars
<1>17. QED
  BY <1>0, <1>1, <1>2, <1>3, <1>4, <1>5, <1>6, <1>7, <1>8, <1>9, <1>10, <1>11, <1>12, <1>13,
     <1>14, <1>15, <1>16, RecorderActions

(* Every variable of the stress recorder keeps its type; a poll of the     *)
(* agent always has an address.                                            *)
THEOREM RecorderTypeCorrect == RecorderSpec => []RecorderTypeOK
  BY RecorderInitTypes, RecorderStepTypes, PTL DEF RecorderSpec

-----------------------------------------------------------------------------
(* Where the markers are.                                                  *)

LEMMA StepKeepsRowEmpty ==
  ASSUME RecorderTypeOK, RowEmpty, [RecorderNext]_vars
  PROVE  RowEmpty'
<1>0. CASE UNCHANGED vars
  BY <1>0 DEF RowEmpty, vars
<1>1. ASSUME NEW agent \in AgentAddress \cup {NoAddress}, NEW guard \in GuardAddress \cup {NoAddress},
             Start(agent, guard) \/ ResolveAgent(agent, guard) \/ ResolveGuard(agent, guard)
      PROVE  RowEmpty'
  BY <1>1 DEF Start, Ends, ResolveAgent, ResolveGuard, RowEmpty
<1>2. CASE Stop \/ Sample \/ Open \/ Unlink \/ EchoWrites
  BY <1>2 DEF Stop, Ends, Sample, Open, Unlink, EchoWrites, RowEmpty
<1>3. CASE Read \/ TakeFails \/ PollAgent \/ PollGuard \/ PollGuardAgain
  BY <1>3 DEF Read, TakeFails, PollAgent, PollGuard, PollGuardAgain, RowEmpty
<1>4. CASE WriteRow
  BY <1>4 DEF WriteRow, RowEmpty
<1>5. ASSUME NEW i \in Inode, EchoOpens(i)
      PROVE  RowEmpty'
  BY <1>5 DEF EchoOpens, RowEmpty
<1>6. CASE Cluster
  BY <1>6, ClusterParts DEF PodsChange, RowEmpty
<1>7. QED
  BY <1>0, <1>1, <1>2, <1>3, <1>4, <1>5, <1>6, RecorderActions

LEMMA StepKeepsInodes ==
  ASSUME RecorderTypeOK, Inodes, [RecorderNext]_vars
  PROVE  Inodes'
<1>0. CASE UNCHANGED vars
  BY <1>0 DEF Inodes, vars, fileVars
<1>1. ASSUME NEW agent \in AgentAddress \cup {NoAddress}, NEW guard \in GuardAddress \cup {NoAddress},
             Start(agent, guard) \/ ResolveAgent(agent, guard) \/ ResolveGuard(agent, guard)
      PROVE  Inodes'
  BY <1>1 DEF Start, Ends, ResolveAgent, ResolveGuard, Inodes, fileVars
<1>2. CASE Stop \/ Sample \/ Open
  BY <1>2 DEF Stop, Ends, Sample, Open, Inodes, fileVars
<1>3. CASE Read
  BY <1>3 DEF Read, Inodes, fileVars, RecorderTypeOK
<1>4. CASE TakeFails \/ Unlink
  BY <1>4 DEF TakeFails, Unlink, Unlinked, Inodes, fileVars
<1>5. CASE PollAgent \/ PollGuard \/ PollGuardAgain \/ WriteRow
  BY <1>5 DEF PollAgent, PollGuard, PollGuardAgain, WriteRow, Inodes, fileVars
<1>6. CASE EchoWrites
  BY <1>6 DEF EchoWrites, Inodes
<1>7. ASSUME NEW i \in Inode, EchoOpens(i)
      PROVE  Inodes'
  BY <1>7 DEF EchoOpens, Inodes, Inode, NoInode
<1>8. CASE Cluster
  BY <1>8, ClusterParts DEF PodsChange, Inodes, fileVars
<1>9. QED
  BY <1>0, <1>1, <1>2, <1>3, <1>4, <1>5, <1>6, <1>7, <1>8, RecorderActions

\* What an echo does to the texts.
LEMMA EchoOpensText ==
  ASSUME RecorderTypeOK, NEW i \in Inode, EchoOpens(i)
  PROVE  text'[i] = NoMarker
  BY DEF EchoOpens, RecorderTypeOK

LEMMA EchoWritesText ==
  ASSUME RecorderTypeOK, EchoWrites
  PROVE  echo \in Inode /\ text'[echo] = written /\ \A i \in Inode : i # echo => text'[i] = text[i]
  BY DEF EchoWrites, RecorderTypeOK

LEMMA StepKeepsOrder ==
  ASSUME RecorderTypeOK, RowEmpty, Inodes, Order, [RecorderNext]_vars
  PROVE  Order'
<1> USE RecorderFields DEF NoMarker
<1>0. CASE UNCHANGED vars
  BY <1>0 DEF Order, vars, fileVars, pastVars
<1>1. ASSUME NEW agent \in AgentAddress \cup {NoAddress}, NEW guard \in GuardAddress \cup {NoAddress},
             Start(agent, guard) \/ ResolveAgent(agent, guard) \/ ResolveGuard(agent, guard)
      PROVE  Order'
  BY <1>1 DEF Start, Ends, ResolveAgent, ResolveGuard, Order, fileVars, pastVars
<1>2. CASE Stop \/ Sample \/ Open
  BY <1>2 DEF Stop, Ends, Sample, Open, Order, fileVars, pastVars
<1>3. CASE Read
  <2>1. path \in Inode /\ open = path
    BY <1>3 DEF Read, Inodes, RecorderTypeOK
  <2>2. row'.marker = text[path]
    BY <1>3, <2>1, RowMarker DEF Read
  <2>3. row.marker = 0
    BY <1>3, EmptyRowIsRow DEF Read, RowEmpty
  <2>4. step' = "unlink" /\ UNCHANGED <<path, text, echo, written, landed>>
    BY <1>3 DEF Read, fileVars, pastVars
  <2>5. echo # NoInode => echo = path
    BY <2>1 DEF Inodes, Inode, NoInode
  <2>6. text[path] \in Nat /\ text[path] <= written
    BY <2>1 DEF Order, Inode, NoInode
  <2>7. text[path] # 0 => text[path] > landed /\ echo = NoInode
    BY <2>1, <2>4, <2>5 DEF Order, Inode, NoInode
  <2>8. echo # NoInode => text[echo] = 0 /\ written > landed /\ written > 0
    BY <2>3 DEF Order
  <2>9. QED
    BY <2>1, <2>2, <2>4, <2>5, <2>6, <2>7, <2>8 DEF Order
<1>4. CASE Unlink
  BY <1>4 DEF Unlink, Unlinked, Order, pastVars
<1>5. CASE TakeFails
  <2>1. row'.marker = 0
    BY <1>5, RowMarker DEF TakeFails
  <2>2. step' = "agent" /\ UNCHANGED <<path, text, echo, written, landed>>
    BY <1>5 DEF TakeFails, fileVars
  <2>3. path # NoInode => path \in Inode
    BY DEF RecorderTypeOK
  <2>4. QED
    BY <2>1, <2>2, <2>3 DEF Order
<1>6. CASE PollAgent \/ PollGuard \/ PollGuardAgain
  <2>1. row'.marker = row.marker
    BY <1>6, AgentPolled, GuardPolled, Zenon
  <2>2. step # "unlink" /\ step' # "unlink" /\ UNCHANGED <<path, text, echo, written, landed>>
    BY <1>6 DEF PollAgent, PollGuard, PollGuardAgain, fileVars, pastVars
  <2>3. QED
    BY <2>1, <2>2 DEF Order
<1>7. CASE WriteRow
  <2>1. row'.marker = 0
    BY <1>7, EmptyRowIsRow DEF WriteRow
  <2>2. step = "write" /\ step' = "tick" /\ UNCHANGED <<path, text, echo, written>>
    BY <1>7 DEF WriteRow, fileVars
  <2>3. landed' = IF row.marker > landed THEN row.marker ELSE landed
    BY <1>7 DEF WriteRow, Recorded
  <2>4. path # NoInode => path \in Inode
    BY DEF RecorderTypeOK
  <2>5. QED
    BY <2>1, <2>2, <2>3, <2>4 DEF Order
<1>8. CASE EchoWrites
  <2>1. echo \in Inode /\ echo # NoInode /\ text'[echo] = written /\ path \in {echo, NoInode}
    BY <1>8, EchoWritesText DEF EchoWrites, Inodes
  <2>2. echo' = NoInode /\ UNCHANGED <<path, written, step, row, landed>>
    BY <1>8 DEF EchoWrites
  <2>3. QED
    BY <2>1, <2>2 DEF Order
<1>9. ASSUME NEW i \in Inode, EchoOpens(i)
      PROVE  Order'
  <2>1. text'[i] = 0 /\ path' = i /\ echo' = i /\ written' = written + 1
    BY <1>9, EchoOpensText DEF EchoOpens
  <2>2. UNCHANGED <<step, row, landed>>
    BY <1>9 DEF EchoOpens
  <2>3. step = "unlink" => row.marker <= written
    BY DEF Order
  <2>4. QED
    BY <2>1, <2>2, <2>3 DEF Order
<1>10. CASE Cluster
  BY <1>10, ClusterParts DEF PodsChange, Order, fileVars
<1>11. QED
  BY <1>0, <1>1, <1>2, <1>3, <1>4, <1>5, <1>6, <1>7, <1>8, <1>9, <1>10, RecorderActions

LEMMA StepKeepsLands ==
  ASSUME RecorderTypeOK, RowEmpty, Inodes, Order, Lands, [RecorderNext]_vars
  PROVE  Lands'
<1> USE RecorderFields DEF NoMarker
<1>0. CASE UNCHANGED vars
  BY <1>0 DEF Lands, Polling, vars, fileVars, pastVars
<1>1. ASSUME NEW agent \in AgentAddress \cup {NoAddress}, NEW guard \in GuardAddress \cup {NoAddress},
             Start(agent, guard) \/ ResolveAgent(agent, guard) \/ ResolveGuard(agent, guard)
      PROVE  Lands'
  BY <1>1 DEF Start, Ends, ResolveAgent, ResolveGuard, Lands, Polling, fileVars, pastVars
<1>2. CASE Stop \/ Sample
  BY <1>2 DEF Stop, Ends, Sample, Lands, Polling, fileVars, pastVars
<1>3. CASE Open
  <2>1. expected' = due /\ due' = 0 /\ step' \in {"agent", "read"}
    BY <1>3 DEF Open
  <2>2. due # 0 => step' = "read" /\ echo = NoInode /\ text[path] = due
    BY <1>3 DEF Open, Lands
  <2>3. UNCHANGED <<path, text, echo, last, row>>
    BY <1>3 DEF Open, fileVars
  <2>4. QED
    BY <2>1, <2>2, <2>3 DEF Lands, Polling
<1>4. CASE Read
  <2>1. step = "read" /\ open = path /\ path \in Inode
    BY <1>4 DEF Read, Inodes, RecorderTypeOK
  <2>2. row'.marker = text[path]
    BY <1>4, <2>1, RowMarker DEF Read
  <2>3. step' = "unlink" /\ UNCHANGED <<path, text, echo, last, due, expected>>
    BY <1>4 DEF Read, fileVars, pastVars
  <2>4. due = 0 /\ (expected # 0 => text[path] = expected)
    BY <2>1 DEF Lands
  <2>5. QED
    BY <2>2, <2>3, <2>4 DEF Lands, Polling
<1>5. CASE Unlink
  <2>1. due = 0 /\ (expected # 0 => row.marker = expected)
    BY <1>5 DEF Unlink, Lands
  <2>2. step' = "agent" /\ UNCHANGED <<row, due, expected>>
    BY <1>5 DEF Unlink, pastVars
  <2>3. QED
    BY <2>1, <2>2 DEF Lands, Polling
<1>6. CASE TakeFails
  BY <1>6 DEF TakeFails, Lands
<1>7. CASE PollAgent \/ PollGuard \/ PollGuardAgain
  <2>1. row'.marker = row.marker
    BY <1>7, AgentPolled, GuardPolled, Zenon
  <2>2. step \in Polling /\ step' \in Polling
    BY <1>7 DEF PollAgent, PollGuard, PollGuardAgain, Polling
  <2>3. UNCHANGED <<path, text, echo, due, expected>>
    BY <1>7 DEF PollAgent, PollGuard, PollGuardAgain, fileVars, pastVars
  <2>4. QED
    BY <2>1, <2>2, <2>3 DEF Lands, Polling
<1>8. CASE WriteRow
  <2>1. step = "write" /\ step' = "tick" /\ last' = row
    BY <1>8 DEF WriteRow, Recorded
  <2>2. UNCHANGED <<path, text, echo, due, expected>>
    BY <1>8 DEF WriteRow, fileVars
  <2>3. QED
    BY <2>1, <2>2 DEF Lands, Polling
<1>9. CASE EchoWrites
  <2>1. echo \in Inode /\ echo # NoInode /\ text'[echo] = written
    BY <1>9, EchoWritesText DEF EchoWrites
  <2>2. due' # 0 => due' = written /\ path = echo /\ step \notin {"read", "unlink"}
    BY <1>9 DEF EchoWrites
  <2>3. echo' = NoInode /\ UNCHANGED <<path, step, row, last, expected>>
    BY <1>9 DEF EchoWrites
  <2>4. step = "read" => expected = 0
    BY <2>1 DEF Lands
  <2>5. QED
    BY <2>1, <2>2, <2>3, <2>4 DEF Lands, Polling
<1>10. ASSUME NEW i \in Inode, EchoOpens(i)
       PROVE  Lands'
  <2>1. due' = 0 /\ (step \in {"read", "unlink"} => expected' = 0)
    BY <1>10 DEF EchoOpens
  <2>2. expected' # 0 => expected' = expected /\ step \notin {"read", "unlink"}
    BY <1>10 DEF EchoOpens
  <2>3. UNCHANGED <<step, row, last>>
    BY <1>10 DEF EchoOpens
  <2>4. QED
    BY <2>1, <2>2, <2>3 DEF Lands, Polling
<1>11. CASE Cluster
  BY <1>11, ClusterParts DEF PodsChange, Lands, Polling, fileVars
<1>12. QED
  BY <1>0, <1>1, <1>2, <1>3, <1>4, <1>5, <1>6, <1>7, <1>8, <1>9, <1>10, <1>11, RecorderActions

-----------------------------------------------------------------------------
(* What a calm sample finds.                                               *)

\* In a calm cluster kubectl finds pods that answer.
LEMMA FoundAnswers ==
  ASSUME RecorderTypeOK, Calm, NEW agent, NEW guard, Found(agent, guard)
  PROVE  /\ agent \in up /\ agent # NoAddress
         /\ guard \in up /\ guard # NoAddress
  BY RecorderAssumption DEF Calm, Found, RecorderTypeOK, Address

LEMMA StepKeepsRecovers ==
  ASSUME RecorderTypeOK, Recovers, [RecorderNext]_vars
  PROVE  Recovers'
<1> USE DEF RecorderTypeOK
<1>0. CASE UNCHANGED vars
  BY <1>0 DEF Recovers, Calm, vars, podVars, pollVars, pastVars
<1>1. ASSUME NEW agent \in AgentAddress \cup {NoAddress}, NEW guard \in GuardAddress \cup {NoAddress},
             Start(agent, guard)
      PROVE  Recovers'
  <2>1. step = "start" /\ step' \in {"tick", "done"}
    BY <1>1 DEF Start, Ends
  <2>2. UNCHANGED <<pods, up, calm, missed>> /\ (agent_url' = agent_url \/ missed = 0)
    BY <1>1, RecorderAssumption DEF Start, Ends, podVars, pollVars, pastVars, Recovers, Address
  <2>3. QED
    BY <2>1, <2>2 DEF Recovers, Calm
<1>2. ASSUME NEW agent \in AgentAddress \cup {NoAddress}, NEW guard \in GuardAddress \cup {NoAddress},
             ResolveAgent(agent, guard)
      PROVE  Recovers'
  <2>1. step = "agent resolve" /\ step' = "guard" /\ missed = 0 /\ missed' = 0
    BY <1>2 DEF ResolveAgent, Recovers
  <2>2. UNCHANGED <<pods, up, row>>
    BY <1>2 DEF ResolveAgent, podVars
  <2>3. calm' => Calm /\ agent_url' \in up
    BY <1>2, FoundAnswers DEF ResolveAgent, IfFound, Recovers
  <2>4. QED
    BY <2>1, <2>2, <2>3 DEF Recovers, Calm
<1>3. ASSUME NEW agent \in AgentAddress \cup {NoAddress}, NEW guard \in GuardAddress \cup {NoAddress},
             ResolveGuard(agent, guard)
      PROVE  Recovers'
  <2>1. step = "guard resolve" /\ step' \in {"write", "guard again"}
    BY <1>3 DEF ResolveGuard
  <2>2. UNCHANGED <<pods, up, row, agent_url, missed>>
    BY <1>3 DEF ResolveGuard, podVars
  <2>3. calm' => calm /\ Calm /\ step' = "guard again" /\ guard_url' \in up
    BY <1>3, FoundAnswers DEF ResolveGuard, IfFound, Recovers
  <2>4. QED
    BY <2>1, <2>2, <2>3 DEF Recovers, Calm
<1>4. CASE Stop \/ Sample
  <2>1. step' \in {"done", "open"} /\ UNCHANGED <<pods, up, agent_url, missed>>
    BY <1>4 DEF Stop, Ends, Sample, podVars, pollVars, pastVars
  <2>2. calm' => Calm
    BY <1>4 DEF Stop, Ends, Sample, Recovers, pastVars
  <2>3. QED
    BY <2>1, <2>2 DEF Recovers, Calm
<1>5. CASE Open \/ Read \/ Unlink \/ TakeFails
  <2>1. step' \in {"read", "unlink", "agent"}
    BY <1>5 DEF Open, Read, Unlink, TakeFails
  <2>2. UNCHANGED <<pods, up, agent_url, calm, missed>>
    BY <1>5 DEF Open, Read, Unlink, TakeFails, podVars, pollVars, pastVars
  <2>3. QED
    BY <2>1, <2>2 DEF Recovers, Calm
<1>6. CASE PollAgent
  <2>1. row'.agent_ok = (agent_url \in up)
    BY <1>6, AgentPolled
  <2>2. step' = IF agent_url \in up THEN "guard" ELSE "agent resolve"
    BY <1>6 DEF PollAgent
  <2>3. UNCHANGED <<pods, up, agent_url, calm, missed>>
    BY <1>6 DEF PollAgent, podVars, pollVars, pastVars
  <2>4. QED
    BY <2>1, <2>2, <2>3 DEF Recovers, Calm
<1>7. CASE PollGuard
  <2>1. row'.agent_ok = row.agent_ok /\ row'.guard_ok = (guard_url \in up)
    BY <1>7, GuardPolled
  <2>2. step = "guard" /\ step' = IF guard_url \in up THEN "write" ELSE "guard resolve"
    BY <1>7 DEF PollGuard, GuardFailed
  <2>3. UNCHANGED <<pods, up, agent_url, guard_url, calm, missed>>
    BY <1>7 DEF PollGuard, podVars, pollVars, pastVars
  <2>4. QED
    BY <2>1, <2>2, <2>3 DEF Recovers, Calm
<1>8. CASE PollGuardAgain
  <2>1. row'.agent_ok = row.agent_ok /\ row'.guard_ok = (guard_url \in up)
    BY <1>8, GuardPolled
  <2>2. step = "guard again" /\ step' = "write"
    BY <1>8 DEF PollGuardAgain
  <2>3. UNCHANGED <<pods, up, agent_url, guard_url, calm, missed>>
    BY <1>8 DEF PollGuardAgain, podVars, pollVars, pastVars
  <2>4. QED
    BY <2>1, <2>2, <2>3 DEF Recovers, Calm
<1>9. CASE WriteRow
  <2>1. step = "write" /\ step' = "tick" /\ calm' = FALSE
    BY <1>9 DEF WriteRow
  <2>2. missed' = IF row.agent_ok THEN 0 ELSE IF calm THEN missed + 1 ELSE missed
    BY <1>9 DEF WriteRow
  <2>3. UNCHANGED <<up, agent_url>>
    BY <1>9 DEF WriteRow, podVars, pollVars
  <2>4. ~row.agent_ok => missed = 0 /\ (calm => agent_url \in up)
    BY <2>1 DEF Recovers
  <2>5. missed' <= 1 /\ (missed' # 0 => agent_url \in up)
    BY <2>2, <2>4
  <2>6. QED
    BY <2>1, <2>3, <2>5 DEF Recovers
<1>10. CASE EchoWrites \/ \E i \in Inode : EchoOpens(i)
  <2>1. UNCHANGED <<pods, up, agent_url, guard_url, step, row, calm, missed>>
    BY <1>10 DEF EchoWrites, EchoOpens, podVars, pollVars
  <2>2. QED
    BY <2>1 DEF Recovers, Calm
<1>11. CASE Cluster
  <2>1. calm' = FALSE /\ missed' = 0
    BY <1>11, ClusterParts DEF PodsChange
  <2>2. missed' <= 1
    BY <2>1
  <2>3. QED
    BY <2>1, <2>2, Zenon DEF Recovers
<1>12. QED
  BY <1>0, <1>1, <1>2, <1>3, <1>4, <1>5, <1>6, <1>7, <1>8, <1>9, <1>10, <1>11, RecorderActions

-----------------------------------------------------------------------------
(* The invariant, and what it says.                                        *)

LEMMA RecorderInitInv == RecorderInit => RecorderInv
<1> SUFFICES ASSUME RecorderInit PROVE RecorderInv
  OBVIOUS
<1>1. RecorderTypeOK
  BY RecorderInitTypes
<1>2. RowEmpty /\ Inodes /\ Recovers
  BY DEF RecorderInit, RowEmpty, Inodes, Recovers
<1>3. Order /\ Lands
  BY EmptyRowIsRow DEF RecorderInit, Order, Lands, Polling, NoMarker, NoInode
<1>4. QED BY <1>1, <1>2, <1>3 DEF RecorderInv

LEMMA RecorderStepInv == RecorderInv /\ [RecorderNext]_vars => RecorderInv'
  BY RecorderStepTypes, StepKeepsRowEmpty, StepKeepsInodes, StepKeepsOrder, StepKeepsLands,
     StepKeepsRecovers, Zenon
  DEF RecorderInv

LEMMA RecorderInvariant == RecorderSpec => []RecorderInv
  BY RecorderInitInv, RecorderStepInv, PTL DEF RecorderSpec

(* For any pods that come, go, hang and move, and whatever kubectl answers, *)
(* a calm sample has the guard's answer, and no two calm samples in a row,  *)
(* with no change between them, are without the agent's.                    *)
THEOREM EachRecoversHolds == RecorderSpec => []EachRecovers
<1>1. RecorderInv => EachRecovers
  BY DEF RecorderInv, Recovers, EachRecovers
<1>2. QED BY <1>1, RecorderInvariant, PTL

(* For any number of markers and any order of the shell's calls and the     *)
(* recorder's, a marker whose echo was over in time is in the next row.     *)
THEOREM LandsInNextHolds == RecorderSpec => []LandsInNext
<1>1. RecorderInv => LandsInNext
  BY DEF RecorderInv, Lands, LandsInNext
<1>2. QED BY <1>1, RecorderInvariant, PTL

(* A marker lands in one row at most, and never behind a later one.         *)
THEOREM OnceInOrderHolds == RecorderSpec => []OnceInOrder
<1>1. RecorderInv => OnceInOrder
  BY DEF RecorderInv, Order, OnceInOrder
<1>2. QED BY <1>1, RecorderInvariant, PTL
=============================================================================

--------------------------- MODULE StressRecorder ---------------------------
(***************************************************************************)
(* tools/stress-recorder.py: one row per sample from the agent's /debug and*)
(* the guard's /metrics, each polled at the address of a pod found with    *)
(* kubectl, and the marker that an operator echoes into a file.            *)
(*                                                                         *)
(* Pods come, go, hang and move to other addresses between any two requests*)
(* of a sample.  take_marker opens, reads and unlinks the file while the   *)
(* operator's shell opens (which creates or empties it) and writes it: four*)
(* calls on a path and its inodes, in any order.                           *)
(*                                                                         *)
(* The columns copied from the two bodies and from the Node are left out.  *)
(***************************************************************************)
EXTENDS Naturals

CONSTANTS
  AgentAddress,   \* the addresses that pods of the node's agent get
  GuardAddress,   \* and those of the guard's pods
  NoAddress,
  MaxMarkers,     \* bound on the markers the operator writes
  MaxChanges      \* bound on the changes of the pods

ASSUME RecorderAssumption ==
  /\ AgentAddress \cap GuardAddress = {}
  /\ NoAddress \notin AgentAddress \cup GuardAddress
  /\ MaxMarkers \in Nat
  /\ MaxChanges \in Nat

VARIABLES
  pods,        \* addresses of the pods the API server lists
  up,          \* those at which something answers
  changes,
  path,        \* the inode the marker file's path names
  text,        \* what each inode holds
  echo,        \* the operator's shell: the inode it has open
  written,     \* how many markers the operator has echoed or is echoing
  step,        \* where main() is
  agent_url,
  guard_url,
  open,        \* the inode take_marker has open
  row,         \* the row of the sample in progress
  last,        \* history: the last row in the file
  landed,      \* history: the greatest marker of any row in the file
  calm,        \* history: whether kubectl has answered this sample, and every pod it
               \* lists, since the sample began
  missed,      \* history: calm samples in a row without an answer of the agent,
               \* since the last change of the pods
  due,         \* history: the marker whose echo ended after the last sample's open
  expected     \* history: the one that this sample has to take

podVars == <<pods, up, changes>>
fileVars == <<path, text, echo, written>>
pollVars == <<agent_url, guard_url>>
pastVars == <<last, landed, calm, missed, due, expected>>
vars == <<podVars, fileVars, step, pollVars, open, row, pastVars>>

Address == AgentAddress \cup GuardAddress

\* The one the path names, and one unlinked while the shell has it open.
Inode == 1..2
NoInode == 0

\* Markers are numbered as the operator writes them.
Marker == 1..MaxMarkers
NoMarker == 0

Row == [marker: Marker \cup {NoMarker}, agent_ok: BOOLEAN, guard_ok: BOOLEAN]
EmptyRow == [marker |-> NoMarker, agent_ok |-> FALSE, guard_ok |-> FALSE]

Steps == {"start", "tick", "open", "read", "unlink", "agent", "agent resolve", "guard",
          "guard resolve", "guard again", "write", "done"}

RecorderTypeOK ==
  /\ pods \in SUBSET Address
  /\ up \in SUBSET pods
  /\ changes \in 0..MaxChanges
  /\ path \in Inode \cup {NoInode}
  /\ text \in [Inode -> Marker \cup {NoMarker}]
  /\ echo \in Inode \cup {NoInode}
  /\ written \in 0..MaxMarkers
  /\ step \in Steps
  /\ agent_url \in (IF step = "start" THEN {NoAddress}
                    ELSE AgentAddress \cup (IF step = "done" THEN {NoAddress} ELSE {}))
  /\ guard_url \in GuardAddress \cup {NoAddress}
  /\ open \in Inode \cup {NoInode}
  /\ (open # NoInode) <=> (step = "read")
  /\ row \in Row
  /\ last \in Row
  /\ landed \in Marker \cup {NoMarker}
  /\ calm \in BOOLEAN
  /\ missed \in Nat
  /\ due \in Marker \cup {NoMarker}
  /\ expected \in Marker \cup {NoMarker}

RecorderInit ==
  /\ pods \in SUBSET Address
  /\ up = pods
  /\ changes = 0
  /\ path = NoInode
  /\ text = [i \in Inode |-> NoMarker]
  /\ echo = NoInode
  /\ written = 0
  /\ step = "start"
  /\ agent_url = NoAddress
  /\ guard_url = NoAddress
  /\ open = NoInode
  /\ row = EmptyRow
  /\ last = EmptyRow
  /\ landed = NoMarker
  /\ calm = FALSE
  /\ missed = 0
  /\ due = NoMarker
  /\ expected = NoMarker

-----------------------------------------------------------------------------
(* Deliberately wrong variants: each shows that a property can fail.       *)

\* "The first version of this script only re-resolved when the *agent* failed"
\* (stress-recorder.py:309).
OnlyWithTheAgent == guard_url \notin up /\ ~row.agent_ok

\* A sample without the agent's answer is skipped.
WithAgentOnly == IF row.agent_ok THEN row ELSE last

\* The file is read and left where it is.
StaysInPlace == path

\* The URL of a pod that was not found replaces the one before.
AnyFound(found, old) == found

-----------------------------------------------------------------------------
(* resolve_pods: kubectl lists the pods, of which the last of a kind wins.  *)

\* The agent and the guard it finds; nothing if kubectl fails.
Found(agent, guard) ==
  LET One(kind, a) ==
        \/ a \in pods \cap kind
        \/ a = NoAddress /\ pods \cap kind = {}
  IN One(AgentAddress, agent) /\ One(GuardAddress, guard)

NothingFound(agent, guard) == agent = NoAddress /\ guard = NoAddress

\* All pods listed are there and answer, and there is one of each kind at least.
Calm ==
  /\ pods \cap AgentAddress # {}
  /\ pods \cap GuardAddress # {}
  /\ pods \subseteq up

Ends ==
  /\ step' = "done"
  /\ UNCHANGED <<podVars, fileVars, pollVars, open, row, pastVars>>

Start(agent, guard) ==
  /\ step = "start"
  /\ Found(agent, guard) \/ NothingFound(agent, guard)
  /\ IF agent = NoAddress
     THEN Ends
     ELSE /\ step' = "tick"
          /\ agent_url' = agent
          /\ guard_url' = guard
          /\ UNCHANGED <<podVars, fileVars, open, row, pastVars>>

\* --duration is over.
Stop == step = "tick" /\ Ends

Sample ==
  /\ step = "tick"
  /\ step' = "open"
  /\ calm' = Calm
  /\ UNCHANGED <<podVars, fileVars, pollVars, open, row, last, landed, missed, due, expected>>

-----------------------------------------------------------------------------
(* take_marker.                                                            *)

Open ==
  /\ step = "open"
  /\ open' = path
  /\ step' = IF path = NoInode THEN "agent" ELSE "read"
  /\ expected' = due
  /\ due' = NoMarker
  /\ UNCHANGED <<podVars, fileVars, pollVars, row, last, landed, calm, missed>>

Read ==
  /\ step = "read"
  /\ step' = "unlink"
  /\ row' = [row EXCEPT !.marker = text[open]]
  /\ open' = NoInode
  /\ UNCHANGED <<podVars, fileVars, pollVars, pastVars>>

\* What the path names after the unlink.
Unlinked == NoInode

\* node_view follows, which keeps nothing.
Unlink ==
  /\ step = "unlink"
  /\ step' = "agent"
  /\ path' = Unlinked
  /\ UNCHANGED <<podVars, text, echo, written, pollVars, open, row, pastVars>>

\* Any of the three calls is refused: no marker, and the file stays.
TakeFails ==
  /\ step \in {"open", "read", "unlink"}
  /\ step' = "agent"
  /\ open' = NoInode
  /\ row' = [row EXCEPT !.marker = NoMarker]
  /\ due' = NoMarker
  /\ expected' = NoMarker
  /\ UNCHANGED <<podVars, fileVars, pollVars, last, landed, calm, missed>>

-----------------------------------------------------------------------------
(* The two endpoints.                                                      *)

PollAgent ==
  /\ step = "agent"
  /\ row' = [row EXCEPT !.agent_ok = agent_url \in up]
  /\ step' = IF agent_url \in up THEN "guard" ELSE "agent resolve"
  /\ UNCHANGED <<podVars, fileVars, pollVars, open, pastVars>>

\* A pod that was not found does not replace the one before.
IfFound(found, old) == IF found = NoAddress THEN old ELSE found

ResolveAgent(agent, guard) ==
  /\ step = "agent resolve"
  /\ \/ Found(agent, guard) /\ calm' = calm
     \/ NothingFound(agent, guard) /\ calm' = FALSE
  /\ step' = "guard"
  /\ agent_url' = IfFound(agent, agent_url)
  /\ guard_url' = IfFound(guard, guard_url)
  /\ UNCHANGED <<podVars, fileVars, open, row, last, landed, missed, due, expected>>

\* No answer, or no URL yet.
GuardFailed == guard_url \notin up

PollGuard ==
  /\ step = "guard"
  /\ row' = [row EXCEPT !.guard_ok = guard_url \in up]
  /\ step' = IF GuardFailed THEN "guard resolve" ELSE "write"
  /\ UNCHANGED <<podVars, fileVars, pollVars, open, pastVars>>

ResolveGuard(agent, guard) ==
  /\ step = "guard resolve"
  /\ \/ Found(agent, guard) /\ calm' = calm
     \/ NothingFound(agent, guard) /\ calm' = FALSE
  /\ step' = IF guard \in {NoAddress, guard_url} THEN "write" ELSE "guard again"
  /\ guard_url' = IfFound(guard, guard_url)
  /\ UNCHANGED <<podVars, fileVars, agent_url, open, row, last, landed, missed, due,
                 expected>>

PollGuardAgain ==
  /\ step = "guard again"
  /\ row' = [row EXCEPT !.guard_ok = guard_url \in up]
  /\ step' = "write"
  /\ UNCHANGED <<podVars, fileVars, pollVars, open, pastVars>>

\* "Everything is recorded, including failures to record" (stress-recorder.py:17).
Recorded == row

WriteRow ==
  /\ step = "write"
  /\ step' = "tick"
  /\ last' = Recorded
  /\ landed' = IF Recorded.marker > landed THEN Recorded.marker ELSE landed
  /\ row' = EmptyRow
  /\ calm' = FALSE
  /\ missed' = IF row.agent_ok THEN 0 ELSE IF calm THEN missed + 1 ELSE missed
  /\ UNCHANGED <<podVars, fileVars, pollVars, open, due, expected>>

-----------------------------------------------------------------------------
(* The operator's shell: echo ... > marker.                                *)

\* An inode nobody uses is as good as a new one.
Unused(i) == i \notin {path, open, echo}

\* The file is emptied, or created if the path names none.
EchoOpens(i) ==
  /\ echo = NoInode
  /\ written < MaxMarkers
  /\ IF path = NoInode THEN Unused(i) ELSE i = path
  /\ echo' = i
  /\ path' = i
  /\ text' = [text EXCEPT ![i] = NoMarker]
  /\ written' = written + 1
  /\ due' = NoMarker
  /\ expected' = IF step \in {"read", "unlink"} THEN NoMarker ELSE expected
  /\ UNCHANGED <<podVars, step, pollVars, open, row, last, landed, calm, missed>>

\* If take_marker has the file open by now, there is no saying who is first.
EchoWrites ==
  /\ echo # NoInode
  /\ text' = [text EXCEPT ![echo] = written]
  /\ echo' = NoInode
  /\ due' = IF path = echo /\ step \notin {"read", "unlink"} THEN written ELSE NoMarker
  /\ UNCHANGED <<podVars, path, written, step, pollVars, open, row, last, landed, calm,
                 missed, expected>>

-----------------------------------------------------------------------------
(* Pods.                                                                   *)

PodsChange ==
  /\ changes < MaxChanges
  /\ changes' = changes + 1
  /\ calm' = FALSE
  /\ missed' = 0
  /\ UNCHANGED <<fileVars, step, pollVars, open, row, last, landed, due, expected>>

Appear(a) ==
  /\ a \notin pods
  /\ pods' = pods \cup {a}
  /\ UNCHANGED up
  /\ PodsChange

Turn(a) ==
  /\ a \in pods
  /\ up' = IF a \in up THEN up \ {a} ELSE up \cup {a}
  /\ UNCHANGED pods
  /\ PodsChange

Vanish(a) ==
  /\ a \in pods
  /\ pods' = pods \ {a}
  /\ up' = up \ {a}
  /\ PodsChange

\* A pod is replaced: as Vanish and Appear, with the new one answering at once.
Replace(a, b) ==
  /\ a \in pods /\ b \notin pods
  /\ {a, b} \subseteq AgentAddress \/ {a, b} \subseteq GuardAddress
  /\ pods' = (pods \ {a}) \cup {b}
  /\ up' = (up \ {a}) \cup {b}
  /\ PodsChange

Recorder ==
  \/ Stop \/ Sample
  \/ Open \/ Read \/ Unlink \/ TakeFails
  \/ PollAgent \/ PollGuard \/ PollGuardAgain \/ WriteRow
  \/ \E agent \in AgentAddress \cup {NoAddress}, guard \in GuardAddress \cup {NoAddress} :
       Start(agent, guard) \/ ResolveAgent(agent, guard) \/ ResolveGuard(agent, guard)

Shell == EchoWrites \/ \E i \in Inode : EchoOpens(i)

Cluster ==
  \/ \E a \in Address : Appear(a) \/ Turn(a) \/ Vanish(a)
  \/ \E a, b \in Address : Replace(a, b)

RecorderNext == Recorder \/ Shell \/ Cluster

RecorderSpec == RecorderInit /\ [][RecorderNext]_vars

-----------------------------------------------------------------------------
(* Properties.                                                             *)

(* "Each endpoint has to recover from its own failure" (stress-recorder.py: *)
(* 312): a sample during which the pods stay there to be found has the      *)
(* guard's answer, wherever the guard was before, and of such samples no two*)
(* in a row, with no change between them, are without the agent's.          *)
EachRecovers ==
  /\ step = "write" /\ calm => row.guard_ok
  /\ missed <= 1

(* "The marker text lands in the `marker` column of the next sample"        *)
(* (stress-recorder.py:31): the last marker whose echo was over when a      *)
(* sample opened the file, and that no other echo overwrote before the      *)
(* sample had it, is in that sample's row.                                  *)
LandsInNext ==
  step = "tick" /\ expected # NoMarker => last.marker = expected

(* "And then clears" (stress-recorder.py:32): a marker lands in one row at  *)
(* most, and never behind a later one.                                      *)
OnceInOrder ==
  step = "write" /\ row.marker # NoMarker => row.marker > landed
=============================================================================

-------------------------- MODULE KernelLogProofs --------------------------
(***************************************************************************)
(* The kernel-log watcher, for any paths, any number of rotations,         *)
(* truncations and lines, and with any calls failing.                      *)
(***************************************************************************)
EXTENDS KernelLog, SequenceTheorems, TLAPS

-----------------------------------------------------------------------------
(* The invariants.                                                         *)

\* The files a path has to do with.
Own(p) == ({at[p], writer[p], handles[p].file} \cup drained[p]) \ {NoFile}

\* They exist, and no two paths share one; the daemon always has one open.
OwnFiles ==
  /\ \A p \in Path : Own(p) \subseteq 1..files /\ writer[p] # NoFile
  /\ \A p, q \in Path : p # q => Own(p) \cap Own(q) = {}
  /\ \A f \in File : f > files => content[f] = <<>>

\* A file that was not yet reopened has no line.
NotYetReopened ==
  \A p \in Path : at[p] \notin {NoFile, writer[p]} => content[at[p]] = <<>>

\* No file is longer than what was written.
Lengths ==
  /\ \A f \in File : Len(content[f]) <= MaxEvents
  /\ \A p \in Path : Len(content[writer[p]]) <= written[p] /\ written[p] <= events

\* Before the first sight of a path nothing has happened to it.
Unseen ==
  \A p \in Path : handles[p].file = NoFile =>
    handles[p] = NoHandle /\ counted[p] = <<>> /\ drained[p] = {} /\ skipped[p] = 0

LogTypeInv == KernelLogTypeOK /\ OwnFiles /\ NotYetReopened /\ Lengths /\ Unseen

\* Where the thread reads from; what it lost shows.
Reading ==
  /\ step = "drain" => handle.open
  /\ step = "consume" => handle.open
  /\ step = "open" => ~handle.open
  /\ \A p \in Path :
       (handles[p] # NoHandle /\ ~handles[p].open /\ ~(step = "open" /\ p = path))
         => files_ok[p] = "failed"

ReadingInv == LogTypeInv /\ Reading /\ DeadWatcherIsVisible

-----------------------------------------------------------------------------

Increasing(s) == \A i, j \in 1..Len(s) : i < j => s[i] < s[j]

\* A line that may still be counted.
Ahead(p, e) == e > skipped[p] /\ \A k \in 1..Len(counted[p]) : counted[p][k] < e

AllAhead(p, f) == \A i \in 1..Len(content[f]) : Ahead(p, content[f][i])

\* Nothing is in a file, or counted, or skipped, that was not written.
OnlyWritten(p) ==
  /\ skipped[p] <= written[p]
  /\ \A k \in 1..Len(counted[p]) : counted[p][k] <= written[p]
  /\ \A f \in Own(p) : \A i \in 1..Len(content[f]) : content[f][i] <= written[p]

\* What CountedOnce says of a path.
CountedInOrder(p) ==
  /\ Increasing(counted[p])
  /\ \A k \in 1..Len(counted[p]) : counted[p][k] > skipped[p]

\* The lines behind the offset, or all of them if the offset is beyond the end, may
\* still be counted.
UnreadAhead(p) ==
  handles[p].file # NoFile =>
    \A i \in 1..Len(content[handles[p].file]) :
      i > handles[p].pos \/ handles[p].pos > Len(content[handles[p].file])
        => Ahead(p, content[handles[p].file][i])

\* The lines of the next file come after those of the one that is followed.
NextAhead(p) ==
  (handles[p].file # NoFile /\ at[p] \notin {NoFile, handles[p].file}) =>
    /\ AllAhead(p, at[p])
    /\ \A i \in 1..Len(content[at[p]]) : \A j \in 1..Len(content[handles[p].file]) :
         content[handles[p].file][j] < content[at[p]][i]

OrderOf(p) == OnlyWritten(p) /\ CountedInOrder(p) /\ UnreadAhead(p) /\ NextAhead(p)

\* What is opened from its start has nothing that was counted.
OpenAhead ==
  /\ step = "open" /\ at[path] # NoFile => AllAhead(path, at[path])
  /\ step = "drain" => at[path] # handle.file

OrderInv ==
  /\ ReadingInv
  /\ \A f \in File : Increasing(content[f])
  /\ \A p \in Path : OrderOf(p)
  /\ OpenAhead

-----------------------------------------------------------------------------

Uncut(f) == f \notin ToSet(cut)

\* What lies before the offset is counted, or was skipped.
ReadIsCounted ==
  \A p \in Path : handles[p].file # NoFile /\ Uncut(handles[p].file) =>
    /\ handles[p].pos <= Len(content[handles[p].file])
    /\ \A i \in 1..handles[p].pos :
         LET e == content[handles[p].file][i] IN
         e > skipped[p] => e \in ToSet(counted[p])

\* What a file held when it was renamed it still holds, unless it was truncated.
DueIsThere == \A f \in File : Uncut(f) => due[f] \subseteq ToSet(content[f])

\* A path does not come back to a file that was let go of.
NoWayBack == \A p \in Path : at[p] \notin drained[p]

LeftInv == OrderInv /\ ReadIsCounted /\ DueIsThere /\ NoWayBack /\ NothingLeftBehind

-----------------------------------------------------------------------------
(* Paths and handles.                                                      *)

Handle == [file: File \cup {NoFile}, pos: 0..MaxEvents, open: BOOLEAN]

LEMMA PathFacts ==
  /\ Len(PATHS) \in Nat /\ Len(PATHS) >= 1
  /\ \A i \in 1..Len(PATHS) : PATHS[i] \in Path
  /\ \A p \in Path : \E i \in 1..Len(PATHS) : PATHS[i] = p
<1>1. PATHS \in Seq(STRING) /\ PATHS # <<>>
  BY KernelLogAssumption
<1>2. Len(PATHS) \in Nat /\ Len(PATHS) > 0 /\ DOMAIN PATHS = 1..Len(PATHS)
  BY <1>1, EmptySeq, LenProperties
<1>3. QED
  BY <1>2 DEF Path, ToSet

LEMMA Bounds ==
  /\ MaxFiles \in Nat /\ MaxEvents \in Nat /\ MaxCuts \in Nat /\ MaxFaults \in Nat
  /\ MaxFiles >= Len(PATHS)
BY KernelLogAssumption

LEMMA TurnFacts ==
  ASSUME KernelLogTypeOK
  PROVE  /\ path \in Path
         /\ (IF turn = Len(PATHS) THEN 1 ELSE turn + 1) \in 1..Len(PATHS)
BY PathFacts DEF KernelLogTypeOK, path

\* Another handle for one path.
LEMMA HandleSet ==
  ASSUME handles \in [Path -> Handle], NEW p \in Path, NEW h \in Handle,
         handles' = [handles EXCEPT ![p] = h]
  PROVE  /\ handles' \in [Path -> Handle]
         /\ handles'[p] = h
         /\ \A q \in Path : q # p => handles'[q] = handles[q]
OBVIOUS

\* A step of the thread leaves the files to the paths they belong to.
LEMMA FilesKept ==
  ASSUME OwnFiles, NotYetReopened, Lengths,
         UNCHANGED diskVars, \A p \in Path : Own(p)' \subseteq Own(p)
  PROVE  OwnFiles' /\ NotYetReopened' /\ Lengths'
<1> USE DEF diskVars
<1>1. OwnFiles'
  <2>1. \A p \in Path : Own(p)' \subseteq 1..files' /\ writer'[p] # NoFile
    BY DEF OwnFiles
  <2>2. \A p, q \in Path : p # q => Own(p)' \cap Own(q)' = {}
    BY DEF OwnFiles
  <2>3. QED
    BY <2>1, <2>2 DEF OwnFiles
<1>2. QED
  BY <1>1 DEF NotYetReopened, Lengths

\* A step of the world leaves the thread where it is.
LEMMA ThreadKept ==
  ASSUME ReadingInv, UNCHANGED <<threadVars, skipped, drained>>
  PROVE  Unseen' /\ Reading' /\ DeadWatcherIsVisible'
<1>1. UNCHANGED <<step, turn, handles, files_ok, counted, skipped, drained>>
  BY DEF threadVars
<1>2. Unseen'
  BY <1>1 DEF ReadingInv, LogTypeInv, Unseen
<1>3. Reading' /\ DeadWatcherIsVisible'
  BY <1>1 DEF ReadingInv, Reading, DeadWatcherIsVisible, handle, path
<1>4. QED
  BY <1>2, <1>3

-----------------------------------------------------------------------------
(* Types, files, and what the thread shows of its failures.                *)

LEMMA ReadingInit == KernelLogInit => ReadingInv
<1> SUFFICES ASSUME KernelLogInit PROVE ReadingInv
  OBVIOUS
<1> USE PathFacts, Bounds
<1>1. PICK backlog \in 0..MaxEvents :
        /\ events = backlog
        /\ written = [p \in Path |-> backlog]
        /\ content = [f \in File |->
             IF f <= Len(PATHS) THEN [e \in 1..backlog |-> e] ELSE <<>>]
  BY DEF KernelLogInit
<1> DEFINE old == [e \in 1..backlog |-> e]
<1>2. old \in Seq(1..MaxEvents) /\ Len(old) = backlog
  <2>1. \A e \in 1..backlog : e \in 1..MaxEvents
    OBVIOUS
  <2>2. old \in [1..backlog -> 1..MaxEvents]
    BY <2>1
  <2>3. backlog \in Nat
    OBVIOUS
  <2>4. QED
    BY <2>2, <2>3, SeqDef, LenProperties
<1> HIDE DEF old
<1>3. \A f \in File : content[f] = IF f <= Len(PATHS) THEN old ELSE <<>>
  BY <1>1 DEF old
<1>4. content \in [File -> Seq(1..MaxEvents)]
  <2>1. content = [f \in File |-> content[f]]
    BY <1>1
  <2>2. \A f \in File : content[f] \in Seq(1..MaxEvents)
    BY <1>2, <1>3, EmptySeq
  <2>3. QED
    BY <2>1, <2>2
<1>5. /\ at \in [Path -> 1..Len(PATHS)]
      /\ \A p \in Path : PATHS[at[p]] = p
  <2>1. at = [p \in Path |-> CHOOSE i \in 1..Len(PATHS) : PATHS[i] = p]
    BY DEF KernelLogInit
  <2>2. ASSUME NEW p \in Path
        PROVE  at[p] \in 1..Len(PATHS) /\ PATHS[at[p]] = p
    BY <2>1
  <2>3. QED
    BY <2>1, <2>2
<1>6. /\ handles = [p \in Path |-> NoHandle] /\ drained = [p \in Path |-> {}]
      /\ counted = [p \in Path |-> <<>>] /\ skipped = [p \in Path |-> 0]
      /\ files = Len(PATHS) /\ writer = at /\ step = "stat" /\ turn = 1
  BY DEF KernelLogInit
<1>7. \A p \in Path : Own(p) = {at[p]} /\ at[p] \in File /\ at[p] # NoFile
  BY <1>5, <1>6 DEF Own, NoHandle, NoFile, File
<1>8. KernelLogTypeOK
  <2>1. handles \in [Path -> Handle]
    BY <1>6 DEF NoHandle, Handle, NoFile
  <2>2. /\ files_ok \in [Path -> {"unset", "ok", "failed"}]
        /\ counted \in [Path -> Seq(1..MaxEvents)]
        /\ due \in [File -> SUBSET (1..MaxEvents)]
        /\ skipped \in [Path -> 0..MaxEvents]
        /\ drained \in [Path -> SUBSET File]
        /\ cut \in Seq(File)
    BY EmptySeq DEF KernelLogInit
  <2>3. /\ events \in 0..MaxEvents
        /\ at \in [Path -> File \cup {NoFile}]
        /\ files \in 0..MaxFiles
        /\ written \in [Path -> 0..MaxEvents]
        /\ turn \in 1..Len(PATHS) /\ faults \in 0..MaxFaults
    BY <1>1, <1>5, <1>6 DEF KernelLogInit, File
  <2>4. QED
    BY <1>4, <1>6, <2>1, <2>2, <2>3 DEF KernelLogTypeOK, Handle
<1>9. OwnFiles
  <2>1. \A p \in Path : Own(p) \subseteq 1..files /\ writer[p] # NoFile
    BY <1>5, <1>6, <1>7
  <2>2. \A p, q \in Path : p # q => Own(p) \cap Own(q) = {}
    BY <1>5, <1>7
  <2>3. \A f \in File : f > files => content[f] = <<>>
    BY <1>3, <1>6 DEF File
  <2>4. QED
    BY <2>1, <2>2, <2>3 DEF OwnFiles
<1>10. NotYetReopened
  BY <1>6 DEF NotYetReopened
<1>11. Lengths
  <2>1. \A f \in File : Len(content[f]) <= backlog
    BY <1>2, <1>3, EmptySeq
  <2>2. QED
    BY <1>1, <1>6, <1>7, <2>1 DEF Lengths
<1>12. Unseen /\ Reading /\ DeadWatcherIsVisible
  BY <1>6 DEF Unseen, Reading, DeadWatcherIsVisible
<1>13. QED
  BY <1>8, <1>9, <1>10, <1>11, <1>12 DEF ReadingInv, LogTypeInv

\* What the world does to the files of one path, it does to no other path's.
LEMMA OwnFacts ==
  ASSUME ReadingInv, NEW p \in Path
  PROVE  /\ writer[p] \in File /\ writer[p] \in Own(p) /\ writer[p] <= files
         /\ at[p] # NoFile => at[p] \in File /\ at[p] \in Own(p) /\ at[p] <= files
         /\ handles[p].file # NoFile =>
              handles[p].file \in File /\ handles[p].file \in Own(p)
         /\ \A q \in Path : q # p => Own(p) \cap Own(q) = {}
         /\ \A f \in Own(p) : f \in File /\ f <= files
<1>1. /\ writer[p] \in File \cup {NoFile} /\ writer[p] # NoFile
      /\ at[p] \in File \cup {NoFile}
      /\ handles[p].file \in File \cup {NoFile}
      /\ files \in 0..MaxFiles
      /\ Own(p) \subseteq 1..files
  BY DEF ReadingInv, LogTypeInv, KernelLogTypeOK, OwnFiles
<1>2. \A f \in Own(p) : f \in File /\ f <= files
  BY <1>1, Bounds DEF File
<1>3. QED
  BY <1>1, <1>2 DEF Own, ReadingInv, LogTypeInv, OwnFiles

LEMMA ReadingWrite ==
  ASSUME ReadingInv, NEW p \in Path, WriteLine(p)
  PROVE  ReadingInv'
<1> DEFINE w == writer[p]
           line == written[p] + 1
<1>1. /\ written[p] < events
      /\ written' = [written EXCEPT ![p] = line]
      /\ content' = [content EXCEPT ![w] = Append(content[w], line)]
      /\ UNCHANGED <<events, at, files, writer, threadVars, pastVars>>
  BY DEF WriteLine
<1>2. KernelLogTypeOK
  BY DEF ReadingInv, LogTypeInv
<1>3. w \in File /\ w \in Own(p) /\ w <= files
  BY OwnFacts
<1>4. events \in 0..MaxEvents /\ written[p] \in Nat /\ line \in 1..MaxEvents /\ line <= events
  BY <1>1, <1>2, Bounds DEF KernelLogTypeOK
<1>5. content[w] \in Seq(1..MaxEvents) /\ Len(content[w]) <= written[p]
  BY <1>2, <1>3 DEF KernelLogTypeOK, ReadingInv, LogTypeInv, Lengths
<1> HIDE DEF line, w
<1>6. /\ Append(content[w], line) \in Seq(1..MaxEvents)
      /\ Len(Append(content[w], line)) = Len(content[w]) + 1
      /\ Len(content[w]) \in Nat
  BY <1>4, <1>5, AppendProperties, LenProperties
<1>7. /\ \A f \in File : f # w => content'[f] = content[f]
      /\ content'[w] = Append(content[w], line)
      /\ content' \in [File -> Seq(1..MaxEvents)]
  BY <1>1, <1>2, <1>3, <1>6 DEF KernelLogTypeOK
<1>8. KernelLogTypeOK'
  <2>1. written' \in [Path -> 0..MaxEvents]
    BY <1>1, <1>2, <1>4, Bounds DEF KernelLogTypeOK
  <2>2. QED
    BY <1>1, <1>2, <1>7, <2>1 DEF KernelLogTypeOK, threadVars, pastVars
<1>9. UNCHANGED <<at, writer, handles, drained, files>>
  BY <1>1 DEF threadVars, pastVars
<1>10. OwnFiles'
  <2>1. \A q \in Path : Own(q)' = Own(q)
    BY <1>9 DEF Own
  <2>2. \A f \in File : f > files' => content'[f] = <<>>
    <3> SUFFICES ASSUME NEW f \in File, f > files PROVE content'[f] = <<>>
      BY <1>9
    <3>1. f # w
      BY <1>2, <1>3, Bounds DEF File, KernelLogTypeOK
    <3>2. QED
      BY <1>7, <3>1 DEF ReadingInv, LogTypeInv, OwnFiles
  <2>3. QED
    BY <1>9, <2>1, <2>2 DEF ReadingInv, LogTypeInv, OwnFiles
<1>11. \A q \in Path : q # p => writer[q] # w /\ (at[q] # NoFile => at[q] # w)
  <2> SUFFICES ASSUME NEW q \in Path, q # p
               PROVE  writer[q] # w /\ (at[q] # NoFile => at[q] # w)
    OBVIOUS
  <2>1. Own(p) \cap Own(q) = {} /\ writer[q] \in Own(q)
        /\ (at[q] # NoFile => at[q] \in Own(q))
    BY OwnFacts
  <2>2. QED
    BY <1>3, <2>1
<1>12. NotYetReopened'
  <2> SUFFICES ASSUME NEW q \in Path, at[q] \notin {NoFile, writer[q]}
               PROVE  content'[at[q]] = <<>>
    BY <1>9 DEF NotYetReopened
  <2>1. at[q] # w /\ at[q] \in File
    BY <1>11, OwnFacts DEF w
  <2>2. QED
    BY <1>7, <2>1 DEF ReadingInv, LogTypeInv, NotYetReopened
<1>13. Lengths'
  <2>1. \A f \in File : Len(content'[f]) <= MaxEvents
    <3>1. Len(Append(content[w], line)) <= MaxEvents
      <4>1. written[p] + 1 <= MaxEvents
        BY <1>4 DEF line
      <4>2. QED
        BY <1>4, <1>5, <1>6, <4>1, Bounds
    <3>2. QED
      BY <1>7, <3>1 DEF ReadingInv, LogTypeInv, Lengths
  <2>2. ASSUME NEW q \in Path
        PROVE  Len(content'[writer'[q]]) <= written'[q] /\ written'[q] <= events'
    <3>1. CASE q = p
      <4>1. writer'[q] = w /\ written'[q] = line
        BY <1>1, <1>2, <1>9, <3>1 DEF w, KernelLogTypeOK
      <4>2. QED
        BY <1>1, <1>4, <1>5, <1>6, <1>7, <4>1 DEF line
    <3>2. CASE q # p
      <4>1. writer'[q] = writer[q] /\ writer[q] # w /\ writer[q] \in File
            /\ written'[q] = written[q]
        BY <1>1, <1>2, <1>9, <1>11, <3>2, OwnFacts DEF KernelLogTypeOK
      <4>2. QED
        BY <1>1, <1>7, <4>1 DEF ReadingInv, LogTypeInv, Lengths
    <3>3. QED
      BY <3>1, <3>2
  <2>3. QED
    BY <2>1, <2>2 DEF Lengths
<1>14. Unseen' /\ Reading' /\ DeadWatcherIsVisible'
  BY <1>1, ThreadKept DEF pastVars
<1>15. QED
  BY <1>8, <1>10, <1>12, <1>13, <1>14 DEF ReadingInv, LogTypeInv

LEMMA ReadingRename ==
  ASSUME ReadingInv, NEW p \in Path, Rename(p)
  PROVE  ReadingInv'
<1>1. /\ at[p] # NoFile
      /\ at' = [at EXCEPT ![p] = NoFile]
      /\ due' = [due EXCEPT ![at[p]] = ToSet(content[at[p]])]
      /\ UNCHANGED <<events, content, files, writer, written, threadVars, skipped,
                     drained, cut>>
  BY DEF Rename
<1>2. KernelLogTypeOK
  BY DEF ReadingInv, LogTypeInv
<1>3. at[p] \in File
  BY <1>1, OwnFacts
<1>4. KernelLogTypeOK'
  <2>1. at' \in [Path -> File \cup {NoFile}]
    BY <1>1, <1>2 DEF KernelLogTypeOK
  <2>2. due' \in [File -> SUBSET (1..MaxEvents)]
    <3>1. content[at[p]] \in Seq(1..MaxEvents)
      BY <1>2, <1>3 DEF KernelLogTypeOK
    <3>2. ToSet(content[at[p]]) \subseteq 1..MaxEvents
      BY <3>1, ElementOfSeq, LenProperties DEF ToSet
    <3>3. QED
      BY <1>1, <1>2, <3>2 DEF KernelLogTypeOK
  <2>3. QED
    BY <1>1, <1>2, <2>1, <2>2 DEF KernelLogTypeOK, threadVars
<1>5. /\ \A q \in Path : at'[q] = IF q = p THEN NoFile ELSE at[q]
      /\ UNCHANGED <<writer, handles, drained, files, content, written, events>>
  BY <1>1, <1>2 DEF KernelLogTypeOK, threadVars
<1>6. \A q \in Path : Own(q)' \subseteq Own(q)
  BY <1>5 DEF Own
<1>7. OwnFiles'
  <2>1. \A q \in Path : Own(q)' \subseteq 1..files' /\ writer'[q] # NoFile
    BY <1>5, <1>6 DEF ReadingInv, LogTypeInv, OwnFiles
  <2>2. \A q, r \in Path : q # r => Own(q)' \cap Own(r)' = {}
    BY <1>6 DEF ReadingInv, LogTypeInv, OwnFiles
  <2>3. QED
    BY <1>5, <2>1, <2>2 DEF ReadingInv, LogTypeInv, OwnFiles
<1>8. NotYetReopened' /\ Lengths'
  BY <1>5 DEF ReadingInv, LogTypeInv, NotYetReopened, Lengths
<1>9. Unseen' /\ Reading' /\ DeadWatcherIsVisible'
  BY <1>1, ThreadKept
<1>10. QED
  BY <1>4, <1>7, <1>8, <1>9 DEF ReadingInv, LogTypeInv

LEMMA ReadingCreate ==
  ASSUME ReadingInv, NEW p \in Path, Create(p)
  PROVE  ReadingInv'
<1>1. /\ at[p] = NoFile /\ files < MaxFiles
      /\ files' = files + 1
      /\ at' = [at EXCEPT ![p] = files + 1]
      /\ UNCHANGED <<events, content, writer, written, threadVars, pastVars>>
  BY DEF Create
<1>2. KernelLogTypeOK
  BY DEF ReadingInv, LogTypeInv
<1>3. files \in Nat /\ files + 1 \in File /\ files + 1 # NoFile
  BY <1>1, <1>2, Bounds DEF KernelLogTypeOK, File, NoFile
<1>4. KernelLogTypeOK'
  <2>1. at' \in [Path -> File \cup {NoFile}] /\ files' \in 0..MaxFiles
    BY <1>1, <1>2, <1>3, Bounds DEF KernelLogTypeOK, File
  <2>2. QED
    BY <1>1, <1>2, <2>1 DEF KernelLogTypeOK, threadVars, pastVars
<1>5. /\ \A q \in Path : at'[q] = IF q = p THEN files + 1 ELSE at[q]
      /\ UNCHANGED <<writer, handles, drained, content, written, events>>
  BY <1>1, <1>2 DEF KernelLogTypeOK, threadVars, pastVars
<1>6. /\ \A q \in Path : q # p => Own(q)' \subseteq Own(q)
      /\ Own(p)' \subseteq Own(p) \cup {files + 1}
  BY <1>5 DEF Own
<1>7. \A q \in Path : Own(q) \subseteq 1..files /\ files + 1 \notin Own(q)
  BY <1>3 DEF ReadingInv, LogTypeInv, OwnFiles
<1>8. OwnFiles'
  <2>1. \A q \in Path : Own(q)' \subseteq 1..files' /\ writer'[q] # NoFile
    <3> SUFFICES ASSUME NEW q \in Path
                 PROVE  Own(q)' \subseteq 1..files' /\ writer'[q] # NoFile
      OBVIOUS
    <3>1. Own(q)' \subseteq Own(q) \cup {files + 1}
      BY <1>6
    <3>2. QED
      BY <1>1, <1>3, <1>5, <1>7, <3>1 DEF ReadingInv, LogTypeInv, OwnFiles
  <2>2. \A q, r \in Path : q # r => Own(q)' \cap Own(r)' = {}
    <3> SUFFICES ASSUME NEW q \in Path, NEW r \in Path, q # r
                 PROVE  Own(q)' \cap Own(r)' = {}
      OBVIOUS
    <3>1. Own(q) \cap Own(r) = {}
      BY DEF ReadingInv, LogTypeInv, OwnFiles
    <3>2. QED
      BY <1>6, <1>7, <3>1
  <2>3. \A f \in File : f > files' => content'[f] = <<>>
    <3> SUFFICES ASSUME NEW f \in File, f > files' PROVE content'[f] = <<>>
      OBVIOUS
    <3>1. f > files
      BY <1>1, <1>3, Bounds DEF File
    <3>2. QED
      BY <1>5, <3>1 DEF ReadingInv, LogTypeInv, OwnFiles
  <2>4. QED
    BY <2>1, <2>2, <2>3 DEF OwnFiles
<1>9. content[files + 1] = <<>>
  <2>1. files + 1 > files
    BY <1>3
  <2>2. QED
    BY <1>3, <2>1 DEF ReadingInv, LogTypeInv, OwnFiles
<1>10. NotYetReopened'
  BY <1>5, <1>9 DEF ReadingInv, LogTypeInv, NotYetReopened
<1>11. Lengths'
  BY <1>5 DEF ReadingInv, LogTypeInv, Lengths
<1>12. Unseen' /\ Reading' /\ DeadWatcherIsVisible'
  BY <1>1, ThreadKept DEF pastVars
<1>13. QED
  BY <1>4, <1>8, <1>10, <1>11, <1>12 DEF ReadingInv, LogTypeInv

LEMMA ReadingReopen ==
  ASSUME ReadingInv, NEW p \in Path, Reopen(p)
  PROVE  ReadingInv'
<1>1. /\ at[p] \notin {NoFile, writer[p]}
      /\ writer' = [writer EXCEPT ![p] = at[p]]
      /\ UNCHANGED <<events, at, content, files, written, threadVars, pastVars>>
  BY DEF Reopen
<1>2. KernelLogTypeOK
  BY DEF ReadingInv, LogTypeInv
<1>3. at[p] \in File
  BY <1>1, OwnFacts
<1>4. KernelLogTypeOK'
  BY <1>1, <1>2, <1>3 DEF KernelLogTypeOK, threadVars, pastVars
<1>5. /\ \A q \in Path : writer'[q] = IF q = p THEN at[p] ELSE writer[q]
      /\ UNCHANGED <<at, handles, drained, content, files, written, events>>
  BY <1>1, <1>2 DEF KernelLogTypeOK, threadVars, pastVars
<1>6. \A q \in Path : Own(q)' \subseteq Own(q)
  BY <1>5 DEF Own
<1>7. OwnFiles'
  <2>1. \A q \in Path : Own(q)' \subseteq 1..files' /\ writer'[q] # NoFile
    BY <1>1, <1>5, <1>6 DEF ReadingInv, LogTypeInv, OwnFiles
  <2>2. \A q, r \in Path : q # r => Own(q)' \cap Own(r)' = {}
    BY <1>6 DEF ReadingInv, LogTypeInv, OwnFiles
  <2>3. QED
    BY <1>5, <2>1, <2>2 DEF ReadingInv, LogTypeInv, OwnFiles
<1>8. NotYetReopened'
  BY <1>5 DEF ReadingInv, LogTypeInv, NotYetReopened
<1>9. Lengths'
  <2>1. content[at[p]] = <<>> /\ Len(content[at[p]]) = 0 /\ written[p] >= 0
    BY <1>1, <1>2, EmptySeq, Bounds
       DEF ReadingInv, LogTypeInv, NotYetReopened, KernelLogTypeOK
  <2>2. QED
    BY <1>5, <2>1 DEF ReadingInv, LogTypeInv, Lengths
<1>10. Unseen' /\ Reading' /\ DeadWatcherIsVisible'
  BY <1>1, ThreadKept DEF pastVars
<1>11. QED
  BY <1>4, <1>7, <1>8, <1>9, <1>10 DEF ReadingInv, LogTypeInv

LEMMA ReadingCut ==
  ASSUME ReadingInv, NEW p \in Path, CutDown(p)
  PROVE  ReadingInv'
<1>1. /\ at[p] # NoFile
      /\ cut' = Append(cut, at[p])
      /\ content' = [content EXCEPT ![at[p]] = <<>>]
      /\ UNCHANGED <<events, at, files, writer, written, threadVars, due, skipped,
                     drained>>
  BY DEF CutDown
<1>2. KernelLogTypeOK
  BY DEF ReadingInv, LogTypeInv
<1>3. at[p] \in File
  BY <1>1, OwnFacts
<1>4. KernelLogTypeOK'
  <2>1. cut' \in Seq(File)
    BY <1>1, <1>2, <1>3, AppendProperties DEF KernelLogTypeOK
  <2>2. content' \in [File -> Seq(1..MaxEvents)]
    BY <1>1, <1>2, EmptySeq DEF KernelLogTypeOK
  <2>3. QED
    BY <1>1, <1>2, <2>1, <2>2 DEF KernelLogTypeOK, threadVars
<1>5. /\ \A f \in File : content'[f] = IF f = at[p] THEN <<>> ELSE content[f]
      /\ UNCHANGED <<at, writer, handles, drained, files, written, events>>
  BY <1>1, <1>2 DEF KernelLogTypeOK, threadVars
<1>6. OwnFiles'
  BY <1>5 DEF ReadingInv, LogTypeInv, OwnFiles, Own
<1>7. NotYetReopened'
  <2>1. \A q \in Path : at[q] # NoFile => at[q] \in File
    BY OwnFacts
  <2>2. QED
    BY <1>5, <2>1 DEF ReadingInv, LogTypeInv, NotYetReopened
<1>8. Lengths'
  <2>1. \A f \in File : Len(content'[f]) <= Len(content[f]) /\ Len(content[f]) \in Nat
        /\ Len(content'[f]) \in Nat
    BY <1>2, <1>5, EmptySeq, LenProperties DEF KernelLogTypeOK
  <2>2. \A q \in Path : writer[q] \in File /\ written[q] \in Nat
    BY <1>2, OwnFacts DEF KernelLogTypeOK
  <2>3. QED
    BY <1>5, <2>1, <2>2, Bounds DEF ReadingInv, LogTypeInv, Lengths
<1>9. Unseen' /\ Reading' /\ DeadWatcherIsVisible'
  BY <1>1, ThreadKept
<1>10. QED
  BY <1>4, <1>6, <1>7, <1>8, <1>9 DEF ReadingInv, LogTypeInv

\* How a round of the thread over one path ends.
LEMMA NextFacts ==
  ASSUME KernelLogTypeOK, NEW p \in Path, p = path, NEW ok \in {"ok", "failed"},
         NextPath(ok)
  PROVE  /\ files_ok' \in [Path -> {"unset", "ok", "failed"}]
         /\ \A q \in Path : files_ok'[q] = IF q = p THEN ok ELSE files_ok[q]
         /\ turn' \in 1..Len(PATHS)
         /\ step' = "stat"
<1>1. files_ok' = [files_ok EXCEPT ![p] = ok]
  BY DEF NextPath, Recorded
<1>2. files_ok \in [Path -> {"unset", "ok", "failed"}]
  BY DEF KernelLogTypeOK
<1>3. turn' \in 1..Len(PATHS) /\ step' = "stat"
  BY TurnFacts DEF NextPath
<1>4. QED
  BY <1>1, <1>2, <1>3

LEMMA ReadingStat ==
  ASSUME ReadingInv, Stat
  PROVE  ReadingInv'
<1>1. KernelLogTypeOK
  BY DEF ReadingInv, LogTypeInv
<1>2. PICK p \in Path : p = path
  BY <1>1, TurnFacts
<1> DEFINE goes == step' \in {"drain", "consume"}
<1>3. /\ step = "stat" /\ (handles[p] = NoHandle \/ handles[p].open)
      /\ step' = IF handles[p] = NoHandle THEN "open"
                 ELSE IF Rotated(at[p]) THEN "drain"
                 ELSE IF Truncated(Len(content[at[p]])) THEN "open"
                 ELSE "consume"
      /\ handles' = [handles EXCEPT ![p] = [handles[p] EXCEPT !.open = goes]]
      /\ UNCHANGED <<diskVars, turn, files_ok, counted, faults, pastVars>>
  BY <1>2 DEF Stat, FirstSight, handle
<1>4. step' \in {"open", "drain", "consume"}
  BY <1>3
<1>5. goes \in BOOLEAN /\ (goes <=> step' # "open")
  BY <1>4
<1> HIDE DEF goes
<1>6. handles \in [Path -> Handle] /\ handles[p] \in Handle
  BY <1>1 DEF KernelLogTypeOK, Handle
<1>7. /\ [handles[p] EXCEPT !.open = goes] \in Handle
      /\ [handles[p] EXCEPT !.open = goes].file = handles[p].file
      /\ [handles[p] EXCEPT !.open = goes].pos = handles[p].pos
      /\ [handles[p] EXCEPT !.open = goes].open = goes
  BY <1>5, <1>6 DEF Handle
<1>8. /\ handles' \in [Path -> Handle]
      /\ handles'[p] = [handles[p] EXCEPT !.open = goes]
      /\ \A q \in Path : q # p => handles'[q] = handles[q]
  BY <1>3, <1>6, <1>7, HandleSet
<1>9. /\ handles'[p].file = handles[p].file /\ handles'[p].pos = handles[p].pos
      /\ handles'[p].open = goes
  BY <1>7, <1>8
<1>10. KernelLogTypeOK'
  BY <1>1, <1>3, <1>4, <1>8 DEF KernelLogTypeOK, Handle, diskVars, pastVars
<1>11. OwnFiles' /\ NotYetReopened' /\ Lengths'
  <2>1. \A q \in Path : handles'[q].file = handles[q].file
    BY <1>8, <1>9
  <2>2. \A q \in Path : Own(q)' \subseteq Own(q)
    BY <1>3, <2>1 DEF Own, diskVars, pastVars
  <2>3. QED
    BY <1>3, <2>2, FilesKept DEF ReadingInv, LogTypeInv
<1>12. Unseen'
  <2>1. ASSUME handles'[p].file = NoFile
        PROVE  handles'[p] = NoHandle
    <3>1. handles[p] = NoHandle
      BY <1>9, <2>1 DEF ReadingInv, LogTypeInv, Unseen
    <3>2. goes = FALSE
      BY <1>3, <1>5, <3>1
    <3>3. NoHandle \in Handle /\ NoHandle.open = FALSE
      BY Bounds DEF NoHandle, Handle
    <3>4. /\ handles'[p] \in Handle
          /\ handles'[p].file = NoHandle.file /\ handles'[p].pos = NoHandle.pos
      BY <1>8, <1>9, <3>1
    <3>5. handles'[p].open = NoHandle.open
      BY <1>9, <3>2, <3>3
    <3>6. QED
      BY <3>3, <3>4, <3>5 DEF Handle
  <2>2. QED
    BY <1>3, <1>8, <1>9, <2>1 DEF ReadingInv, LogTypeInv, Unseen, pastVars
<1>13. Reading'
  <2>1. path' = p
    BY <1>2, <1>3 DEF path
  <2>2. \A q \in Path : q # p => (handles[q] # NoHandle /\ ~handles[q].open
                                    => files_ok[q] = "failed")
    BY <1>3 DEF ReadingInv, Reading
  <2>3. ~handles'[p].open <=> step' = "open"
    BY <1>5, <1>9
  <2>4. QED
    BY <1>3, <1>4, <1>8, <2>1, <2>2, <2>3 DEF Reading, handle
<1>14. DeadWatcherIsVisible'
  BY <1>4 DEF DeadWatcherIsVisible
<1>15. QED
  BY <1>10, <1>11, <1>12, <1>13, <1>14 DEF ReadingInv, LogTypeInv

LEMMA ReadingDies ==
  ASSUME ReadingInv, Dies
  PROVE  ReadingInv'
<1>1. KernelLogTypeOK
  BY DEF ReadingInv, LogTypeInv
<1>2. PICK p \in Path : p = path
  BY <1>1, TurnFacts
<1>3. /\ step = "stat" /\ handles[p] # NoHandle /\ ~handles[p].open
      /\ step' = "dead"
      /\ UNCHANGED <<diskVars, turn, handles, files_ok, counted, faults, pastVars>>
  BY <1>2 DEF Dies, FirstSight, handle
<1>4. files_ok[p] = "failed"
  BY <1>3 DEF ReadingInv, Reading
<1>5. KernelLogTypeOK'
  BY <1>1, <1>3 DEF KernelLogTypeOK, diskVars, pastVars
<1>6. OwnFiles' /\ NotYetReopened' /\ Lengths'
  <2>1. \A q \in Path : Own(q)' \subseteq Own(q)
    BY <1>3 DEF Own, diskVars, pastVars
  <2>2. QED
    BY <1>3, <2>1, FilesKept DEF ReadingInv, LogTypeInv
<1>7. Unseen'
  BY <1>3 DEF ReadingInv, LogTypeInv, Unseen, pastVars
<1>8. Reading' /\ DeadWatcherIsVisible'
  BY <1>3, <1>4 DEF ReadingInv, Reading, DeadWatcherIsVisible
<1>9. QED
  BY <1>5, <1>6, <1>7, <1>8 DEF ReadingInv, LogTypeInv

\* The path is not there, or a call fails.
LEMMA ReadingFails ==
  ASSUME ReadingInv, NextPath("failed"), faults' \in 0..MaxFaults,
         UNCHANGED <<diskVars, handles, counted, pastVars>>
  PROVE  ReadingInv'
<1>1. KernelLogTypeOK
  BY DEF ReadingInv, LogTypeInv
<1>2. PICK p \in Path : p = path
  BY <1>1, TurnFacts
<1>3. /\ files_ok' \in [Path -> {"unset", "ok", "failed"}]
      /\ \A q \in Path : files_ok'[q] = IF q = p THEN "failed" ELSE files_ok[q]
      /\ turn' \in 1..Len(PATHS)
      /\ step' = "stat"
  BY <1>1, <1>2, NextFacts
<1>4. KernelLogTypeOK'
  BY <1>1, <1>3 DEF KernelLogTypeOK, diskVars, pastVars
<1>5. OwnFiles' /\ NotYetReopened' /\ Lengths'
  <2>1. \A q \in Path : Own(q)' \subseteq Own(q)
    BY DEF Own, diskVars, pastVars
  <2>2. QED
    BY <2>1, FilesKept DEF ReadingInv, LogTypeInv
<1>6. Unseen'
  BY DEF ReadingInv, LogTypeInv, Unseen, pastVars
<1>7. Reading'
  <2>1. ASSUME NEW q \in Path, handles[q] # NoHandle, ~handles[q].open
        PROVE  files_ok'[q] = "failed"
    <3>1. CASE q = p
      BY <1>3, <3>1
    <3>2. CASE q # p
      BY <1>2, <1>3, <2>1, <3>2 DEF ReadingInv, Reading
    <3>3. QED
      BY <3>1, <3>2
  <2>2. QED
    BY <1>3, <2>1 DEF Reading
<1>8. DeadWatcherIsVisible'
  BY <1>3 DEF DeadWatcherIsVisible
<1>9. QED
  BY <1>4, <1>5, <1>6, <1>7, <1>8 DEF ReadingInv, LogTypeInv

\* Where a file is read to its end.
LEMMA ReadFacts ==
  ASSUME ReadingInv, NEW p \in Path, p = path, handle.open
  PROVE  /\ handles[p].file \in File /\ handles[p].file # NoFile
         /\ content[handles[p].file] \in Seq(1..MaxEvents)
         /\ Len(content[handles[p].file]) \in Nat
         /\ ReadOut(handles[p]) \in Handle
         /\ ReadOut(handles[p]).file = handles[p].file
         /\ ReadOut(handles[p]).open = handles[p].open
         /\ ReadOut(handles[p]).pos =
              IF handles[p].pos > Len(content[handles[p].file]) THEN handles[p].pos
              ELSE Len(content[handles[p].file])
         /\ Rest \in Seq(1..MaxEvents)
<1> DEFINE f == handles[p].file
           lines == content[f]
           pos == handles[p].pos
<1>1. KernelLogTypeOK /\ handle = handles[p]
  BY DEF ReadingInv, LogTypeInv, handle
<1>2. handles[p] \in Handle
  BY <1>1 DEF KernelLogTypeOK, Handle
<1>3. f # NoFile
  BY <1>1 DEF ReadingInv, LogTypeInv, Unseen, NoHandle
<1>4. f \in File
  BY <1>2, <1>3 DEF Handle
<1>5. lines \in Seq(1..MaxEvents) /\ Len(lines) \in Nat /\ Len(lines) <= MaxEvents
  BY <1>1, <1>4, LenProperties DEF KernelLogTypeOK, ReadingInv, LogTypeInv, Lengths
<1>6. pos \in Nat /\ pos <= MaxEvents
  BY <1>2, Bounds DEF Handle
<1>7. Rest = SubSeq(lines, pos + 1, Len(lines))
  BY <1>1 DEF Rest
<1> DEFINE end == IF pos > Len(lines) THEN pos ELSE Len(lines)
<1>8. ReadOut(handles[p]) = [handles[p] EXCEPT !.pos = end]
  BY DEF ReadOut
<1> HIDE DEF lines
<1>9. end \in 0..MaxEvents
  BY <1>5, <1>6, Bounds
<1>10. Rest \in Seq(1..MaxEvents)
  <2>1. ASSUME NEW i \in (pos + 1)..Len(lines)
        PROVE  lines[i] \in 1..MaxEvents
    <3>1. i \in 1..Len(lines)
      BY <1>5, <1>6
    <3>2. QED
      BY <1>5, <3>1, ElementOfSeq
  <2>2. QED
    BY <1>5, <1>6, <1>7, <2>1, SubSeqProperties
<1> HIDE DEF end
<1>11. [handles[p] EXCEPT !.pos = end] \in Handle
  BY <1>2, <1>9 DEF Handle
<1>12. /\ [handles[p] EXCEPT !.pos = end].file = f
       /\ [handles[p] EXCEPT !.pos = end].open = handles[p].open
       /\ [handles[p] EXCEPT !.pos = end].pos = end
  BY <1>2 DEF Handle
<1>13. QED
  BY <1>3, <1>4, <1>5, <1>8, <1>10, <1>11, <1>12 DEF end, lines

LEMMA ReadingDrain ==
  ASSUME ReadingInv, Drain
  PROVE  ReadingInv'
<1>1. KernelLogTypeOK
  BY DEF ReadingInv, LogTypeInv
<1>2. PICK p \in Path : p = path
  BY <1>1, TurnFacts
<1>3. /\ step = "drain" /\ step' = "open"
      /\ counted' = [counted EXCEPT ![p] = counted[p] \o Rest]
      /\ handles' = [handles EXCEPT ![p] = [ReadOut(handles[p]) EXCEPT !.open = FALSE]]
      /\ drained' = [drained EXCEPT ![p] = drained[p] \cup {handles[p].file}]
      /\ UNCHANGED <<diskVars, turn, files_ok, faults, due, skipped, cut>>
  BY <1>2 DEF Drain, LastWords, handle
<1>4. handle.open
  BY <1>3 DEF ReadingInv, Reading
<1>5. /\ handles[p].file \in File /\ handles[p].file # NoFile
      /\ ReadOut(handles[p]) \in Handle
      /\ ReadOut(handles[p]).file = handles[p].file
      /\ Rest \in Seq(1..MaxEvents)
  BY <1>2, <1>4, ReadFacts
<1> DEFINE h == [ReadOut(handles[p]) EXCEPT !.open = FALSE]
<1>6. h \in Handle /\ h.file = handles[p].file /\ h.open = FALSE
  BY <1>5 DEF Handle
<1>7. handles \in [Path -> Handle] /\ handles' = [handles EXCEPT ![p] = h]
  BY <1>1, <1>3 DEF KernelLogTypeOK, Handle
<1> HIDE DEF h
<1>8. /\ handles' \in [Path -> Handle]
      /\ handles'[p] = h
      /\ \A q \in Path : q # p => handles'[q] = handles[q]
  BY <1>6, <1>7, HandleSet
<1>9. counted' \in [Path -> Seq(1..MaxEvents)]
      /\ \A q \in Path : q # p => counted'[q] = counted[q]
  BY <1>1, <1>3, <1>5, ConcatProperties DEF KernelLogTypeOK
<1>10. /\ drained' \in [Path -> SUBSET File]
       /\ drained'[p] = drained[p] \cup {handles[p].file}
       /\ \A q \in Path : q # p => drained'[q] = drained[q]
  BY <1>1, <1>3, <1>5 DEF KernelLogTypeOK
<1>11. KernelLogTypeOK'
  BY <1>1, <1>3, <1>8, <1>9, <1>10 DEF KernelLogTypeOK, Handle, diskVars
<1>12. OwnFiles' /\ NotYetReopened' /\ Lengths'
  <2>1. \A q \in Path : Own(q)' \subseteq Own(q)
    BY <1>3, <1>6, <1>8, <1>10 DEF Own, diskVars
  <2>2. QED
    BY <1>3, <2>1, FilesKept DEF ReadingInv, LogTypeInv
<1>13. Unseen'
  BY <1>3, <1>5, <1>6, <1>8, <1>9, <1>10 DEF ReadingInv, LogTypeInv, Unseen
<1>14. path' = p
  BY <1>2, <1>3 DEF path
<1>15. Reading'
  BY <1>3, <1>6, <1>8, <1>14 DEF ReadingInv, Reading, handle
<1>16. DeadWatcherIsVisible'
  BY <1>3 DEF DeadWatcherIsVisible
<1>17. QED
  BY <1>11, <1>12, <1>13, <1>15, <1>16 DEF ReadingInv, LogTypeInv

LEMMA ReadingOpen ==
  ASSUME ReadingInv, Open
  PROVE  ReadingInv'
<1>1. KernelLogTypeOK
  BY DEF ReadingInv, LogTypeInv
<1>2. PICK p \in Path : p = path
  BY <1>1, TurnFacts
<1> DEFINE h == [file |-> at[p], pos |-> StartOf(at[p]), open |-> TRUE]
<1>3. /\ step = "open" /\ step' = "consume" /\ at[p] # NoFile
      /\ handles' = [handles EXCEPT ![p] = h]
      /\ skipped' = [skipped EXCEPT ![p] = IF SkipsBacklog THEN written[p] ELSE skipped[p]]
      /\ UNCHANGED <<diskVars, turn, files_ok, counted, faults, due, drained, cut>>
  BY <1>2 DEF Open
<1>4. at[p] \in File
  BY <1>3, OwnFacts
<1>5. h \in Handle
  <2>1. content[at[p]] \in Seq(1..MaxEvents) /\ Len(content[at[p]]) <= MaxEvents
    BY <1>1, <1>4 DEF KernelLogTypeOK, ReadingInv, LogTypeInv, Lengths
  <2>2. StartOf(at[p]) \in 0..MaxEvents
    BY <2>1, LenProperties, Bounds DEF StartOf
  <2>3. QED
    BY <1>4, <2>2 DEF Handle
<1>6. handles \in [Path -> Handle]
  BY <1>1 DEF KernelLogTypeOK, Handle
<1>7. h.file = at[p] /\ h.open = TRUE
  OBVIOUS
<1> HIDE DEF h
<1>8. /\ handles' \in [Path -> Handle]
      /\ handles'[p] = h
      /\ \A q \in Path : q # p => handles'[q] = handles[q]
  BY <1>3, <1>5, <1>6, HandleSet
<1>9. /\ skipped' \in [Path -> 0..MaxEvents]
      /\ \A q \in Path : q # p => skipped'[q] = skipped[q]
  BY <1>1, <1>3 DEF KernelLogTypeOK
<1>10. KernelLogTypeOK'
  BY <1>1, <1>3, <1>8, <1>9 DEF KernelLogTypeOK, Handle, diskVars
<1>11. OwnFiles' /\ NotYetReopened' /\ Lengths'
  <2>1. \A q \in Path : Own(q)' \subseteq Own(q)
    BY <1>3, <1>7, <1>8 DEF Own, diskVars
  <2>2. QED
    BY <1>3, <2>1, FilesKept DEF ReadingInv, LogTypeInv
<1>12. Unseen'
  BY <1>3, <1>7, <1>8, <1>9 DEF ReadingInv, LogTypeInv, Unseen
<1>13. path' = p
  BY <1>2, <1>3 DEF path
<1>14. Reading'
  BY <1>2, <1>3, <1>7, <1>8, <1>13 DEF ReadingInv, Reading, handle
<1>15. DeadWatcherIsVisible'
  BY <1>3 DEF DeadWatcherIsVisible
<1>16. QED
  BY <1>10, <1>11, <1>12, <1>14, <1>15 DEF ReadingInv, LogTypeInv

LEMMA ReadingConsume ==
  ASSUME ReadingInv, Consume
  PROVE  ReadingInv'
<1>1. KernelLogTypeOK
  BY DEF ReadingInv, LogTypeInv
<1>2. PICK p \in Path : p = path
  BY <1>1, TurnFacts
<1> DEFINE h == ReadOut(handles[p])
<1>3. /\ step = "consume" /\ NextPath("ok")
      /\ counted' = [counted EXCEPT ![p] = counted[p] \o Rest]
      /\ handles' = [handles EXCEPT ![p] = h]
      /\ UNCHANGED <<diskVars, faults, pastVars>>
  BY <1>2 DEF Consume
<1>4. handle.open /\ handle = handles[p]
  BY <1>2, <1>3 DEF ReadingInv, Reading, handle
<1>5. /\ handles[p].file # NoFile
      /\ h \in Handle /\ h.file = handles[p].file /\ h.open
      /\ Rest \in Seq(1..MaxEvents)
  BY <1>2, <1>4, ReadFacts
<1> HIDE DEF h
<1>6. handles \in [Path -> Handle]
  BY <1>1 DEF KernelLogTypeOK, Handle
<1>7. /\ handles' \in [Path -> Handle]
      /\ handles'[p] = h
      /\ \A q \in Path : q # p => handles'[q] = handles[q]
  BY <1>3, <1>5, <1>6, HandleSet
<1>8. counted' \in [Path -> Seq(1..MaxEvents)]
      /\ \A q \in Path : q # p => counted'[q] = counted[q]
  BY <1>1, <1>3, <1>5, ConcatProperties DEF KernelLogTypeOK
<1>9. /\ files_ok' \in [Path -> {"unset", "ok", "failed"}]
      /\ \A q \in Path : files_ok'[q] = IF q = p THEN "ok" ELSE files_ok[q]
      /\ turn' \in 1..Len(PATHS)
      /\ step' = "stat"
  BY <1>1, <1>2, <1>3, NextFacts
<1>10. KernelLogTypeOK'
  BY <1>1, <1>3, <1>7, <1>8, <1>9 DEF KernelLogTypeOK, Handle, diskVars, pastVars
<1>11. OwnFiles' /\ NotYetReopened' /\ Lengths'
  <2>1. \A q \in Path : Own(q)' \subseteq Own(q)
    BY <1>3, <1>5, <1>7 DEF Own, diskVars, pastVars
  <2>2. QED
    BY <1>3, <2>1, FilesKept DEF ReadingInv, LogTypeInv
<1>12. Unseen'
  BY <1>3, <1>5, <1>7, <1>8 DEF ReadingInv, LogTypeInv, Unseen, pastVars
<1>13. Reading'
  <2>1. \A q \in Path : q # p => (handles[q] # NoHandle /\ ~handles[q].open
                                    => files_ok[q] = "failed")
    BY <1>3 DEF ReadingInv, Reading
  <2>2. QED
    BY <1>5, <1>7, <1>9, <2>1 DEF Reading
<1>14. DeadWatcherIsVisible'
  BY <1>9 DEF DeadWatcherIsVisible
<1>15. QED
  BY <1>10, <1>11, <1>12, <1>13, <1>14 DEF ReadingInv, LogTypeInv

LEMMA ReadingStep ==
  ASSUME ReadingInv, [KernelLogNext]_kernelLogVars
  PROVE  ReadingInv'
<1>1. KernelLogTypeOK
  BY DEF ReadingInv, LogTypeInv
<1>2. CASE KernelPrints
  <2>1. /\ events' = events + 1 /\ events < MaxEvents
        /\ UNCHANGED <<at, content, files, writer, written, threadVars, pastVars>>
    BY <1>2 DEF KernelPrints
  <2>2. KernelLogTypeOK'
    BY <1>1, <2>1, Bounds DEF KernelLogTypeOK, threadVars, pastVars
  <2>3. Unseen' /\ Reading' /\ DeadWatcherIsVisible'
    BY <2>1, ThreadKept DEF pastVars
  <2>4. OwnFiles' /\ NotYetReopened'
    BY <2>1 DEF ReadingInv, LogTypeInv, OwnFiles, Own, NotYetReopened, threadVars, pastVars
  <2>5. Lengths'
    <3>1. \A q \in Path : written[q] \in Nat /\ events \in Nat
      BY <1>1, Bounds DEF KernelLogTypeOK
    <3>2. QED
      BY <2>1, <3>1 DEF ReadingInv, LogTypeInv, Lengths
  <2>6. QED
    BY <2>2, <2>3, <2>4, <2>5 DEF ReadingInv, LogTypeInv
<1>3. ASSUME NEW p \in Path,
             WriteLine(p) \/ Rename(p) \/ Create(p) \/ Reopen(p) \/ CutDown(p)
      PROVE  ReadingInv'
  BY <1>3, ReadingWrite, ReadingRename, ReadingCreate, ReadingReopen, ReadingCut
<1>4. CASE NotThere
  BY <1>1, <1>4, ReadingFails DEF NotThere, KernelLogTypeOK
<1>5. CASE CallFails
  <2>1. faults' \in 0..MaxFaults
    BY <1>1, <1>5, Bounds DEF CallFails, KernelLogTypeOK
  <2>2. QED
    BY <1>5, <2>1, ReadingFails DEF CallFails
<1>6. CASE UNCHANGED kernelLogVars
  <2>1. UNCHANGED <<diskVars, threadVars, pastVars>>
    BY <1>6 DEF kernelLogVars
  <2>2. KernelLogTypeOK'
    BY <1>1, <2>1 DEF KernelLogTypeOK, diskVars, threadVars, pastVars
  <2>3. \A q \in Path : Own(q)' \subseteq Own(q)
    BY <2>1 DEF Own, diskVars, threadVars, pastVars
  <2>4. OwnFiles' /\ NotYetReopened' /\ Lengths'
    BY <2>1, <2>3, FilesKept DEF ReadingInv, LogTypeInv
  <2>5. Unseen' /\ Reading' /\ DeadWatcherIsVisible'
    BY <2>1, ThreadKept DEF pastVars
  <2>6. QED
    BY <2>2, <2>4, <2>5 DEF ReadingInv, LogTypeInv
<1>7. CASE Stat \/ Dies \/ Drain \/ Open \/ Consume
  BY <1>7, ReadingStat, ReadingDies, ReadingDrain, ReadingOpen, ReadingConsume
<1>8. QED
  BY <1>2, <1>3, <1>4, <1>5, <1>6, <1>7 DEF KernelLogNext, ThreadGoes, World

\* Every variable of the watcher keeps its type; above all, no offset runs away.
THEOREM KernelLogTypeCorrect == KernelLogSpec => []KernelLogTypeOK
<1>1. ReadingInv => KernelLogTypeOK
  BY DEF ReadingInv, LogTypeInv
<1>2. QED
  BY <1>1, ReadingInit, ReadingStep, PTL DEF KernelLogSpec

(* However the thread dies, a path is recorded as unreadable by then, for a *)
(* handle is closed without being replaced only where a call has failed.    *)
THEOREM DeadWatcherIsVisibleHolds == KernelLogSpec => []DeadWatcherIsVisible
<1>1. ReadingInv => DeadWatcherIsVisible
  BY DEF ReadingInv
<1>2. QED
  BY <1>1, ReadingInit, ReadingStep, PTL DEF KernelLogSpec

-----------------------------------------------------------------------------
(* The order of the lines.                                                 *)

LEMMA NumberFacts ==
  ASSUME ReadingInv
  PROVE  /\ events \in Nat
         /\ \A f \in File :
              /\ content[f] \in Seq(1..MaxEvents) /\ Len(content[f]) \in Nat
              /\ \A i \in 1..Len(content[f]) : content[f][i] \in Nat /\ content[f][i] >= 1
         /\ \A p \in Path :
              /\ counted[p] \in Seq(1..MaxEvents) /\ Len(counted[p]) \in Nat
              /\ \A k \in 1..Len(counted[p]) : counted[p][k] \in Nat
              /\ skipped[p] \in Nat /\ written[p] \in Nat
              /\ handles[p].pos \in Nat
<1>1. KernelLogTypeOK
  BY DEF ReadingInv, LogTypeInv
<1>2. ASSUME NEW s \in Seq(1..MaxEvents)
      PROVE  Len(s) \in Nat /\ \A i \in 1..Len(s) : s[i] \in Nat /\ s[i] >= 1
  <2>1. \A i \in 1..Len(s) : s[i] \in 1..MaxEvents
    BY <1>2, ElementOfSeq
  <2>2. QED
    BY <1>2, <2>1, LenProperties, Bounds
<1>3. \A f \in File : content[f] \in Seq(1..MaxEvents)
  BY <1>1 DEF KernelLogTypeOK
<1>4. ASSUME NEW p \in Path
      PROVE  /\ counted[p] \in Seq(1..MaxEvents)
             /\ skipped[p] \in Nat /\ written[p] \in Nat
             /\ handles[p].pos \in Nat
  BY <1>1, <1>4, Bounds DEF KernelLogTypeOK
<1>5. events \in Nat
  BY <1>1, Bounds DEF KernelLogTypeOK
<1>6. QED
  BY <1>2, <1>3, <1>4, <1>5

LEMMA OrderInit == KernelLogInit => OrderInv
<1> SUFFICES ASSUME KernelLogInit PROVE OrderInv
  OBVIOUS
<1>1. ReadingInv
  BY ReadingInit
<1>2. PICK backlog \in 0..MaxEvents :
        /\ written = [p \in Path |-> backlog]
        /\ content = [f \in File |->
             IF f <= Len(PATHS) THEN [e \in 1..backlog |-> e] ELSE <<>>]
  BY DEF KernelLogInit
<1> DEFINE old == [e \in 1..backlog |-> e]
<1>3. Len(old) = backlog /\ backlog \in Nat
  <2>1. backlog \in Nat /\ old \in [1..backlog -> Nat]
    BY Bounds
  <2>2. old \in Seq(Nat)
    BY <2>1, SeqDef
  <2>3. QED
    BY <2>1, <2>2, LenProperties
<1>4. \A i \in 1..Len(old) : old[i] = i
  BY <1>3
<1> HIDE DEF old
<1>5. \A f \in File : content[f] = IF f <= Len(PATHS) THEN old ELSE <<>>
  BY <1>2 DEF old
<1>6. \A f \in File : content[f] \in {old, <<>>}
  BY <1>5
<1>7. Increasing(old) /\ Increasing(<<>>)
  BY <1>3, <1>4, EmptySeq DEF Increasing
<1>8. /\ handles = [p \in Path |-> NoHandle]
      /\ counted = [p \in Path |-> <<>>] /\ skipped = [p \in Path |-> 0]
      /\ step = "stat"
  BY DEF KernelLogInit
<1>9. ASSUME NEW p \in Path
      PROVE  OrderOf(p)
  <2>1. Len(counted[p]) = 0 /\ handles[p].file = NoFile
    BY <1>8, EmptySeq DEF NoHandle
  <2>2. ASSUME NEW f \in Own(p), NEW i \in 1..Len(content[f])
        PROVE  content[f][i] <= written[p]
    <3>1. f \in File
      BY <1>1, OwnFacts
    <3>2. content[f] = old
      BY <1>6, <2>2, <3>1, EmptySeq
    <3>3. content[f][i] = i /\ i <= backlog
      BY <1>3, <1>4, <2>2, <3>2
    <3>4. written[p] = backlog
      BY <1>2
    <3>5. QED
      BY <3>3, <3>4
  <2>3. OnlyWritten(p)
    <3>1. skipped[p] = 0 /\ written[p] = backlog
      BY <1>2, <1>8
    <3>2. QED
      BY <1>3, <2>1, <2>2, <3>1 DEF OnlyWritten
  <2>4. QED
    BY <2>1, <2>3 DEF OrderOf, CountedInOrder, Increasing, UnreadAhead, NextAhead
<1>10. OpenAhead
  BY <1>8 DEF OpenAhead
<1>11. QED
  BY <1>1, <1>6, <1>7, <1>9, <1>10 DEF OrderInv

\* A path to whose files, and in whose handle, nothing has happened.
LEMMA OrderKept ==
  ASSUME NEW p \in Path, ReadingInv, OrderOf(p),
         at'[p] = at[p], counted'[p] = counted[p], skipped'[p] = skipped[p],
         written'[p] = written[p],
         handles'[p].file = handles[p].file, handles'[p].pos = handles[p].pos,
         Own(p)' \subseteq Own(p),
         \A f \in Own(p) : content'[f] = content[f]
  PROVE  OrderOf(p)'
<1>1. /\ at[p] # NoFile => content'[at[p]] = content[at[p]]
      /\ handles[p].file # NoFile => content'[handles[p].file] = content[handles[p].file]
  BY OwnFacts
<1>2. OnlyWritten(p)'
  BY DEF OrderOf, OnlyWritten
<1>3. CountedInOrder(p)'
  BY DEF OrderOf, CountedInOrder
<1>4. UnreadAhead(p)'
  BY <1>1 DEF OrderOf, UnreadAhead, Ahead
<1>5. NextAhead(p)'
  BY <1>1 DEF OrderOf, NextAhead, AllAhead, Ahead
<1>6. QED
  BY <1>2, <1>3, <1>4, <1>5 DEF OrderOf

\* A step of the world: what is about to be opened, or drained.
LEMMA OpenKept ==
  ASSUME OrderInv, UNCHANGED <<threadVars, skipped>>,
         NEW p \in Path,
         \A q \in Path \ {p} :
           at'[q] = at[q] /\ (at[q] # NoFile => content'[at[q]] = content[at[q]]),
         step = "open" /\ at'[p] # NoFile /\ path = p => AllAhead(p, at[p])',
         step = "drain" /\ path = p => at'[p] # handles[p].file
  PROVE  OpenAhead'
<1>1. ReadingInv /\ KernelLogTypeOK
  BY DEF OrderInv, ReadingInv, LogTypeInv
<1>2. PICK r \in Path : r = path
  BY <1>1, TurnFacts
<1>3. path' = r /\ UNCHANGED <<step, handles, counted, skipped>>
  BY <1>2 DEF path, threadVars
<1>4. CASE r = p
  BY <1>2, <1>3, <1>4 DEF OpenAhead, handle
<1>5. CASE r # p
  BY <1>2, <1>3, <1>5 DEF OrderInv, OpenAhead, handle, AllAhead, Ahead
<1>6. QED
  BY <1>4, <1>5

LEMMA OrderWrite ==
  ASSUME OrderInv, NEW p \in Path, WriteLine(p)
  PROVE  OrderInv'
<1> DEFINE line == written[p] + 1
<1>1. ReadingInv /\ KernelLogTypeOK /\ ReadingInv'
  BY ReadingWrite DEF OrderInv, ReadingInv, LogTypeInv
<1>0. PICK w \in File : w = writer[p]
  BY <1>1, OwnFacts
<1>2. /\ written' = [written EXCEPT ![p] = line]
      /\ content' = [content EXCEPT ![w] = Append(content[w], line)]
      /\ UNCHANGED <<events, at, files, writer, threadVars, pastVars>>
  BY <1>0 DEF WriteLine
<1>3. UNCHANGED <<handles, step, turn, counted, skipped, drained>>
  BY <1>2 DEF threadVars, pastVars
<1>4. /\ w \in File /\ w \in Own(p)
      /\ \A q \in Path : q # p => w \notin Own(q)
  BY <1>0, <1>1, OwnFacts
<1>5. /\ written'[p] = line
      /\ \A q \in Path : q # p => written'[q] = written[q]
      /\ content'[w] = Append(content[w], line)
      /\ \A f \in File : f # w => content'[f] = content[f]
  BY <1>1, <1>2, <1>4 DEF KernelLogTypeOK
<1> DEFINE L == Len(content[w])
<1>6. /\ content[w] \in Seq(1..MaxEvents) /\ L \in Nat
      /\ \A i \in 1..L : content[w][i] \in Nat
      /\ written[p] \in Nat /\ line \in Nat /\ line = written[p] + 1
  BY <1>1, <1>4, NumberFacts
<1> HIDE DEF line
<1>7. /\ Len(content'[w]) = L + 1 /\ content'[w][L + 1] = line
      /\ \A i \in 1..L : content'[w][i] = content[w][i]
  <2>1. content[w] \in Seq(Nat)
    BY <1>6, SeqDef, LenProperties
  <2>2. QED
    BY <1>5, <1>6, <2>1, AppendProperties
<1> HIDE DEF L
<1>8. \A f \in Own(p) : \A i \in 1..Len(content[f]) :
        content[f][i] <= written[p] /\ content[f][i] \in Nat
  <2>1. \A f \in Own(p) : f \in File
    BY <1>1, OwnFacts
  <2>2. QED
    BY <1>1, <2>1, NumberFacts DEF OrderInv, OrderOf, OnlyWritten
<1>9. \A i \in 1..L : content[w][i] < line /\ content[w][i] \in Nat
  BY <1>4, <1>6, <1>8 DEF L
<1>10. ASSUME NEW f \in File
       PROVE  Increasing(content'[f])
  <2>1. Increasing(content[f])
    BY DEF OrderInv
  <2>2. CASE f # w
    BY <1>5, <2>1, <2>2
  <2>3. CASE f = w
    <3> SUFFICES ASSUME NEW i \in 1..(L + 1), NEW j \in 1..(L + 1), i < j
                 PROVE  content'[w][i] < content'[w][j]
      BY <1>7, <2>3 DEF Increasing
    <3>1. i \in 1..L
      BY <1>6
    <3>2. CASE j = L + 1
      BY <1>7, <1>9, <3>1, <3>2
    <3>3. CASE j # L + 1
      <4>1. j \in 1..L
        BY <1>6, <3>3
      <4>2. QED
        BY <1>7, <2>1, <2>3, <3>1, <4>1 DEF Increasing, L
    <3>4. QED
      BY <3>2, <3>3
  <2>4. QED
    BY <2>2, <2>3
<1>11. OrderOf(p) /\ OnlyWritten(p) /\ UnreadAhead(p) /\ NextAhead(p)
  BY DEF OrderInv, OrderOf
<1>12. /\ skipped[p] \in Nat /\ skipped[p] < line
       /\ \A k \in 1..Len(counted[p]) : counted[p][k] \in Nat /\ counted[p][k] < line
  <2>1. /\ skipped[p] \in Nat
        /\ \A k \in 1..Len(counted[p]) : counted[p][k] \in Nat
    BY <1>1, NumberFacts
  <2>2. QED
    BY <1>6, <1>11, <2>1 DEF OnlyWritten
<1>13. Ahead(p, line)
  BY <1>6, <1>12 DEF Ahead
<1>14. ASSUME AllAhead(p, w)
       PROVE  AllAhead(p, w)'
  <2>1. ASSUME NEW i \in 1..(L + 1)
        PROVE  Ahead(p, content'[w][i])
    <3>1. CASE i \in 1..L
      BY <1>7, <1>14, <3>1 DEF AllAhead, L
    <3>2. CASE i = L + 1
      BY <1>7, <1>13, <3>2
    <3>3. QED
      BY <1>6, <3>1, <3>2
  <2>2. QED
    BY <1>3, <1>7, <2>1 DEF AllAhead, Ahead
<1>15. OnlyWritten(p)'
  <2>1. Own(p)' = Own(p)
    BY <1>2, <1>3 DEF Own
  <2>2. ASSUME NEW f \in Own(p), NEW i \in 1..Len(content'[f])
        PROVE  content'[f][i] <= line
    <3>1. f \in File
      BY <1>1, OwnFacts
    <3>2. CASE f # w
      <4>1. content[f][i] <= written[p] /\ content[f][i] \in Nat
        BY <1>5, <1>8, <2>2, <3>1, <3>2
      <4>2. QED
        BY <1>5, <1>6, <3>1, <3>2, <4>1
    <3>3. CASE f = w /\ i \in 1..L
      BY <1>6, <1>7, <1>9, <3>3
    <3>4. CASE f = w /\ i = L + 1
      BY <1>6, <1>7, <3>4
    <3>5. QED
      BY <1>6, <1>7, <2>2, <3>2, <3>3, <3>4
  <2>3. skipped'[p] <= line /\ \A k \in 1..Len(counted'[p]) : counted'[p][k] <= line
    BY <1>3, <1>6, <1>12
  <2>4. QED
    BY <1>5, <2>1, <2>2, <2>3 DEF OnlyWritten
<1>16. UnreadAhead(p)'
  <2> DEFINE f == handles[p].file
  <2> SUFFICES ASSUME f # NoFile, NEW i \in 1..Len(content'[f]),
                      i > handles[p].pos \/ handles[p].pos > Len(content'[f])
               PROVE  Ahead(p, content'[f][i])
    BY <1>3 DEF UnreadAhead, Ahead
  <2>1. f \in File /\ handles[p].pos \in Nat
    BY <1>1, OwnFacts, NumberFacts
  <2>2. CASE f # w
    BY <1>5, <1>11, <2>1, <2>2 DEF UnreadAhead
  <2>3. CASE f = w /\ i = L + 1
    BY <1>7, <1>13, <2>3
  <2>4. CASE f = w /\ i \in 1..L
    <3>1. i > handles[p].pos \/ handles[p].pos > L
      BY <1>6, <1>7, <2>1, <2>4
    <3>2. Ahead(p, content[f][i])
      BY <1>11, <2>4, <3>1 DEF UnreadAhead, L
    <3>3. QED
      BY <1>7, <2>4, <3>2
  <2>5. QED
    BY <1>6, <1>7, <2>2, <2>3, <2>4
<1>17. NextAhead(p)'
  <2> DEFINE f == handles[p].file
             a == at[p]
  <2>1. SUFFICES ASSUME f # NoFile, a \notin {NoFile, f}
                 PROVE  /\ AllAhead(p, a)'
                        /\ \A i \in 1..Len(content'[a]) : \A j \in 1..Len(content'[f]) :
                             content'[f][j] < content'[a][i]
    BY <1>2, <1>3 DEF NextAhead
  <2>2. f \in File /\ f \in Own(p) /\ a \in File
    BY <1>1, <2>1, OwnFacts
  <2>3. /\ AllAhead(p, a)
        /\ \A i \in 1..Len(content[a]) : \A j \in 1..Len(content[f]) :
             content[f][j] < content[a][i]
    BY <1>11, <2>1 DEF NextAhead
  <2>4. CASE a # w
    <3>1. content[a] = <<>>
      BY <1>0, <1>1, <2>1, <2>4 DEF ReadingInv, LogTypeInv, NotYetReopened
    <3>2. Len(content'[a]) = 0
      BY <1>5, <2>2, <2>4, <3>1, EmptySeq
    <3>3. QED
      BY <1>2, <3>2 DEF AllAhead
  <2>5. CASE a = w
    <3>1. AllAhead(p, a)'
      BY <1>2, <1>14, <2>3, <2>5 DEF AllAhead, Ahead
    <3>2. content'[f] = content[f]
      BY <1>5, <2>1, <2>2, <2>5
    <3>3. ASSUME NEW i \in 1..Len(content'[a]), NEW j \in 1..Len(content[f])
          PROVE  content[f][j] < content'[a][i]
      <4>1. CASE i \in 1..L
        BY <1>7, <2>3, <2>5, <4>1 DEF L
      <4>2. CASE i = L + 1
        <5>1. content[f][j] <= written[p] /\ content[f][j] \in Nat
          BY <1>8, <2>2
        <5>2. QED
          BY <1>6, <1>7, <2>5, <4>2, <5>1
      <4>3. QED
        BY <1>6, <1>7, <2>5, <3>3, <4>1, <4>2
    <3>4. QED
      BY <3>1, <3>2, <3>3
  <2>6. QED
    BY <2>4, <2>5
<1>18. OrderOf(p)'
  BY <1>3, <1>11, <1>15, <1>16, <1>17 DEF OrderOf, CountedInOrder
<1>19. ASSUME NEW q \in Path, q # p
       PROVE  OrderOf(q)'
  <2>1. OrderOf(q)
    BY DEF OrderInv
  <2>2. Own(q)' \subseteq Own(q)
    BY <1>2, <1>3 DEF Own
  <2>3. \A f \in Own(q) : content'[f] = content[f]
    BY <1>1, <1>4, <1>5, <1>19, OwnFacts
  <2>4. QED
    BY <1>1, <1>2, <1>3, <1>5, <1>19, <2>1, <2>2, <2>3, OrderKept
<1>20. OpenAhead'
  <2>1. \A q \in Path \ {p} :
          at'[q] = at[q] /\ (at[q] # NoFile => content'[at[q]] = content[at[q]])
    BY <1>1, <1>2, <1>4, <1>5, OwnFacts
  <2>2. ASSUME step = "open", at[p] # NoFile, path = p
        PROVE  AllAhead(p, at[p])'
    <3>1. AllAhead(p, at[p]) /\ at[p] \in File
      BY <1>1, <2>2, OwnFacts DEF OrderInv, OpenAhead
    <3>2. CASE at[p] = w
      BY <1>2, <1>14, <3>1, <3>2 DEF AllAhead
    <3>3. CASE at[p] # w
      BY <1>2, <1>3, <1>5, <3>1, <3>3 DEF AllAhead, Ahead
    <3>4. QED
      BY <3>2, <3>3
  <2>3. step = "drain" /\ path = p => at'[p] # handles[p].file
    BY <1>2 DEF OrderInv, OpenAhead, handle
  <2>4. UNCHANGED <<threadVars, skipped>>
    BY <1>2 DEF pastVars
  <2>5. QED
    BY <1>2, <2>1, <2>2, <2>3, <2>4, OpenKept
<1>21. QED
  BY <1>1, <1>10, <1>18, <1>19, <1>20 DEF OrderInv

LEMMA OrderRename ==
  ASSUME OrderInv, NEW p \in Path, Rename(p)
  PROVE  OrderInv'
<1>1. ReadingInv /\ KernelLogTypeOK /\ ReadingInv'
  BY ReadingRename DEF OrderInv, ReadingInv, LogTypeInv
<1>2. /\ at[p] # NoFile
      /\ at' = [at EXCEPT ![p] = NoFile]
      /\ UNCHANGED <<content, writer, written, threadVars, skipped, drained>>
  BY DEF Rename
<1>3. /\ at'[p] = NoFile
      /\ \A q \in Path : q # p => at'[q] = at[q]
      /\ UNCHANGED <<handles, step, counted>>
  BY <1>1, <1>2 DEF KernelLogTypeOK, threadVars
<1>4. \A q \in Path : Own(q)' \subseteq Own(q)
  BY <1>2, <1>3 DEF Own
<1>5. ASSUME NEW q \in Path, q # p
      PROVE  OrderOf(q)'
  BY <1>1, <1>2, <1>3, <1>4, <1>5, OrderKept DEF OrderInv
<1>6. OrderOf(p)'
  <2>1. OnlyWritten(p) /\ CountedInOrder(p) /\ UnreadAhead(p)
    BY DEF OrderInv, OrderOf
  <2>2. OnlyWritten(p)'
    BY <1>2, <1>3, <1>4, <2>1 DEF OnlyWritten
  <2>3. CountedInOrder(p)' /\ UnreadAhead(p)'
    BY <1>2, <1>3, <2>1 DEF CountedInOrder, UnreadAhead, Ahead
  <2>4. NextAhead(p)'
    BY <1>3 DEF NextAhead
  <2>5. QED
    BY <2>2, <2>3, <2>4 DEF OrderOf
<1>7. OpenAhead'
  <2>1. step = "drain" /\ path = p => at'[p] # handles[p].file
    <3> SUFFICES ASSUME step = "drain", path = p PROVE handles[p].file # NoFile
      BY <1>3
    <3>1. handle.open
      BY <1>1 DEF ReadingInv, Reading
    <3>2. QED
      BY <1>1, <3>1, ReadFacts
  <2>2. QED
    BY <1>2, <1>3, <2>1, OpenKept
<1>8. QED
  BY <1>1, <1>2, <1>5, <1>6, <1>7 DEF OrderInv

LEMMA OrderCreate ==
  ASSUME OrderInv, NEW p \in Path, Create(p)
  PROVE  OrderInv'
<1>1. ReadingInv /\ KernelLogTypeOK /\ ReadingInv'
  BY ReadingCreate DEF OrderInv, ReadingInv, LogTypeInv
<1>2. /\ files < MaxFiles
      /\ at' = [at EXCEPT ![p] = files + 1]
      /\ UNCHANGED <<content, writer, written, threadVars, skipped, drained>>
  BY DEF Create, pastVars
<1>3. files \in Nat /\ files + 1 \in File
  BY <1>1, <1>2, Bounds DEF KernelLogTypeOK, File
<1>4. PICK new \in File : new = files + 1
  BY <1>3
<1>5. /\ at'[p] = new
      /\ \A q \in Path : q # p => at'[q] = at[q]
      /\ UNCHANGED <<handles, step, counted>>
  BY <1>1, <1>2, <1>4 DEF KernelLogTypeOK, threadVars
<1>6. content[new] = <<>> /\ Len(content[new]) = 0
  <2>1. new > files
    BY <1>3, <1>4
  <2>2. QED
    BY <1>1, <2>1, EmptySeq DEF ReadingInv, LogTypeInv, OwnFiles
<1>7. /\ \A q \in Path : q # p => Own(q)' \subseteq Own(q)
      /\ Own(p)' \subseteq Own(p) \cup {new}
  BY <1>2, <1>5 DEF Own
<1>8. ASSUME NEW q \in Path, q # p
      PROVE  OrderOf(q)'
  BY <1>1, <1>2, <1>5, <1>7, <1>8, OrderKept DEF OrderInv
<1>9. OrderOf(p)'
  <2>1. OnlyWritten(p) /\ CountedInOrder(p) /\ UnreadAhead(p)
    BY DEF OrderInv, OrderOf
  <2>2. \A f \in Own(p)' : \A i \in 1..Len(content[f]) : content[f][i] <= written[p]
    BY <1>6, <1>7, <2>1 DEF OnlyWritten
  <2>3. OnlyWritten(p)'
    BY <1>2, <1>5, <2>1, <2>2 DEF OnlyWritten
  <2>4. CountedInOrder(p)' /\ UnreadAhead(p)'
    BY <1>2, <1>5, <2>1 DEF CountedInOrder, UnreadAhead, Ahead
  <2>5. NextAhead(p)'
    BY <1>2, <1>5, <1>6 DEF NextAhead, AllAhead
  <2>6. QED
    BY <2>3, <2>4, <2>5 DEF OrderOf
<1>10. OpenAhead'
  <2>1. AllAhead(p, at[p])'
    BY <1>2, <1>5, <1>6 DEF AllAhead
  <2>2. at'[p] # handles[p].file
    <3>1. handles[p].file \in File => handles[p].file <= files
      BY <1>1, OwnFacts DEF File, NoFile
    <3>2. QED
      BY <1>3, <1>4, <1>5, <3>1
  <2>3. QED
    BY <1>2, <1>5, <2>1, <2>2, OpenKept
<1>11. QED
  BY <1>1, <1>2, <1>8, <1>9, <1>10 DEF OrderInv

LEMMA OrderReopen ==
  ASSUME OrderInv, NEW p \in Path, Reopen(p)
  PROVE  OrderInv'
<1>1. ReadingInv /\ KernelLogTypeOK /\ ReadingInv'
  BY ReadingReopen DEF OrderInv, ReadingInv, LogTypeInv
<1>2. /\ at[p] \notin {NoFile, writer[p]}
      /\ writer' = [writer EXCEPT ![p] = at[p]]
      /\ UNCHANGED <<at, content, written, threadVars, skipped, drained>>
  BY DEF Reopen, pastVars
<1>3. /\ \A q \in Path : writer'[q] = IF q = p THEN at[p] ELSE writer[q]
      /\ UNCHANGED <<handles, step, turn, counted>>
  BY <1>1, <1>2 DEF KernelLogTypeOK, threadVars
<1>4. \A q \in Path : Own(q)' \subseteq Own(q)
  BY <1>2, <1>3 DEF Own
<1>5. ASSUME NEW q \in Path
      PROVE  OrderOf(q)'
  BY <1>1, <1>2, <1>3, <1>4, OrderKept DEF OrderInv
<1>6. OpenAhead'
  BY <1>2, <1>3 DEF OrderInv, OpenAhead, handle, path, AllAhead, Ahead
<1>7. QED
  BY <1>1, <1>2, <1>5, <1>6 DEF OrderInv

LEMMA OrderCut ==
  ASSUME OrderInv, NEW p \in Path, CutDown(p)
  PROVE  OrderInv'
<1>1. ReadingInv /\ KernelLogTypeOK /\ ReadingInv'
  BY ReadingCut DEF OrderInv, ReadingInv, LogTypeInv
<1>2. PICK a \in File : a = at[p]
  BY OwnFacts, <1>1 DEF CutDown
<1>3. /\ a # NoFile
      /\ content' = [content EXCEPT ![a] = <<>>]
      /\ UNCHANGED <<at, writer, written, threadVars, skipped, drained>>
  BY <1>2 DEF CutDown
<1>4. /\ content'[a] = <<>> /\ Len(content'[a]) = 0
      /\ \A f \in File : f # a => content'[f] = content[f]
      /\ UNCHANGED <<handles, step, counted>>
  BY <1>1, <1>3, EmptySeq DEF KernelLogTypeOK, threadVars
<1>5. \A q \in Path : Own(q)' = Own(q)
  BY <1>3, <1>4 DEF Own
<1>6. \A q \in Path : q # p => a \notin Own(q)
  BY <1>1, <1>2, <1>3, OwnFacts
<1>7. ASSUME NEW q \in Path, q # p
      PROVE  OrderOf(q)'
  <2>1. \A f \in Own(q) : content'[f] = content[f]
    BY <1>1, <1>4, <1>6, <1>7, OwnFacts
  <2>2. QED
    BY <1>1, <1>3, <1>4, <1>5, <2>1, OrderKept DEF OrderInv
<1>8. OrderOf(p)'
  <2>1. OnlyWritten(p) /\ CountedInOrder(p) /\ UnreadAhead(p)
    BY DEF OrderInv, OrderOf
  <2>2. ASSUME NEW f \in Own(p), NEW i \in 1..Len(content'[f])
        PROVE  content'[f][i] <= written[p]
    <3>1. f \in File /\ f # a
      BY <1>1, <1>4, <2>2, OwnFacts
    <3>2. QED
      BY <1>4, <2>1, <2>2, <3>1 DEF OnlyWritten
  <2>3. OnlyWritten(p)'
    BY <1>3, <1>4, <1>5, <2>1, <2>2 DEF OnlyWritten
  <2>4. CountedInOrder(p)'
    BY <1>3, <1>4, <2>1 DEF CountedInOrder
  <2>5. UnreadAhead(p)'
    <3>1. handles[p].file # NoFile => handles[p].file \in File
      BY <1>1, OwnFacts
    <3>2. CASE handles[p].file = a
      BY <1>4, <3>2 DEF UnreadAhead
    <3>3. CASE handles[p].file # a
      BY <1>3, <1>4, <2>1, <3>1, <3>3 DEF UnreadAhead, Ahead
    <3>4. QED
      BY <3>2, <3>3
  <2>6. NextAhead(p)'
    BY <1>2, <1>3, <1>4 DEF NextAhead, AllAhead
  <2>7. QED
    BY <2>3, <2>4, <2>5, <2>6 DEF OrderOf
<1>9. ASSUME NEW f \in File
      PROVE  Increasing(content'[f])
  <2>1. CASE f = a
    BY <1>4, <2>1 DEF Increasing
  <2>2. CASE f # a
    BY <1>4, <2>2 DEF OrderInv
  <2>3. QED
    BY <2>1, <2>2
<1>10. OpenAhead'
  <2>1. \A q \in Path \ {p} :
          at'[q] = at[q] /\ (at[q] # NoFile => content'[at[q]] = content[at[q]])
    BY <1>1, <1>3, <1>4, <1>6, OwnFacts
  <2>2. AllAhead(p, at[p])'
    BY <1>2, <1>3, <1>4 DEF AllAhead
  <2>3. step = "drain" /\ path = p => at'[p] # handles[p].file
    BY <1>3 DEF OrderInv, OpenAhead, handle
  <2>4. QED
    BY <1>3, <2>1, <2>2, <2>3, OpenKept
<1>11. QED
  BY <1>1, <1>7, <1>8, <1>9, <1>10 DEF OrderInv

-----------------------------------------------------------------------------
(* What is read.                                                           *)

\* An element of a sequence and its continuation.
LEMMA ConcatElements ==
  ASSUME NEW S, NEW s \in Seq(S), NEW t \in Seq(S)
  PROVE  /\ s \o t \in Seq(S)
         /\ Len(s) \in Nat /\ Len(t) \in Nat /\ Len(s \o t) = Len(s) + Len(t)
         /\ \A k \in 1..Len(s) : (s \o t)[k] = s[k]
         /\ \A j \in 1..Len(t) : (s \o t)[Len(s) + j] = t[j]
         /\ \A k \in 1..Len(s \o t) :
              k \in 1..Len(s) \/ \E j \in 1..Len(t) : k = Len(s) + j
<1>1. /\ s \o t \in Seq(S)
      /\ Len(s) \in Nat /\ Len(t) \in Nat /\ Len(s \o t) = Len(s) + Len(t)
      /\ \A i \in 1..(Len(s) + Len(t)) :
           (s \o t)[i] = IF i <= Len(s) THEN s[i] ELSE t[i - Len(s)]
  BY ConcatProperties, LenProperties
<1>2. \A k \in 1..Len(s) : (s \o t)[k] = s[k]
  BY <1>1
<1>3. \A j \in 1..Len(t) : (s \o t)[Len(s) + j] = t[j]
  <2> SUFFICES ASSUME NEW j \in 1..Len(t) PROVE (s \o t)[Len(s) + j] = t[j]
    OBVIOUS
  <2>1. Len(s) + j \in 1..(Len(s) + Len(t)) /\ ~(Len(s) + j <= Len(s))
        /\ Len(s) + j - Len(s) = j
    BY <1>1
  <2>2. QED
    BY <1>1, <2>1
<1>4. ASSUME NEW k \in 1..Len(s \o t), k \notin 1..Len(s)
      PROVE  \E j \in 1..Len(t) : k = Len(s) + j
  <2>1. k - Len(s) \in 1..Len(t) /\ k = Len(s) + (k - Len(s))
    BY <1>1, <1>4
  <2>2. QED
    BY <2>1
<1>5. QED
  BY <1>1, <1>2, <1>3, <1>4

\* The rest of a file is its lines behind the offset.
LEMMA RestElements ==
  ASSUME NEW s \in Seq(1..MaxEvents), NEW pos \in Nat
  PROVE  LET rest == SubSeq(s, pos + 1, Len(s)) IN
         /\ rest \in Seq(1..MaxEvents)
         /\ Len(rest) = IF pos >= Len(s) THEN 0 ELSE Len(s) - pos
         /\ \A j \in 1..Len(rest) : pos + j \in 1..Len(s) /\ rest[j] = s[pos + j]
<1> DEFINE rest == SubSeq(s, pos + 1, Len(s))
<1>1. Len(s) \in Nat /\ \A i \in 1..Len(s) : s[i] \in 1..MaxEvents
  BY ElementOfSeq, LenProperties
<1>2. \A i \in (pos + 1)..Len(s) : s[i] \in 1..MaxEvents
  <2> SUFFICES ASSUME NEW i \in (pos + 1)..Len(s) PROVE s[i] \in 1..MaxEvents
    OBVIOUS
  <2>1. i \in 1..Len(s)
    BY <1>1
  <2>2. QED
    BY <1>1, <2>1
<1>3. /\ rest \in Seq(1..MaxEvents)
      /\ Len(rest) = IF pos + 1 <= Len(s) THEN Len(s) - (pos + 1) + 1 ELSE 0
      /\ \A j \in 1..(Len(s) - (pos + 1) + 1) : rest[j] = s[pos + 1 + j - 1]
  BY <1>1, <1>2, SubSeqProperties
<1> HIDE DEF rest
<1>4. Len(rest) = IF pos >= Len(s) THEN 0 ELSE Len(s) - pos
  BY <1>1, <1>3
<1>5. ASSUME NEW j \in 1..Len(rest)
      PROVE  pos + j \in 1..Len(s) /\ rest[j] = s[pos + j]
  <2>1. j \in 1..(Len(s) - (pos + 1) + 1) /\ pos + 1 + j - 1 = pos + j
        /\ pos + j \in 1..Len(s)
    BY <1>1, <1>4
  <2>2. QED
    BY <1>3, <2>1
<1>6. QED
  BY <1>3, <1>4, <1>5 DEF rest

\* What a path's thread reads next: lines of the file it follows, all still to be counted.
LEMMA RestIsAhead ==
  ASSUME OrderInv, NEW p \in Path, p = path, handle.open
  PROVE  LET f == handles[p].file
             pos == handles[p].pos
         IN
         /\ Rest \in Seq(1..MaxEvents)
         /\ Len(Rest) = IF pos >= Len(content[f]) THEN 0 ELSE Len(content[f]) - pos
         /\ \A j \in 1..Len(Rest) :
              /\ pos + j \in 1..Len(content[f]) /\ Rest[j] = content[f][pos + j]
              /\ Rest[j] \in Nat
              /\ Ahead(p, Rest[j])
              /\ Rest[j] <= written[p]
         /\ Increasing(Rest)
<1> DEFINE f == handles[p].file
           pos == handles[p].pos
           s == content[f]
<1>1. ReadingInv /\ handle = handles[p] /\ OrderOf(p)
  BY DEF OrderInv, handle
<1>2. f \in File /\ f # NoFile /\ f \in Own(p) /\ s \in Seq(1..MaxEvents) /\ Len(s) \in Nat
  BY <1>1, ReadFacts, OwnFacts
<1>3. pos \in Nat /\ \A i \in 1..Len(s) : s[i] \in Nat
  BY <1>1, <1>2, NumberFacts
<1>4. Rest = SubSeq(s, pos + 1, Len(s))
  BY <1>1 DEF Rest
<1> HIDE DEF s, pos
<1>5. /\ Rest \in Seq(1..MaxEvents)
      /\ Len(Rest) = IF pos >= Len(s) THEN 0 ELSE Len(s) - pos
      /\ \A j \in 1..Len(Rest) : pos + j \in 1..Len(s) /\ Rest[j] = s[pos + j]
  <2>1. s \in Seq(1..MaxEvents) /\ pos \in Nat
    BY <1>2, <1>3
  <2>2. LET rest == SubSeq(s, pos + 1, Len(s)) IN
        /\ rest \in Seq(1..MaxEvents)
        /\ Len(rest) = IF pos >= Len(s) THEN 0 ELSE Len(s) - pos
        /\ \A j \in 1..Len(rest) : pos + j \in 1..Len(s) /\ rest[j] = s[pos + j]
    BY <2>1, RestElements
  <2>3. QED
    BY <1>4, <2>2
<1>6. Len(Rest) \in Nat
  BY <1>5, LenProperties
<1>7. ASSUME NEW j \in 1..Len(Rest)
      PROVE  Rest[j] \in Nat /\ Ahead(p, Rest[j]) /\ Rest[j] <= written[p]
  <2>1. PICK i \in 1..Len(s) : i = pos + j /\ i > pos /\ Rest[j] = s[i]
    <3>1. pos + j \in 1..Len(s) /\ Rest[j] = s[pos + j]
      BY <1>5
    <3>2. pos + j > pos
      BY <1>3, <1>6
    <3>3. QED
      BY <3>1, <3>2
  <2>2. s[i] <= written[p]
    BY <1>1, <1>2 DEF OrderOf, OnlyWritten, s
  <2>3. Ahead(p, s[i])
    BY <1>1, <1>2, <2>1 DEF OrderOf, UnreadAhead, s, pos
  <2>4. QED
    BY <1>3, <2>1, <2>2, <2>3
<1>8. Increasing(Rest)
  <2> SUFFICES ASSUME NEW i \in 1..Len(Rest), NEW j \in 1..Len(Rest), i < j
               PROVE  Rest[i] < Rest[j]
    BY DEF Increasing
  <2>1. /\ pos + i \in 1..Len(s) /\ pos + j \in 1..Len(s) /\ pos + i < pos + j
        /\ Rest[i] = s[pos + i] /\ Rest[j] = s[pos + j]
    <3>1. /\ pos + i \in 1..Len(s) /\ Rest[i] = s[pos + i]
          /\ pos + j \in 1..Len(s) /\ Rest[j] = s[pos + j]
      BY <1>5
    <3>2. pos + i < pos + j
      BY <1>3, <1>6
    <3>3. QED
      BY <3>1, <3>2
  <2>2. Increasing(s)
    BY <1>2 DEF OrderInv, s
  <2>3. QED
    BY <2>1, <2>2 DEF Increasing
<1>9. QED
  BY <1>5, <1>7, <1>8 DEF s, pos

\* The thread reads to the end.
LEMMA OrderRead ==
  ASSUME OrderInv, NEW p \in Path, p = path, handle.open,
         counted'[p] = counted[p] \o Rest,
         handles'[p].file = handles[p].file,
         handles'[p].pos = ReadOut(handles[p]).pos,
         UNCHANGED <<diskVars, skipped>>,
         Own(p)' \subseteq Own(p)
  PROVE  OrderOf(p)'
<1>1. ReadingInv /\ OrderOf(p)
  BY DEF OrderInv
<1>2. UNCHANGED <<at, content, written, writer, skipped>>
  BY DEF diskVars
<1>3. PICK f \in File : f = handles[p].file
  BY <1>1, ReadFacts
<1> DEFINE pos == handles[p].pos
           L == Len(content[f])
           c == counted[p]
           r == Rest
           d == c \o r
<1>4. /\ f # NoFile /\ f \in Own(p) /\ L \in Nat /\ pos \in Nat /\ written[p] \in Nat
      /\ skipped[p] \in Nat
      /\ c \in Seq(1..MaxEvents) /\ \A k \in 1..Len(c) : c[k] \in Nat
  BY <1>1, <1>3, ReadFacts, OwnFacts, NumberFacts
<1>5. /\ r \in Seq(1..MaxEvents)
      /\ Len(r) = IF pos >= L THEN 0 ELSE L - pos
      /\ \A j \in 1..Len(r) : pos + j \in 1..L /\ r[j] = content[f][pos + j]
      /\ \A j \in 1..Len(r) : r[j] \in Nat /\ Ahead(p, r[j]) /\ r[j] <= written[p]
      /\ Increasing(r)
  BY <1>3, RestIsAhead
<1>6. handles'[p].pos = IF pos > L THEN pos ELSE L
  BY <1>1, <1>3, ReadFacts
<1>7. \A j \in 1..Len(r) : r[j] > skipped[p] /\ \A k \in 1..Len(c) : c[k] < r[j]
  BY <1>5 DEF Ahead
<1> HIDE DEF r, c
<1>8. /\ Len(c) \in Nat /\ Len(r) \in Nat /\ Len(d) = Len(c) + Len(r)
      /\ \A k \in 1..Len(c) : d[k] = c[k]
      /\ \A j \in 1..Len(r) : d[Len(c) + j] = r[j]
      /\ \A k \in 1..Len(d) : k \in 1..Len(c) \/ \E j \in 1..Len(r) : k = Len(c) + j
  <2>1. c \in Seq(1..MaxEvents) /\ r \in Seq(1..MaxEvents)
    BY <1>4, <1>5
  <2>2. QED
    BY <2>1, ConcatElements
<1>9. counted'[p] = d
  BY DEF r, c
<1> HIDE DEF d, L, pos
<1>10. \A k \in 1..Len(c) : c[k] <= written[p] /\ c[k] > skipped[p]
  BY <1>1 DEF OrderOf, OnlyWritten, CountedInOrder, c
<1>11. \A k \in 1..Len(d) : d[k] <= written[p] /\ d[k] > skipped[p]
  BY <1>5, <1>7, <1>8, <1>10
<1>12. OnlyWritten(p)'
  BY <1>1, <1>2, <1>9, <1>11 DEF OrderOf, OnlyWritten
<1>13. Increasing(d)
  <2> SUFFICES ASSUME NEW i \in 1..Len(d), NEW j \in 1..Len(d), i < j
               PROVE  d[i] < d[j]
    BY DEF Increasing
  <2>1. CASE j \in 1..Len(c)
    <3>1. i \in 1..Len(c)
      BY <1>8, <2>1
    <3>2. Increasing(c)
      BY <1>1 DEF OrderOf, CountedInOrder, c
    <3>3. QED
      BY <1>8, <2>1, <3>1, <3>2 DEF Increasing
  <2>2. CASE j \notin 1..Len(c)
    <3>1. PICK y \in 1..Len(r) : j = Len(c) + y
      BY <1>8, <2>2
    <3>2. CASE i \in 1..Len(c)
      BY <1>7, <1>8, <3>1, <3>2
    <3>3. CASE i \notin 1..Len(c)
      <4>1. PICK x \in 1..Len(r) : i = Len(c) + x
        BY <1>8, <3>3
      <4>2. x < y
        BY <1>8, <3>1, <4>1
      <4>3. r[x] < r[y]
        BY <1>5, <4>2 DEF Increasing
      <4>4. QED
        BY <1>8, <3>1, <4>1, <4>3
    <3>4. QED
      BY <3>2, <3>3
  <2>3. QED
    BY <2>1, <2>2
<1>14. CountedInOrder(p)'
  BY <1>2, <1>9, <1>11, <1>13 DEF CountedInOrder
<1>15. UnreadAhead(p)'
  <2> SUFFICES ASSUME NEW i \in 1..L, i > handles'[p].pos \/ handles'[p].pos > L
               PROVE  Ahead(p, content[f][i])'
    BY <1>2, <1>3 DEF UnreadAhead, L
  <2>1. pos > L
    BY <1>4, <1>6
  <2>2. Len(r) = 0 /\ Len(d) = Len(c)
    BY <1>4, <1>5, <1>8, <2>1
  <2>3. Ahead(p, content[f][i])
    BY <1>1, <1>3, <1>4, <2>1 DEF OrderOf, UnreadAhead, L, pos
  <2>4. QED
    BY <1>2, <1>8, <1>9, <2>2, <2>3 DEF Ahead, c
<1>16. NextAhead(p)'
  <2> SUFFICES ASSUME NEW a \in File, a = at[p], a \notin {NoFile, f}
               PROVE  /\ AllAhead(p, a)'
                      /\ \A i \in 1..Len(content[a]) : \A j \in 1..L :
                           content[f][j] < content[a][i]
    <3>1. at[p] # NoFile => at[p] \in File
      BY <1>1, OwnFacts
    <3>2. QED
      BY <1>2, <1>3, <3>1 DEF NextAhead, AllAhead, L
  <2>1. /\ AllAhead(p, a)
        /\ \A i \in 1..Len(content[a]) : \A j \in 1..L : content[f][j] < content[a][i]
    BY <1>1, <1>3, <1>4 DEF OrderOf, NextAhead, L
  <2>2. ASSUME NEW i \in 1..Len(content[a])
        PROVE  /\ content[a][i] > skipped[p]
               /\ \A k \in 1..Len(d) : d[k] < content[a][i]
    <3>1. content[a][i] > skipped[p] /\ \A k \in 1..Len(c) : c[k] < content[a][i]
      BY <2>1 DEF AllAhead, Ahead, c
    <3>2. \A j \in 1..Len(r) : r[j] < content[a][i]
      BY <1>5, <2>1
    <3>3. QED
      BY <1>8, <3>1, <3>2
  <2>3. AllAhead(p, a)'
    BY <1>2, <1>9, <2>2 DEF AllAhead, Ahead
  <2>4. QED
    BY <2>1, <2>3
<1>17. QED
  BY <1>12, <1>14, <1>15, <1>16 DEF OrderOf

-----------------------------------------------------------------------------
(* The steps of the thread keep the order.                                 *)

\* What the thread leaves as it is, for a path it does not look at.
LEMMA OrderElsewhere ==
  ASSUME OrderInv, NEW q \in Path,
         UNCHANGED diskVars,
         handles'[q].file = handles[q].file, handles'[q].pos = handles[q].pos,
         counted'[q] = counted[q], skipped'[q] = skipped[q], drained'[q] = drained[q]
  PROVE  OrderOf(q)'
<1>1. Own(q)' \subseteq Own(q)
  BY DEF Own, diskVars
<1>2. ReadingInv /\ OrderOf(q)
  BY DEF OrderInv
<1>3. QED
  BY <1>1, <1>2, OrderKept DEF diskVars

LEMMA OrderStat ==
  ASSUME OrderInv, Stat
  PROVE  OrderInv'
<1>1. ReadingInv /\ KernelLogTypeOK /\ ReadingInv'
  BY ReadingStat DEF OrderInv, ReadingInv, LogTypeInv
<1>2. PICK p \in Path : p = path
  BY <1>1, TurnFacts
<1> DEFINE goes == step' \in {"drain", "consume"}
<1>3. /\ at[p] # NoFile
      /\ step' = IF handles[p] = NoHandle THEN "open"
                 ELSE IF Rotated(at[p]) THEN "drain"
                 ELSE IF Truncated(Len(content[at[p]])) THEN "open"
                 ELSE "consume"
      /\ handles' = [handles EXCEPT ![p] = [handles[p] EXCEPT !.open = goes]]
      /\ UNCHANGED <<diskVars, turn, files_ok, counted, faults, pastVars>>
  BY <1>2 DEF Stat, FirstSight, handle
<1>4. goes \in BOOLEAN
  OBVIOUS
<1> HIDE DEF goes
<1>5. handles \in [Path -> Handle] /\ handles[p] \in Handle
  BY <1>1 DEF KernelLogTypeOK, Handle
<1>6. /\ [handles[p] EXCEPT !.open = goes] \in Handle
      /\ [handles[p] EXCEPT !.open = goes].file = handles[p].file
      /\ [handles[p] EXCEPT !.open = goes].pos = handles[p].pos
  BY <1>4, <1>5 DEF Handle
<1>7. \A q \in Path : handles'[q].file = handles[q].file /\ handles'[q].pos = handles[q].pos
  BY <1>3, <1>5, <1>6, HandleSet
<1>8. ASSUME NEW q \in Path
      PROVE  OrderOf(q)'
  BY <1>3, <1>7, OrderElsewhere DEF pastVars
<1>9. OpenAhead'
  <2>1. path' = p /\ at'[p] = at[p]
    BY <1>2, <1>3 DEF path, diskVars
  <2>2. PICK a \in File : a = at[p]
    BY <1>1, <1>3, OwnFacts
  <2>3. ASSUME step' = "open"
        PROVE  AllAhead(p, a)
    <3> SUFFICES ASSUME NEW i \in 1..Len(content[a])
                 PROVE  Ahead(p, content[a][i])
      BY DEF AllAhead
    <3>1. CASE handles[p] = NoHandle
      <4>1. Len(counted[p]) = 0 /\ skipped[p] = 0
        BY <1>1, <3>1, EmptySeq DEF ReadingInv, LogTypeInv, Unseen, NoHandle
      <4>2. content[a][i] \in Nat /\ content[a][i] >= 1
        BY <1>1, NumberFacts
      <4>3. QED
        BY <4>1, <4>2 DEF Ahead
    <3>2. CASE handles[p] # NoHandle
      <4>1. handles[p].file = a /\ handles[p].pos > Len(content[a])
        BY <1>2, <1>3, <2>2, <2>3, <3>2 DEF Rotated, Truncated, handle
      <4>2. UnreadAhead(p) /\ a # NoFile
        BY <1>3, <2>2 DEF OrderInv, OrderOf
      <4>3. QED
        BY <4>1, <4>2 DEF UnreadAhead
    <3>3. QED
      BY <3>1, <3>2
  <2>4. step' = "drain" => at[p] # handles[p].file
    BY <1>2, <1>3 DEF Rotated, handle
  <2>5. UNCHANGED <<content, counted, skipped>>
    BY <1>3 DEF diskVars, pastVars
  <2>6. AllAhead(p, a) => AllAhead(p, a)'
    BY <2>5 DEF AllAhead, Ahead
  <2>7. step' = "drain" => at'[p] # handles'[p].file
    BY <1>7, <2>1, <2>4
  <2>8. QED
    BY <2>1, <2>2, <2>3, <2>6, <2>7 DEF OpenAhead, handle
<1>10. QED
  BY <1>1, <1>3, <1>8, <1>9 DEF OrderInv, diskVars

\* The thread dies, the path is not there, or a call fails.
LEMMA OrderStays ==
  ASSUME OrderInv, ReadingInv', step' \notin {"open", "drain"},
         UNCHANGED <<diskVars, handles, counted, pastVars>>
  PROVE  OrderInv'
<1>1. ASSUME NEW q \in Path
      PROVE  OrderOf(q)'
  BY OrderElsewhere DEF pastVars
<1>2. OpenAhead'
  BY DEF OpenAhead
<1>3. QED
  BY <1>1, <1>2 DEF OrderInv, diskVars

LEMMA OrderDrain ==
  ASSUME OrderInv, Drain
  PROVE  OrderInv'
<1>1. ReadingInv /\ KernelLogTypeOK /\ ReadingInv'
  BY ReadingDrain DEF OrderInv, ReadingInv, LogTypeInv
<1>2. PICK p \in Path : p = path
  BY <1>1, TurnFacts
<1>3. /\ step = "drain" /\ step' = "open"
      /\ counted' = [counted EXCEPT ![p] = counted[p] \o Rest]
      /\ handles' = [handles EXCEPT ![p] = [ReadOut(handles[p]) EXCEPT !.open = FALSE]]
      /\ drained' = [drained EXCEPT ![p] = drained[p] \cup {handles[p].file}]
      /\ UNCHANGED <<diskVars, turn, files_ok, faults, due, skipped, cut>>
  BY <1>2 DEF Drain, LastWords, handle
<1>4. handle.open /\ handle = handles[p]
  BY <1>1, <1>2, <1>3 DEF ReadingInv, Reading, handle
<1>5. /\ handles[p].file \in File /\ handles[p].file # NoFile
      /\ ReadOut(handles[p]) \in Handle
      /\ ReadOut(handles[p]).file = handles[p].file
  BY <1>1, <1>2, <1>4, ReadFacts
<1> DEFINE h == [ReadOut(handles[p]) EXCEPT !.open = FALSE]
<1>6. h \in Handle /\ h.file = handles[p].file /\ h.pos = ReadOut(handles[p]).pos
  BY <1>5 DEF Handle
<1>7. handles \in [Path -> Handle] /\ handles' = [handles EXCEPT ![p] = h]
  BY <1>1, <1>3 DEF KernelLogTypeOK, Handle
<1> HIDE DEF h
<1>8. handles'[p] = h /\ \A q \in Path : q # p => handles'[q] = handles[q]
  BY <1>6, <1>7, HandleSet
<1>9. /\ counted'[p] = counted[p] \o Rest /\ drained'[p] = drained[p] \cup {handles[p].file}
      /\ \A q \in Path : q # p => counted'[q] = counted[q] /\ drained'[q] = drained[q]
  BY <1>1, <1>3 DEF KernelLogTypeOK
<1>10. ASSUME NEW q \in Path, q # p
       PROVE  OrderOf(q)'
  BY <1>3, <1>8, <1>9, <1>10, OrderElsewhere
<1>11. OrderOf(p)'
  <2>1. Own(p)' \subseteq Own(p)
    BY <1>3, <1>6, <1>8, <1>9 DEF Own, diskVars
  <2>2. QED
    BY <1>2, <1>3, <1>4, <1>6, <1>8, <1>9, <2>1, OrderRead
<1>12. OpenAhead'
  <2>1. path' = p /\ at' = at
    BY <1>2, <1>3 DEF path, diskVars
  <2>2. at[p] # handles[p].file
    BY <1>3, <1>4, <1>2 DEF OrderInv, OpenAhead
  <2>3. NextAhead(p)'
    BY <1>11 DEF OrderOf
  <2>4. at[p] # NoFile => AllAhead(p, at[p])'
    BY <1>5, <1>6, <1>8, <2>1, <2>2, <2>3 DEF NextAhead
  <2>5. QED
    BY <1>3, <2>1, <2>4 DEF OpenAhead
<1>13. QED
  BY <1>1, <1>3, <1>10, <1>11, <1>12 DEF OrderInv, diskVars

LEMMA OrderConsume ==
  ASSUME OrderInv, Consume
  PROVE  OrderInv'
<1>1. ReadingInv /\ KernelLogTypeOK /\ ReadingInv'
  BY ReadingConsume DEF OrderInv, ReadingInv, LogTypeInv
<1>2. PICK p \in Path : p = path
  BY <1>1, TurnFacts
<1> DEFINE h == ReadOut(handles[p])
<1>3. /\ step = "consume" /\ NextPath("ok")
      /\ counted' = [counted EXCEPT ![p] = counted[p] \o Rest]
      /\ handles' = [handles EXCEPT ![p] = h]
      /\ UNCHANGED <<diskVars, faults, pastVars>>
  BY <1>2 DEF Consume
<1>4. handle.open
  BY <1>1, <1>3 DEF ReadingInv, Reading
<1>5. h \in Handle /\ h.file = handles[p].file
  BY <1>1, <1>2, <1>4, ReadFacts
<1> HIDE DEF h
<1>6. handles \in [Path -> Handle]
  BY <1>1 DEF KernelLogTypeOK, Handle
<1>7. handles'[p] = h /\ \A q \in Path : q # p => handles'[q] = handles[q]
  BY <1>3, <1>5, <1>6, HandleSet
<1>8. /\ counted'[p] = counted[p] \o Rest
      /\ \A q \in Path : q # p => counted'[q] = counted[q]
  BY <1>1, <1>3 DEF KernelLogTypeOK
<1>9. UNCHANGED <<skipped, drained>> /\ step' = "stat"
  BY <1>3 DEF pastVars, NextPath
<1>10. ASSUME NEW q \in Path, q # p
       PROVE  OrderOf(q)'
  BY <1>3, <1>7, <1>8, <1>9, <1>10, OrderElsewhere
<1>11. OrderOf(p)'
  <2>1. Own(p)' \subseteq Own(p)
    BY <1>3, <1>5, <1>7, <1>9 DEF Own, diskVars
  <2>2. QED
    BY <1>2, <1>3, <1>4, <1>5, <1>7, <1>8, <1>9, <2>1, OrderRead DEF h
<1>12. OpenAhead'
  BY <1>9 DEF OpenAhead
<1>13. QED
  BY <1>1, <1>3, <1>10, <1>11, <1>12 DEF OrderInv, diskVars

LEMMA OrderOpen ==
  ASSUME OrderInv, Open
  PROVE  OrderInv'
<1>1. ReadingInv /\ KernelLogTypeOK /\ ReadingInv'
  BY ReadingOpen DEF OrderInv, ReadingInv, LogTypeInv
<1>2. PICK p \in Path : p = path
  BY <1>1, TurnFacts
<1>3. PICK a \in File : a = at[p]
  BY <1>1, <1>2, OwnFacts DEF Open
<1> DEFINE first == handles[p] = NoHandle /\ ~FROM_START
           pos == IF first THEN Len(content[a]) ELSE 0
           h == [file |-> a, pos |-> pos, open |-> TRUE]
<1>4. /\ step = "open" /\ step' = "consume" /\ a # NoFile
      /\ handles' = [handles EXCEPT ![p] = h]
      /\ skipped' = [skipped EXCEPT ![p] = IF first THEN written[p] ELSE skipped[p]]
      /\ UNCHANGED <<diskVars, turn, files_ok, counted, faults, due, drained, cut>>
  BY <1>2, <1>3 DEF Open, StartOf, SkipsBacklog, FirstSight, handle
<1>5. pos \in 0..MaxEvents
  <2>1. Len(content[a]) \in Nat /\ Len(content[a]) <= MaxEvents
    BY <1>1, NumberFacts DEF ReadingInv, LogTypeInv, Lengths
  <2>2. QED
    BY <2>1, Bounds
<1> HIDE DEF pos, first
<1>6. h \in Handle /\ h.file = a /\ h.pos = pos
  BY <1>5 DEF Handle
<1>7. handles \in [Path -> Handle]
  BY <1>1 DEF KernelLogTypeOK, Handle
<1> HIDE DEF h
<1>8. handles'[p] = h /\ \A q \in Path : q # p => handles'[q] = handles[q]
  BY <1>4, <1>6, <1>7, HandleSet
<1>9. /\ skipped'[p] = IF first THEN written[p] ELSE skipped[p]
      /\ \A q \in Path : q # p => skipped'[q] = skipped[q]
  BY <1>1, <1>4 DEF KernelLogTypeOK
<1>10. ASSUME NEW q \in Path, q # p
       PROVE  OrderOf(q)'
  BY <1>4, <1>8, <1>9, <1>10, OrderElsewhere
<1>11. first => counted[p] = <<>> /\ Len(counted[p]) = 0
  BY <1>1, EmptySeq DEF first, ReadingInv, LogTypeInv, Unseen, NoHandle
<1>12. UNCHANGED <<at, content, written, writer>>
  BY <1>4 DEF diskVars
<1>13. written[p] \in Nat /\ skipped[p] \in Nat /\ OrderOf(p)
  BY <1>1, NumberFacts DEF OrderInv
<1>14. OnlyWritten(p)'
  <2>1. Own(p)' \subseteq Own(p)
    BY <1>3, <1>4, <1>6, <1>8, <1>12 DEF Own
  <2>2. skipped'[p] <= written[p]
    BY <1>9, <1>13 DEF OrderOf, OnlyWritten
  <2>3. QED
    BY <1>4, <1>12, <1>13, <2>1, <2>2 DEF OrderOf, OnlyWritten
<1>15. CountedInOrder(p)'
  BY <1>4, <1>9, <1>11, <1>13 DEF OrderOf, CountedInOrder
<1>16. UnreadAhead(p)'
  <2> SUFFICES ASSUME NEW i \in 1..Len(content[a]), i > pos \/ pos > Len(content[a])
               PROVE  Ahead(p, content[a][i])'
    BY <1>6, <1>8, <1>12 DEF UnreadAhead
  <2>1. Len(content[a]) \in Nat
    BY <1>1, NumberFacts
  <2>2. ~first
    BY <2>1 DEF pos
  <2>3. Ahead(p, content[a][i])
    BY <1>2, <1>3, <1>4 DEF OrderInv, OpenAhead, AllAhead
  <2>4. QED
    BY <1>4, <1>9, <1>12, <2>2, <2>3 DEF Ahead
<1>17. NextAhead(p)'
  BY <1>3, <1>6, <1>8, <1>12 DEF NextAhead
<1>18. OrderOf(p)'
  BY <1>14, <1>15, <1>16, <1>17 DEF OrderOf
<1>19. OpenAhead'
  BY <1>4 DEF OpenAhead
<1>20. QED
  BY <1>1, <1>10, <1>12, <1>18, <1>19 DEF OrderInv

LEMMA OrderStep ==
  ASSUME OrderInv, [KernelLogNext]_kernelLogVars
  PROVE  OrderInv'
<1>1. ReadingInv'
  BY ReadingStep DEF OrderInv
<1>2. ASSUME UNCHANGED <<at, content, files, writer, written, threadVars, pastVars>>
      PROVE  OrderInv'
  <2>1. UNCHANGED <<step, turn, handles, counted, skipped, drained>>
    BY <1>2 DEF threadVars, pastVars
  <2>2. ASSUME NEW q \in Path
        PROVE  OrderOf(q)'
    <3>1. Own(q)' \subseteq Own(q)
      BY <1>2, <2>1 DEF Own
    <3>2. QED
      BY <1>2, <2>1, <3>1, OrderKept DEF OrderInv
  <2>3. OpenAhead'
    BY <1>2, <2>1 DEF OrderInv, OpenAhead, handle, path, AllAhead, Ahead
  <2>4. QED
    BY <1>1, <1>2, <2>2, <2>3 DEF OrderInv
<1>3. CASE KernelPrints \/ UNCHANGED kernelLogVars
  BY <1>2, <1>3 DEF KernelPrints, kernelLogVars, diskVars
<1>4. ASSUME NEW p \in Path,
             WriteLine(p) \/ Rename(p) \/ Create(p) \/ Reopen(p) \/ CutDown(p)
      PROVE  OrderInv'
  BY <1>4, OrderWrite, OrderRename, OrderCreate, OrderReopen, OrderCut
<1>5. CASE Dies \/ NotThere \/ CallFails
  BY <1>1, <1>5, OrderStays DEF Dies, NotThere, CallFails, NextPath
<1>6. CASE Stat \/ Drain \/ Open \/ Consume
  BY <1>6, OrderStat, OrderDrain, OrderOpen, OrderConsume
<1>7. QED
  BY <1>3, <1>4, <1>5, <1>6 DEF KernelLogNext, ThreadGoes, World

(* However often a file is rotated, truncated or reopened, and whatever     *)
(* fails, no line of a path is counted twice or out of order, and none from *)
(* before its first sight: the lines behind the offset, and those of the    *)
(* file that comes next, are later than every line counted.                 *)
THEOREM CountedOnceHolds == KernelLogSpec => []CountedOnce
<1>1. ASSUME OrderInv PROVE CountedOnce
  <2> SUFFICES ASSUME NEW p \in Path, NEW i \in 1..Len(counted[p])
               PROVE  /\ counted[p][i] > skipped[p]
                      /\ i > 1 => counted[p][i] > counted[p][i - 1]
    BY DEF CountedOnce
  <2>1. CountedInOrder(p) /\ ReadingInv
    BY <1>1 DEF OrderInv, OrderOf
  <2>2. Len(counted[p]) \in Nat /\ \A k \in 1..Len(counted[p]) : counted[p][k] \in Nat
    BY <2>1, NumberFacts
  <2>3. ASSUME i > 1
        PROVE  counted[p][i] > counted[p][i - 1]
    <3>1. i - 1 \in 1..Len(counted[p]) /\ i - 1 < i
      BY <2>2, <2>3
    <3>2. counted[p][i - 1] < counted[p][i]
      BY <2>1, <3>1 DEF CountedInOrder, Increasing
    <3>3. QED
      BY <2>2, <3>1, <3>2
  <2>4. QED
    BY <2>1, <2>3 DEF CountedInOrder
<1>2. QED
  BY <1>1, OrderInit, OrderStep, PTL DEF KernelLogSpec

-----------------------------------------------------------------------------
(* What a file that is rotated away leaves behind.                         *)

LEMMA Members ==
  ASSUME NEW S, NEW s \in Seq(S), NEW e
  PROVE  e \in ToSet(s) <=> \E i \in 1..Len(s) : e = s[i]
BY LenProperties DEF ToSet

LEMMA LeftInit == KernelLogInit => LeftInv
<1> SUFFICES ASSUME KernelLogInit PROVE LeftInv
  OBVIOUS
<1>1. OrderInv /\ ReadingInv
  BY OrderInit DEF OrderInv
<1>2. /\ handles = [p \in Path |-> NoHandle]
      /\ due = [f \in File |-> {}] /\ drained = [p \in Path |-> {}]
  BY DEF KernelLogInit
<1>3. QED
  BY <1>1, <1>2
     DEF LeftInv, ReadIsCounted, DueIsThere, NoWayBack, NothingLeftBehind, NoHandle

\* Neither the files nor the offsets change.
LEMMA LeftKept ==
  ASSUME LeftInv, OrderInv', UNCHANGED <<at, content, counted, pastVars>>,
         \A q \in Path :
           handles'[q].file = handles[q].file /\ handles'[q].pos = handles[q].pos
  PROVE  LeftInv'
<1>1. UNCHANGED <<due, skipped, drained, cut>>
  BY DEF pastVars
<1>2. ReadIsCounted'
  BY <1>1 DEF LeftInv, ReadIsCounted, Uncut
<1>3. DueIsThere' /\ NoWayBack' /\ NothingLeftBehind'
  BY <1>1 DEF LeftInv, DueIsThere, Uncut, NoWayBack, NothingLeftBehind
<1>4. QED
  BY <1>2, <1>3 DEF LeftInv

LEMMA LeftWrite ==
  ASSUME LeftInv, NEW p \in Path, WriteLine(p)
  PROVE  LeftInv'
<1>1. OrderInv' /\ ReadingInv /\ KernelLogTypeOK
  BY OrderWrite DEF LeftInv, OrderInv, ReadingInv, LogTypeInv
<1>2. PICK w \in File : w = writer[p]
  BY <1>1, OwnFacts
<1> DEFINE line == written[p] + 1
           L == Len(content[w])
<1>3. /\ written[p] < events
      /\ content' = [content EXCEPT ![w] = Append(content[w], line)]
      /\ UNCHANGED <<at, threadVars, pastVars>>
  BY <1>2 DEF WriteLine
<1>4. UNCHANGED <<handles, counted, due, skipped, drained, cut>>
  BY <1>3 DEF threadVars, pastVars
<1>5. content[w] \in Seq(1..MaxEvents) /\ L \in Nat
  BY <1>1, NumberFacts
<1>6. line \in 1..MaxEvents
  BY <1>1, <1>3, Bounds DEF KernelLogTypeOK
<1> HIDE DEF line
<1>7. /\ content'[w] \in Seq(1..MaxEvents)
      /\ Len(content'[w]) = L + 1
      /\ \A i \in 1..L : content'[w][i] = content[w][i]
      /\ \A f \in File : f # w => content'[f] = content[f]
  BY <1>1, <1>3, <1>5, <1>6, AppendProperties DEF KernelLogTypeOK
<1> HIDE DEF L
<1>8. ASSUME NEW f \in File
      PROVE  /\ Len(content[f]) \in Nat /\ Len(content'[f]) \in Nat
             /\ Len(content[f]) <= Len(content'[f])
             /\ \A i \in 1..Len(content[f]) : content'[f][i] = content[f][i]
             /\ ToSet(content[f]) \subseteq ToSet(content'[f])
  <2>1. Len(content[f]) \in Nat
    BY <1>1, NumberFacts
  <2>2. CASE f # w
    BY <1>7, <2>1, <2>2
  <2>3. CASE f = w
    <3>1. Len(content[w]) <= Len(content'[w]) /\ Len(content'[w]) \in Nat
      BY <1>5, <1>7 DEF L
    <3>2. ASSUME NEW e \in ToSet(content[w])
          PROVE  e \in ToSet(content'[w])
      <4>1. PICK i \in 1..L : e = content[w][i]
        BY <1>5, Members DEF L
      <4>2. i \in 1..Len(content'[w]) /\ e = content'[w][i]
        BY <1>5, <1>7, <4>1
      <4>3. QED
        BY <1>7, <4>2, Members
    <3>3. QED
      BY <1>7, <2>1, <2>3, <3>1, <3>2 DEF L
  <2>4. QED
    BY <2>2, <2>3
<1>9. ReadIsCounted'
  <2> SUFFICES ASSUME NEW q \in Path, NEW f \in File, f = handles[q].file,
                      f # NoFile, Uncut(f)
               PROVE  /\ handles[q].pos <= Len(content'[f])
                      /\ \A i \in 1..handles[q].pos :
                           content'[f][i] > skipped[q] => content'[f][i] \in ToSet(counted[q])
    BY <1>1, <1>4, OwnFacts DEF ReadIsCounted, Uncut
  <2>1. /\ handles[q].pos <= Len(content[f])
        /\ \A i \in 1..handles[q].pos :
             content[f][i] > skipped[q] => content[f][i] \in ToSet(counted[q])
    BY DEF LeftInv, ReadIsCounted
  <2>2. handles[q].pos \in Nat
    BY <1>1, NumberFacts
  <2>3. \A i \in 1..handles[q].pos : content'[f][i] = content[f][i]
    BY <1>8, <2>1, <2>2
  <2>4. handles[q].pos <= Len(content'[f])
    BY <1>8, <2>1, <2>2
  <2>5. QED
    BY <2>1, <2>3, <2>4
<1>10. DueIsThere'
  BY <1>4, <1>8 DEF LeftInv, DueIsThere, Uncut
<1>11. NoWayBack' /\ NothingLeftBehind'
  BY <1>3, <1>4 DEF LeftInv, NoWayBack, NothingLeftBehind
<1>12. QED
  BY <1>1, <1>9, <1>10, <1>11 DEF LeftInv

LEMMA LeftRename ==
  ASSUME LeftInv, NEW p \in Path, Rename(p)
  PROVE  LeftInv'
<1>1. OrderInv' /\ ReadingInv /\ KernelLogTypeOK
  BY OrderRename DEF LeftInv, OrderInv, ReadingInv, LogTypeInv
<1>2. PICK a \in File : a = at[p]
  BY <1>1, OwnFacts DEF Rename
<1>3. /\ a # NoFile
      /\ at' = [at EXCEPT ![p] = NoFile]
      /\ due' = [due EXCEPT ![a] = ToSet(content[a])]
      /\ UNCHANGED <<content, threadVars, skipped, drained, cut>>
  BY <1>2 DEF Rename
<1>4. UNCHANGED <<handles, counted>>
  BY <1>3 DEF threadVars
<1>5. /\ at'[p] = NoFile
      /\ \A q \in Path : q # p => at'[q] = at[q]
      /\ due'[a] = ToSet(content[a])
      /\ \A f \in File : f # a => due'[f] = due[f]
  BY <1>1, <1>3 DEF KernelLogTypeOK
<1>6. ReadIsCounted'
  BY <1>3, <1>4 DEF LeftInv, ReadIsCounted, Uncut
<1>7. DueIsThere'
  BY <1>3, <1>5 DEF LeftInv, DueIsThere, Uncut
<1>8. NoWayBack'
  <2>1. NoFile \notin drained[p]
    BY <1>1 DEF KernelLogTypeOK, File, NoFile
  <2>2. QED
    BY <1>3, <1>5, <2>1 DEF LeftInv, NoWayBack
<1>9. NothingLeftBehind'
  <2>1. ASSUME NEW q \in Path, NEW f \in drained[q]
        PROVE  f \in File /\ f # a
    <3>1. f \in File /\ f # NoFile
      BY <1>1 DEF KernelLogTypeOK, File, NoFile
    <3>2. f \in Own(q)
      BY <3>1 DEF Own
    <3>3. a \in Own(p) /\ (q # p => Own(p) \cap Own(q) = {})
      BY <1>1, <1>2, <1>3, OwnFacts
    <3>4. q = p => f # a
      BY <1>2 DEF LeftInv, NoWayBack
    <3>5. QED
      BY <3>1, <3>2, <3>3, <3>4
  <2>2. QED
    BY <1>3, <1>4, <1>5, <2>1 DEF LeftInv, NothingLeftBehind
<1>10. QED
  BY <1>1, <1>6, <1>7, <1>8, <1>9 DEF LeftInv

LEMMA LeftCreate ==
  ASSUME LeftInv, NEW p \in Path, Create(p)
  PROVE  LeftInv'
<1>1. OrderInv' /\ ReadingInv /\ KernelLogTypeOK
  BY OrderCreate DEF LeftInv, OrderInv, ReadingInv, LogTypeInv
<1>2. /\ at' = [at EXCEPT ![p] = files + 1]
      /\ UNCHANGED <<content, handles, counted, due, skipped, drained, cut>>
  BY DEF Create, threadVars, pastVars
<1>3. at'[p] = files + 1 /\ \A q \in Path : q # p => at'[q] = at[q]
  BY <1>1, <1>2 DEF KernelLogTypeOK
<1>4. files + 1 \notin drained[p]
  <2> SUFFICES ASSUME files + 1 \in drained[p] PROVE FALSE
    OBVIOUS
  <2>1. files \in Nat
    BY <1>1, Bounds DEF KernelLogTypeOK
  <2>2. files + 1 \in Own(p)
    BY <2>1 DEF Own, NoFile
  <2>3. files + 1 <= files
    BY <1>1, <2>2, OwnFacts
  <2>4. QED
    BY <2>1, <2>3
<1>5. NoWayBack'
  BY <1>2, <1>3, <1>4 DEF LeftInv, NoWayBack
<1>6. ReadIsCounted' /\ DueIsThere' /\ NothingLeftBehind'
  BY <1>2 DEF LeftInv, ReadIsCounted, DueIsThere, NothingLeftBehind, Uncut
<1>7. QED
  BY <1>1, <1>5, <1>6 DEF LeftInv

LEMMA LeftCut ==
  ASSUME LeftInv, NEW p \in Path, CutDown(p)
  PROVE  LeftInv'
<1>1. OrderInv' /\ ReadingInv /\ KernelLogTypeOK
  BY OrderCut DEF LeftInv, OrderInv, ReadingInv, LogTypeInv
<1>2. PICK a \in File : a = at[p]
  BY <1>1, OwnFacts DEF CutDown
<1>3. /\ cut' = Append(cut, a)
      /\ content' = [content EXCEPT ![a] = <<>>]
      /\ UNCHANGED <<at, threadVars, due, skipped, drained>>
  BY <1>2 DEF CutDown
<1>4. UNCHANGED <<handles, counted>>
  BY <1>3 DEF threadVars
<1>5. \A f \in File : f # a => content'[f] = content[f]
  BY <1>1, <1>3 DEF KernelLogTypeOK
<1>6. ToSet(cut') = ToSet(cut) \cup {a}
  <2>1. cut \in Seq(File)
    BY <1>1 DEF KernelLogTypeOK
  <2>2. /\ cut' \in Seq(File) /\ Len(cut) \in Nat /\ Len(cut') = Len(cut) + 1
        /\ \A i \in 1..Len(cut) : cut'[i] = cut[i]
        /\ cut'[Len(cut) + 1] = a
    BY <1>3, <2>1, AppendProperties, LenProperties
  <2>3. \A e : e \in ToSet(cut) <=> \E i \in 1..Len(cut) : e = cut[i]
    BY <2>1, Members
  <2>4. \A e : e \in ToSet(cut') <=> \E i \in 1..Len(cut') : e = cut'[i]
    BY <2>2, Members
  <2>5. ASSUME NEW e
        PROVE  (\E i \in 1..Len(cut') : e = cut'[i])
                 <=> ((\E i \in 1..Len(cut) : e = cut[i]) \/ e = a)
    BY <2>2
  <2>6. QED
    BY <2>3, <2>4, <2>5
<1>7. \A f \in File : Uncut(f)' => Uncut(f) /\ content'[f] = content[f]
  BY <1>5, <1>6 DEF Uncut
<1>8. \A q \in Path : handles[q].file # NoFile => handles[q].file \in File
  BY <1>1, OwnFacts
<1>9. ReadIsCounted'
  BY <1>3, <1>4, <1>7, <1>8 DEF LeftInv, ReadIsCounted, Uncut
<1>10. DueIsThere' /\ NoWayBack' /\ NothingLeftBehind'
  BY <1>3, <1>4, <1>6, <1>7 DEF LeftInv, DueIsThere, NoWayBack, NothingLeftBehind, Uncut
<1>11. QED
  BY <1>1, <1>9, <1>10 DEF LeftInv

\* After a reading to the end every line of the file is counted, or was skipped.
LEMMA LeftRead ==
  ASSUME LeftInv, NEW p \in Path, p = path, handle.open,
         counted'[p] = counted[p] \o Rest
  PROVE  LET f == handles[p].file IN
         /\ \A e \in ToSet(counted[p]) : e \in ToSet(counted'[p])
         /\ Uncut(f) =>
              /\ ReadOut(handles[p]).pos = Len(content[f])
              /\ \A i \in 1..Len(content[f]) :
                   content[f][i] > skipped[p] => content[f][i] \in ToSet(counted'[p])
<1>1. OrderInv /\ ReadingInv
  BY DEF LeftInv, OrderInv
<1>2. PICK f \in File : f = handles[p].file
  BY <1>1, ReadFacts
<1> DEFINE pos == handles[p].pos
           L == Len(content[f])
           c == counted[p]
           r == Rest
           d == c \o r
<1>3. f # NoFile /\ L \in Nat /\ pos \in Nat /\ c \in Seq(1..MaxEvents)
  BY <1>1, <1>2, ReadFacts, NumberFacts
<1>4. /\ r \in Seq(1..MaxEvents)
      /\ Len(r) = IF pos >= L THEN 0 ELSE L - pos
      /\ \A j \in 1..Len(r) : r[j] = content[f][pos + j]
  BY <1>1, <1>2, RestIsAhead
<1>5. ReadOut(handles[p]).pos = IF pos > L THEN pos ELSE L
  BY <1>1, <1>2, ReadFacts
<1>6. Uncut(f) =>
        /\ pos <= L
        /\ \A i \in 1..pos : content[f][i] > skipped[p] => content[f][i] \in ToSet(c)
  BY <1>2, <1>3 DEF LeftInv, ReadIsCounted
<1> HIDE DEF r, c
<1>7. /\ d \in Seq(1..MaxEvents)
      /\ Len(c) \in Nat /\ Len(r) \in Nat /\ Len(d) = Len(c) + Len(r)
      /\ \A k \in 1..Len(c) : d[k] = c[k]
      /\ \A j \in 1..Len(r) : d[Len(c) + j] = r[j]
  <2>1. c \in Seq(1..MaxEvents) /\ r \in Seq(1..MaxEvents)
    BY <1>3, <1>4
  <2>2. QED
    BY <2>1, ConcatElements
<1>8. counted'[p] = d
  BY DEF r, c
<1> HIDE DEF d, L, pos
<1>9. ASSUME NEW e \in ToSet(c)
      PROVE  e \in ToSet(d)
  <2>1. PICK k \in 1..Len(c) : e = c[k]
    BY <1>3, Members
  <2>2. k \in 1..Len(d) /\ e = d[k]
    BY <1>7, <2>1
  <2>3. QED
    BY <1>7, <2>2, Members
<1>10. ASSUME Uncut(f), NEW i \in 1..L, content[f][i] > skipped[p]
       PROVE  content[f][i] \in ToSet(d)
  <2>1. CASE i <= pos
    <3>1. i \in 1..pos
      BY <1>3, <2>1
    <3>2. QED
      BY <1>6, <1>9, <1>10, <3>1
  <2>2. CASE i > pos
    <3>1. PICK j \in 1..Len(r) : pos + j = i
      <4>1. i - pos \in 1..Len(r) /\ pos + (i - pos) = i
        BY <1>3, <1>4, <2>2
      <4>2. QED
        BY <4>1
    <3>2. Len(c) + j \in 1..Len(d) /\ content[f][i] = d[Len(c) + j]
      BY <1>4, <1>7, <3>1
    <3>3. QED
      BY <1>7, <3>2, Members
  <2>3. QED
    BY <1>3, <2>1, <2>2
<1>11. Uncut(f) => ReadOut(handles[p]).pos = L
  BY <1>3, <1>5, <1>6
<1>12. QED
  BY <1>2, <1>8, <1>9, <1>10, <1>11 DEF c, L

LEMMA LeftDrain ==
  ASSUME LeftInv, Drain
  PROVE  LeftInv'
<1>1. OrderInv /\ OrderInv' /\ ReadingInv /\ KernelLogTypeOK
  BY OrderDrain DEF LeftInv, OrderInv, ReadingInv, LogTypeInv
<1>2. PICK p \in Path : p = path
  BY <1>1, TurnFacts
<1>3. /\ step = "drain"
      /\ counted' = [counted EXCEPT ![p] = counted[p] \o Rest]
      /\ handles' = [handles EXCEPT ![p] = [ReadOut(handles[p]) EXCEPT !.open = FALSE]]
      /\ drained' = [drained EXCEPT ![p] = drained[p] \cup {handles[p].file}]
      /\ UNCHANGED <<diskVars, due, skipped, cut>>
  BY <1>2 DEF Drain, LastWords, handle
<1>4. handle.open /\ handle = handles[p]
  BY <1>1, <1>2, <1>3 DEF ReadingInv, Reading, handle
<1>5. PICK f \in File : f = handles[p].file
  BY <1>1, <1>2, <1>4, ReadFacts
<1>6. ReadOut(handles[p]) \in Handle /\ ReadOut(handles[p]).file = f
  BY <1>1, <1>2, <1>4, <1>5, ReadFacts
<1> DEFINE h == [ReadOut(handles[p]) EXCEPT !.open = FALSE]
<1>7. h \in Handle /\ h.file = f /\ h.pos = ReadOut(handles[p]).pos
  BY <1>6 DEF Handle
<1>8. handles \in [Path -> Handle] /\ handles' = [handles EXCEPT ![p] = h]
  BY <1>1, <1>3 DEF KernelLogTypeOK, Handle
<1> HIDE DEF h
<1>9. handles'[p] = h /\ \A q \in Path : q # p => handles'[q] = handles[q]
  BY <1>7, <1>8, HandleSet
<1>10. /\ counted'[p] = counted[p] \o Rest /\ drained'[p] = drained[p] \cup {f}
       /\ \A q \in Path : q # p => counted'[q] = counted[q] /\ drained'[q] = drained[q]
       /\ UNCHANGED <<at, content, skipped, due, cut>>
  BY <1>1, <1>3, <1>5 DEF KernelLogTypeOK, diskVars
<1>11. /\ \A e \in ToSet(counted[p]) : e \in ToSet(counted'[p])
       /\ Uncut(f) =>
            /\ h.pos = Len(content[f])
            /\ \A i \in 1..Len(content[f]) :
                 content[f][i] > skipped[p] => content[f][i] \in ToSet(counted'[p])
  BY <1>2, <1>4, <1>5, <1>7, <1>10, LeftRead
<1>12. content[f] \in Seq(1..MaxEvents) /\ Len(content[f]) \in Nat
  BY <1>1, NumberFacts
<1>13. ReadIsCounted'
  <2>1. ASSUME NEW q \in Path, handles'[q].file # NoFile, Uncut(handles'[q].file)
        PROVE  /\ handles'[q].pos <= Len(content[handles'[q].file])
               /\ \A i \in 1..handles'[q].pos :
                    content[handles'[q].file][i] > skipped[q]
                      => content[handles'[q].file][i] \in ToSet(counted'[q])
    <3>1. CASE q = p
      BY <1>7, <1>9, <1>11, <1>12, <2>1, <3>1
    <3>2. CASE q # p
      BY <1>9, <1>10, <2>1, <3>2 DEF LeftInv, ReadIsCounted
    <3>3. QED
      BY <3>1, <3>2
  <2>2. QED
    BY <1>10, <2>1 DEF ReadIsCounted, Uncut
<1>14. DueIsThere'
  BY <1>10 DEF LeftInv, DueIsThere, Uncut
<1>15. NoWayBack'
  <2>1. at[p] # f
    BY <1>2, <1>3, <1>4, <1>5 DEF LeftInv, OrderInv, OpenAhead
  <2>2. QED
    BY <1>10, <2>1 DEF LeftInv, NoWayBack
<1>16. NothingLeftBehind'
  <2> SUFFICES ASSUME NEW q \in Path, NEW g \in drained'[q] \ ToSet(cut),
                      NEW e \in due[g], e > skipped[q]
               PROVE  e \in ToSet(counted'[q])
    BY <1>10 DEF NothingLeftBehind
  <2>1. CASE g \in drained[q]
    <3>1. e \in ToSet(counted[q])
      BY <2>1 DEF LeftInv, NothingLeftBehind
    <3>2. QED
      BY <1>10, <1>11, <3>1
  <2>2. CASE g \notin drained[q]
    <3>1. q = p /\ g = f /\ Uncut(f)
      BY <1>10, <2>2 DEF Uncut
    <3>2. e \in ToSet(content[f])
      BY <3>1 DEF LeftInv, DueIsThere
    <3>3. PICK i \in 1..Len(content[f]) : e = content[f][i]
      BY <1>12, <3>2, Members
    <3>4. QED
      BY <1>11, <3>1, <3>3
  <2>3. QED
    BY <2>1, <2>2
<1>17. QED
  BY <1>1, <1>13, <1>14, <1>15, <1>16 DEF LeftInv

LEMMA LeftConsume ==
  ASSUME LeftInv, Consume
  PROVE  LeftInv'
<1>1. OrderInv /\ OrderInv' /\ ReadingInv /\ KernelLogTypeOK
  BY OrderConsume DEF LeftInv, OrderInv, ReadingInv, LogTypeInv
<1>2. PICK p \in Path : p = path
  BY <1>1, TurnFacts
<1> DEFINE h == ReadOut(handles[p])
<1>3. /\ step = "consume"
      /\ counted' = [counted EXCEPT ![p] = counted[p] \o Rest]
      /\ handles' = [handles EXCEPT ![p] = h]
      /\ UNCHANGED <<diskVars, pastVars>>
  BY <1>2 DEF Consume
<1>4. handle.open
  BY <1>1, <1>3 DEF ReadingInv, Reading
<1>5. PICK f \in File : f = handles[p].file
  BY <1>1, <1>2, <1>4, ReadFacts
<1>6. h \in Handle /\ h.file = f
  BY <1>1, <1>2, <1>4, <1>5, ReadFacts
<1>7. handles \in [Path -> Handle]
  BY <1>1 DEF KernelLogTypeOK, Handle
<1>8. /\ counted'[p] = counted[p] \o Rest
      /\ \A q \in Path : q # p => counted'[q] = counted[q]
      /\ UNCHANGED <<at, content, skipped, due, cut, drained>>
  BY <1>1, <1>3 DEF KernelLogTypeOK, diskVars, pastVars
<1>9. /\ \A e \in ToSet(counted[p]) : e \in ToSet(counted'[p])
      /\ Uncut(f) =>
           /\ h.pos = Len(content[f])
           /\ \A i \in 1..Len(content[f]) :
                content[f][i] > skipped[p] => content[f][i] \in ToSet(counted'[p])
  BY <1>2, <1>4, <1>5, <1>8, LeftRead
<1> HIDE DEF h
<1>10. handles'[p] = h /\ \A q \in Path : q # p => handles'[q] = handles[q]
  BY <1>3, <1>6, <1>7, HandleSet
<1>11. Len(content[f]) \in Nat
  BY <1>1, NumberFacts
<1>12. ReadIsCounted'
  <2>1. ASSUME NEW q \in Path, handles'[q].file # NoFile, Uncut(handles'[q].file)
        PROVE  /\ handles'[q].pos <= Len(content[handles'[q].file])
               /\ \A i \in 1..handles'[q].pos :
                    content[handles'[q].file][i] > skipped[q]
                      => content[handles'[q].file][i] \in ToSet(counted'[q])
    <3>1. CASE q = p
      BY <1>6, <1>9, <1>10, <1>11, <2>1, <3>1
    <3>2. CASE q # p
      BY <1>8, <1>10, <2>1, <3>2 DEF LeftInv, ReadIsCounted
    <3>3. QED
      BY <3>1, <3>2
  <2>2. QED
    BY <1>8, <2>1 DEF ReadIsCounted, Uncut
<1>13. DueIsThere' /\ NoWayBack'
  BY <1>8 DEF LeftInv, DueIsThere, Uncut, NoWayBack
<1>14. NothingLeftBehind'
  <2>1. \A q \in Path : \A e \in ToSet(counted[q]) : e \in ToSet(counted'[q])
    BY <1>8, <1>9
  <2>2. QED
    BY <1>8, <2>1 DEF LeftInv, NothingLeftBehind
<1>15. QED
  BY <1>1, <1>12, <1>13, <1>14 DEF LeftInv

LEMMA LeftOpen ==
  ASSUME LeftInv, Open
  PROVE  LeftInv'
<1>1. OrderInv /\ OrderInv' /\ ReadingInv /\ KernelLogTypeOK
  BY OrderOpen DEF LeftInv, OrderInv, ReadingInv, LogTypeInv
<1>2. PICK p \in Path : p = path
  BY <1>1, TurnFacts
<1>3. PICK a \in File : a = at[p] /\ a \in Own(p)
  BY <1>1, <1>2, OwnFacts DEF Open
<1> DEFINE first == handles[p] = NoHandle /\ ~FROM_START
           pos == IF first THEN Len(content[a]) ELSE 0
           h == [file |-> a, pos |-> pos, open |-> TRUE]
<1>4. /\ handles' = [handles EXCEPT ![p] = h]
      /\ skipped' = [skipped EXCEPT ![p] = IF first THEN written[p] ELSE skipped[p]]
      /\ UNCHANGED <<diskVars, counted, due, drained, cut>>
  BY <1>2, <1>3 DEF Open, StartOf, SkipsBacklog, FirstSight, handle
<1>5. /\ Len(content[a]) \in Nat /\ Len(content[a]) <= MaxEvents
      /\ \A i \in 1..Len(content[a]) : content[a][i] \in Nat
      /\ written[p] \in Nat
  BY <1>1, NumberFacts DEF ReadingInv, LogTypeInv, Lengths
<1>6. pos \in 0..MaxEvents
  BY <1>5, Bounds
<1>7. first => drained[p] = {}
  BY <1>1 DEF ReadingInv, LogTypeInv, Unseen, NoHandle
<1> HIDE DEF pos, first
<1>8. h \in Handle /\ h.file = a /\ h.pos = pos
  BY <1>6 DEF Handle
<1>9. handles \in [Path -> Handle]
  BY <1>1 DEF KernelLogTypeOK, Handle
<1> HIDE DEF h
<1>10. handles'[p] = h /\ \A q \in Path : q # p => handles'[q] = handles[q]
  BY <1>4, <1>8, <1>9, HandleSet
<1>11. /\ skipped'[p] = IF first THEN written[p] ELSE skipped[p]
       /\ \A q \in Path : q # p => skipped'[q] = skipped[q]
       /\ UNCHANGED <<at, content, counted, due, drained, cut>>
  BY <1>1, <1>4 DEF KernelLogTypeOK, diskVars
<1>12. ReadIsCounted'
  <2>1. ASSUME NEW q \in Path, handles'[q].file # NoFile, Uncut(handles'[q].file)
        PROVE  /\ handles'[q].pos <= Len(content[handles'[q].file])
               /\ \A i \in 1..handles'[q].pos :
                    content[handles'[q].file][i] > skipped'[q]
                      => content[handles'[q].file][i] \in ToSet(counted[q])
    <3>1. CASE q = p /\ first
      <4>1. pos = Len(content[a])
        BY <3>1 DEF pos
      <4>2. \A i \in 1..Len(content[a]) : content[a][i] <= written[p]
        BY <1>3 DEF LeftInv, OrderInv, OrderOf, OnlyWritten
      <4>3. QED
        BY <1>5, <1>8, <1>10, <1>11, <3>1, <4>1, <4>2
    <3>2. CASE q = p /\ ~first
      <4>1. pos = 0
        BY <3>2 DEF pos
      <4>2. QED
        BY <1>5, <1>8, <1>10, <3>2, <4>1
    <3>3. CASE q # p
      BY <1>10, <1>11, <2>1, <3>3 DEF LeftInv, ReadIsCounted
    <3>4. QED
      BY <3>1, <3>2, <3>3
  <2>2. QED
    BY <1>11, <2>1 DEF ReadIsCounted, Uncut
<1>13. DueIsThere' /\ NoWayBack'
  BY <1>11 DEF LeftInv, DueIsThere, Uncut, NoWayBack
<1>14. NothingLeftBehind'
  <2>1. \A q \in Path : drained[q] # {} => skipped'[q] = skipped[q]
    BY <1>7, <1>11
  <2>2. QED
    BY <1>11, <2>1 DEF LeftInv, NothingLeftBehind
<1>15. QED
  BY <1>1, <1>12, <1>13, <1>14 DEF LeftInv

LEMMA LeftStep ==
  ASSUME LeftInv, [KernelLogNext]_kernelLogVars
  PROVE  LeftInv'
<1>1. OrderInv' /\ ReadingInv /\ KernelLogTypeOK
  BY OrderStep DEF LeftInv, OrderInv, ReadingInv, LogTypeInv
<1>2. CASE Stat
  <2>1. PICK p \in Path : p = path
    BY <1>1, TurnFacts
  <2> DEFINE goes == step' \in {"drain", "consume"}
             h == [handles[p] EXCEPT !.open = goes]
  <2>2. /\ handles' = [handles EXCEPT ![p] = h]
        /\ UNCHANGED <<diskVars, counted, pastVars>>
    BY <1>2, <2>1 DEF Stat
  <2>3. goes \in BOOLEAN
    OBVIOUS
  <2> HIDE DEF goes
  <2>4. handles \in [Path -> Handle] /\ handles[p] \in Handle
    BY <1>1 DEF KernelLogTypeOK, Handle
  <2>5. h \in Handle /\ h.file = handles[p].file /\ h.pos = handles[p].pos
    BY <2>3, <2>4 DEF Handle
  <2> HIDE DEF h
  <2>6. \A q \in Path : handles'[q].file = handles[q].file /\ handles'[q].pos = handles[q].pos
    BY <2>2, <2>4, <2>5, HandleSet
  <2>7. QED
    BY <1>1, <2>2, <2>6, LeftKept DEF diskVars
<1>3. CASE Dies \/ NotThere \/ CallFails
  BY <1>1, <1>3, LeftKept DEF Dies, NotThere, CallFails, diskVars
<1>4. CASE KernelPrints \/ UNCHANGED kernelLogVars
  BY <1>1, <1>4, LeftKept DEF KernelPrints, kernelLogVars, diskVars, threadVars
<1>5. ASSUME NEW p \in Path, Reopen(p)
      PROVE  LeftInv'
  BY <1>1, <1>5, LeftKept DEF Reopen, threadVars
<1>6. ASSUME NEW p \in Path, WriteLine(p) \/ Rename(p) \/ Create(p) \/ CutDown(p)
      PROVE  LeftInv'
  BY <1>6, LeftWrite, LeftRename, LeftCreate, LeftCut
<1>7. CASE Drain \/ Open \/ Consume
  BY <1>7, LeftDrain, LeftOpen, LeftConsume
<1>8. QED
  BY <1>2, <1>3, <1>4, <1>5, <1>6, <1>7 DEF KernelLogNext, ThreadGoes, World

(* A file that was rotated away and let go of has left nothing behind: what *)
(* it held when it was renamed it still held when it was drained, and what  *)
(* lies before an offset was counted.                                       *)
THEOREM NothingLeftBehindHolds == KernelLogSpec => []NothingLeftBehind
<1>1. LeftInv => NothingLeftBehind
  BY DEF LeftInv
<1>2. QED
  BY <1>1, LeftInit, LeftStep, PTL DEF KernelLogSpec
=============================================================================

----------------------------- MODULE KernelLog -----------------------------
(***************************************************************************)
(* KernelLogWatcher of gpu-health-agent (signals/kernlog.py): one thread   *)
(* follows the kernel-log files, through their rotation, and counts the    *)
(* lines that match a rule.  Beside it, as far as it can tell, the log     *)
(* daemon that writes the files and the tool that rotates them.            *)
(*                                                                         *)
(* Only lines that match are modelled; a line is the number of the kernel  *)
(* event it reports, and it is written, and read, whole.  The thread reads *)
(* to the end of a file in one step: lines are only ever appended, so what *)
(* comes after the step is what it would not have seen.  Between a stat,   *)
(* the draining of the old file, an open and the reading of the new one,   *)
(* anything may happen to the files.                                       *)
(***************************************************************************)
EXTENDS Integers, Sequences, SequencesExt

CONSTANTS
  PATHS,       \* KERNLOG_PATHS, in the order the thread goes through them
  FROM_START,  \* from_start
  MaxFiles,    \* bound on the files that ever exist
  MaxEvents,   \* bound on the kernel events reported
  MaxCuts,     \* bound on truncations in place
  MaxFaults    \* bound on system calls that fail

ASSUME KernelLogAssumption ==
  /\ PATHS \in Seq(STRING) /\ PATHS # <<>>
  /\ IsInjective(PATHS)
  /\ FROM_START \in BOOLEAN
  /\ {MaxFiles, MaxEvents, MaxCuts, MaxFaults} \subseteq Nat
  /\ MaxFiles >= Len(PATHS)

VARIABLES
  events,    \* kernel events so far
  at,        \* the file each path names
  content,   \* the lines in each file
  files,     \* how many files there have been
  writer,    \* the file the daemon appends a path's lines to
  written,   \* how many events it has written there
  step,      \* where the thread is, ...
  turn,      \* ... with which of PATHS
  handles,   \* path -> (file object, st_dev, st_ino)
  files_ok,  \* KernelLogWatcher._files_ok
  counted,   \* path -> the lines counted there, in order
  faults,    \* how many calls have failed
  due,       \* history: the lines in a file when it was renamed
  skipped,   \* history: what was written to a path before its first sight
  drained,   \* history: the files of a path drained and let go of
  cut        \* history: the files truncated in place, in order

diskVars == <<events, at, content, files, writer, written>>
threadVars == <<step, turn, handles, files_ok, counted, faults>>
pastVars == <<due, skipped, drained, cut>>
kernelLogVars == <<diskVars, threadVars, pastVars>>

Path == ToSet(PATHS)
File == 1..MaxFiles
NoFile == 0
NoHandle == [file |-> NoFile, pos |-> 0, open |-> FALSE]
path == PATHS[turn]
handle == handles[path]

KernelLogTypeOK ==
  /\ events \in 0..MaxEvents
  /\ at \in [Path -> File \cup {NoFile}]
  /\ content \in [File -> Seq(1..MaxEvents)]
  /\ files \in 0..MaxFiles
  /\ writer \in [Path -> File \cup {NoFile}]
  /\ written \in [Path -> 0..MaxEvents]
  /\ step \in {"stat", "drain", "open", "consume", "dead"}
  /\ turn \in 1..Len(PATHS)
  /\ handles \in [Path -> [file: File \cup {NoFile}, pos: 0..MaxEvents, open: BOOLEAN]]
  /\ files_ok \in [Path -> {"unset", "ok", "failed"}]
  /\ counted \in [Path -> Seq(1..MaxEvents)]
  /\ faults \in 0..MaxFaults
  /\ due \in [File -> SUBSET (1..MaxEvents)]
  /\ skipped \in [Path -> 0..MaxEvents]
  /\ drained \in [Path -> SUBSET File]
  /\ cut \in Seq(File)

\* Every path names a file of its own, which the daemon has open, with a backlog.
KernelLogInit ==
  /\ \E backlog \in 0..MaxEvents :
       /\ events = backlog
       /\ written = [p \in Path |-> backlog]
       /\ content = [f \in File |->
            IF f <= Len(PATHS) THEN [e \in 1..backlog |-> e] ELSE <<>>]
  /\ at = [p \in Path |-> CHOOSE i \in 1..Len(PATHS) : PATHS[i] = p]
  /\ files = Len(PATHS)
  /\ writer = at
  /\ step = "stat"
  /\ turn = 1
  /\ handles = [p \in Path |-> NoHandle]
  /\ files_ok = [p \in Path |-> "unset"]
  /\ counted = [p \in Path |-> <<>>]
  /\ faults = 0
  /\ due = [f \in File |-> {}]
  /\ skipped = [p \in Path |-> 0]
  /\ drained = [p \in Path |-> {}]
  /\ cut = <<>>

-----------------------------------------------------------------------------
(* Deliberately wrong variants: each shows that a property can fail.       *)

\* A file that was read to its end is taken for truncated.
TruncatedAtEnd(size) == handle.pos >= size

\* The file is recognised by its path alone.
RotatedNever(file) == FALSE

\* Only successes are recorded.
RecordedGood(p, ok) == [files_ok EXCEPT ![p] = IF ok = "ok" THEN ok ELSE @]

\* The first line to read is numbered from one.
StartFromOne(file) == Len(content[file]) + 1

\* The old file is closed without another look.
ReadNothing == <<>>

-----------------------------------------------------------------------------
(* _run and _pump, for one path after the other.                           *)

\* What is left to read through the handle, and the handle when it is read.
Rest == SubSeq(content[handle.file], handle.pos + 1, Len(content[handle.file]))
LastWords == Rest
ReadOut(h) == [h EXCEPT !.pos = IF @ > Len(content[h.file]) THEN @
                                ELSE Len(content[h.file])]

Recorded(p, ok) == [files_ok EXCEPT ![p] = ok]

\* The result for this path is recorded; the next path, or the next round.
NextPath(ok) ==
  /\ files_ok' = Recorded(path, ok)
  /\ turn' = IF turn = Len(PATHS) THEN 1 ELSE turn + 1
  /\ step' = "stat"

FirstSight == handle = NoHandle

Rotated(file) == handle.file # file
Truncated(size) == handle.pos > size

\* os.stat(path), and what it says of the handle.
Stat ==
  /\ step = "stat"
  /\ at[path] # NoFile
  /\ FirstSight \/ handle.open
  /\ step' = IF FirstSight THEN "open"
             ELSE IF Rotated(at[path]) THEN "drain"
             ELSE IF Truncated(Len(content[at[path]])) THEN "open"
             ELSE "consume"
  /\ handles' = [handles EXCEPT ![path].open = step' \in {"drain", "consume"}]
  /\ UNCHANGED <<diskVars, turn, files_ok, counted, faults, pastVars>>

\* fh.tell() of a handle that was closed and not replaced: ValueError, which
\* nothing catches, and the thread is gone.
Dies ==
  /\ step = "stat"
  /\ at[path] # NoFile
  /\ ~FirstSight /\ ~handle.open
  /\ step' = "dead"
  /\ UNCHANGED <<diskVars, turn, handles, files_ok, counted, faults, pastVars>>

NotThere ==
  /\ step = "stat" \/ step = "open"
  /\ at[path] = NoFile
  /\ NextPath("failed")
  /\ UNCHANGED <<diskVars, handles, counted, faults, pastVars>>

\* The rest of the file that was rotated away.
Drain ==
  /\ step = "drain"
  /\ step' = "open"
  /\ counted' = [counted EXCEPT ![path] = @ \o LastWords]
  /\ handles' = [handles EXCEPT ![path] = [ReadOut(@) EXCEPT !.open = FALSE]]
  /\ drained' = [drained EXCEPT ![path] = @ \cup {handle.file}]
  /\ UNCHANGED <<diskVars, turn, files_ok, faults, due, skipped, cut>>

\* The first sight of a path skips what is there.
SkipsBacklog == FirstSight /\ ~FROM_START
StartOf(file) == IF SkipsBacklog THEN Len(content[file]) ELSE 0

Open ==
  LET file == at[path] IN
  /\ step = "open"
  /\ file # NoFile
  /\ step' = "consume"
  /\ handles' = [handles EXCEPT ![path] =
                  [file |-> file, pos |-> StartOf(file), open |-> TRUE]]
  /\ skipped' = [skipped EXCEPT ![path] = IF SkipsBacklog THEN written[path] ELSE @]
  /\ UNCHANGED <<diskVars, turn, files_ok, counted, faults, due, drained, cut>>

Consume ==
  /\ step = "consume"
  /\ counted' = [counted EXCEPT ![path] = @ \o Rest]
  /\ handles' = [handles EXCEPT ![path] = ReadOut(@)]
  /\ NextPath("ok")
  /\ UNCHANGED <<diskVars, faults, pastVars>>

\* stat, readline or open fails otherwise (OSError).
CallFails ==
  /\ step # "dead"
  /\ faults < MaxFaults
  /\ faults' = faults + 1
  /\ NextPath("failed")
  /\ UNCHANGED <<diskVars, handles, counted, pastVars>>

-----------------------------------------------------------------------------
(* The kernel, the log daemon, the rotation: no code of this repository.   *)

KernelPrints ==
  /\ events < MaxEvents
  /\ events' = events + 1
  /\ UNCHANGED <<at, content, files, writer, written, threadVars, pastVars>>

\* The daemon writes every event to every path's file.
WriteLine(p) ==
  /\ writer[p] # NoFile
  /\ written[p] < events
  /\ written' = [written EXCEPT ![p] = @ + 1]
  /\ content' = [content EXCEPT ![writer[p]] = Append(@, written[p] + 1)]
  /\ UNCHANGED <<events, at, files, writer, threadVars, pastVars>>

\* Moved aside; the daemon goes on writing to it until it is told.
Rename(p) ==
  /\ at[p] # NoFile
  /\ files < MaxFiles
  /\ at' = [at EXCEPT ![p] = NoFile]
  /\ due' = [due EXCEPT ![at[p]] = ToSet(content[at[p]])]
  /\ UNCHANGED <<events, content, files, writer, written, threadVars, skipped,
                 drained, cut>>

\* A new file, from the rotation tool or from the daemon when it reopens.
Create(p) ==
  /\ at[p] = NoFile
  /\ files < MaxFiles
  /\ files' = files + 1
  /\ at' = [at EXCEPT ![p] = files + 1]
  /\ UNCHANGED <<events, content, writer, written, threadVars, pastVars>>

Reopen(p) ==
  /\ at[p] \notin {NoFile, writer[p]}
  /\ writer' = [writer EXCEPT ![p] = at[p]]
  /\ UNCHANGED <<events, at, content, files, written, threadVars, pastVars>>

\* Rotation by copy and truncation.
CutDown(p) ==
  /\ at[p] # NoFile
  /\ Len(cut) < MaxCuts
  /\ cut' = Append(cut, at[p])
  /\ content' = [content EXCEPT ![at[p]] = <<>>]
  /\ UNCHANGED <<events, at, files, writer, written, threadVars, due, skipped,
                 drained>>

World ==
  \/ KernelPrints
  \/ \E p \in Path :
       \/ WriteLine(p)
       \/ Rename(p)
       \/ Create(p)
       \/ Reopen(p)
       \/ CutDown(p)

ThreadGoes == Stat \/ Dies \/ NotThere \/ Drain \/ Open \/ Consume

KernelLogNext == ThreadGoes \/ CallFails \/ World

(* Fairness: the thread polls its files for as long as it lives.            *)
KernelLogSpec ==
  KernelLogInit /\ [][KernelLogNext]_kernelLogVars
    /\ WF_kernelLogVars(ThreadGoes)

-----------------------------------------------------------------------------
(* Properties.                                                             *)

(* Each line of a path is counted at most once, in the order it was         *)
(* written, and none from before the path's first sight, however the file   *)
(* is rotated, truncated or reopened (_pump's offsets).                     *)
CountedOnce ==
  \A p \in Path :
    \A i \in 1..Len(counted[p]) :
      /\ counted[p][i] > skipped[p]
      /\ i > 1 => counted[p][i] > counted[p][i - 1]

(* When the thread has let go of a file that was rotated away, it has       *)
(* counted every line the file held when it was renamed, up to the last     *)
(* moment; a file that was ever truncated in place is not promised that     *)
(* (_pump: "lines written between our last read and the rotation").         *)
NothingLeftBehind ==
  \A p \in Path : \A f \in drained[p] \ ToSet(cut) :
    \A e \in due[f] : e > skipped[p] => e \in ToSet(counted[p])

(* A thread that died shows: the path it stumbled over stays recorded as    *)
(* unreadable, which makes GPUHealthDataStale of it (_run, files_ok).       *)
DeadWatcherIsVisible ==
  step = "dead" => \E p \in Path : files_ok[p] = "failed"

(* The thread ends up at the end of the file its path names, through gaps   *)
(* in which there was none, several rotations and failing calls, if it does *)
(* not die and the path is not left without a file (_run, _pump).           *)
FollowsTheFile ==
  \A p \in Path :
    <>[](step # "dead" /\ at[p] # NoFile)
      => <>[](/\ at[p] # NoFile /\ handles[p].file = at[p]
              /\ handles[p].pos = Len(content[at[p]]))
=============================================================================

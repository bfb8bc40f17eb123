------------------------- MODULE ReportedConditions -------------------------
(***************************************************************************)
(* What a publisher of Node conditions promises to whoever reads them: it  *)
(* has told each condition a status and since when, the stamp changes only *)
(* with the status and is then the present, the Node is given all          *)
(* conditions at once as they have been told, and no stamp on it ever goes *)
(* back.  A new process remembers nothing of what was told before.         *)
(***************************************************************************)
EXTENDS Integers

CONSTANTS
  Condition,
  Unknown        \* what is told of a condition of which nothing has been

VARIABLES
  told,          \* of each condition, the [status, since] of the process's last report
  shown,         \* the same on the Node
  time

vars == <<told, shown, time>>

NothingYet == [c \in Condition |-> Unknown]

Init == told = NothingYet /\ shown = NothingYet /\ time = 0

Flips(c) == told'[c].status # told[c].status /\ told'[c].since = time

Tell ==
  /\ \A c \in Condition : told'[c] = told[c] \/ Flips(c)
  /\ UNCHANGED <<shown, time>>

\* All or nothing, and for no condition with an older stamp.
Show ==
  /\ \A c \in Condition : told[c] # Unknown /\ told[c].since >= shown[c].since
  /\ shown' = told
  /\ UNCHANGED <<told, time>>

NewProcess == told' = NothingYet /\ UNCHANGED <<shown, time>>

Pass == time' > time /\ UNCHANGED <<told, shown>>

Next == Tell \/ Show \/ NewProcess \/ Pass

Spec == Init /\ [][Next]_vars
=============================================================================

------------------------------- MODULE MCAgent ------------------------------
(***************************************************************************)
(* The agent with what has to be remembered to say what it should do: when *)
(* lines were counted, the samples evaluated and the reports built.        *)
(***************************************************************************)
EXTENDS Agent

VARIABLES
  last_line,   \* when a line of a rule was last counted, in any process's life
  samples,     \* all samples this process has evaluated
  reports      \* all reports it has built

pastVars == <<last_line, samples, reports>>
pastAgentVars == <<agentVars, pastVars>>

PastInit ==
  /\ AgentInit
  /\ last_line = [r \in LogRule |-> NoTime]
  /\ samples = {}
  /\ reports = {}

PastNext ==
  \/ /\ Evaluate
     /\ samples' = samples \cup {[at |-> now, counts |-> seen.counts]}
     /\ UNCHANGED <<last_line, reports>>
  \/ /\ BuildReport
     /\ reports' = reports \cup {[at |-> clock, status |-> detail]}
     /\ UNCHANGED <<last_line, samples>>
  \/ /\ RestartAgent
     /\ samples' = {}
     /\ reports' = {}
     /\ UNCHANGED last_line
  \/ \E r \in Watched :
       /\ CountLine(r)
       /\ last_line' = [last_line EXCEPT ![r] = clock]
       /\ UNCHANGED <<samples, reports>>
  \/ /\ \/ Collect \/ CollectRaises
        \/ NotDue \/ NothingToPublish \/ Patch(TRUE) \/ Patch(FALSE)
        \/ \E t \in Disturbed : ComesOrGoes(t)
        \/ Tick
     /\ UNCHANGED pastVars

PastSpec == PastInit /\ [][PastNext]_pastAgentVars

-----------------------------------------------------------------------------
(* Properties.                                                             *)

(* lastTransitionTime, which the guard takes for how long a condition has   *)
(* held: every report this process built since then, delivered or not, says *)
(* the same of the condition, and the one before it, if any, the opposite.  *)
TransitionIsTheFlip ==
  step = "patch" =>
    \A c \in ALL_CONDITIONS :
      LET since == report[c].since
          Says(r) == r.status[c] = report[c].status
      IN /\ \E r \in reports : r.at = since
         /\ \A r \in reports : r.at >= since => Says(r)
         /\ \A r \in reports : r.at < since =>
              \E q \in reports : r.at <= q.at /\ q.at < since /\ ~Says(q)

\* The last sample and one of the window before it lie at least n lines apart.
CountedInWindow(rule, n) ==
  LET last == history[Len(history)] IN
  \E s \in samples :
    /\ last.at - s.at <= WINDOW_SECONDS
    /\ last.counts[rule] - s.counts[rule] >= n

(* A log condition is active exactly when enough lines were counted since   *)
(* some sample inside the window: the deque, trimmed from one end and never *)
(* emptied, answers as all samples of this process would, through failing   *)
(* collections, gaps longer than the window and bursts                      *)
(* (ConditionEvaluator.evaluate).                                           *)
ActiveExactlyInWindow ==
  history # <<>> =>
    /\ (detail["GPUUnrecoverable"] = "True") <=> CountedInWindow("fatal", 1)
    /\ (detail["GPUEngineTimeout"] = "True")
         <=> CountedInWindow("engine", ENGINE_TIMEOUT_RECURRENCE)
    /\ CountedInWindow("workqueue", 1) => (detail["GPUWorkqueueStalled"] = "True")

-----------------------------------------------------------------------------
(* A statement of the repository that the code contradicts.                *)

(* "No MES/reset/VRAM-loss events in the last {window}s" (conditions.py:99):*)
(* a report that says GPUUnrecoverable is "False" has no such line, counted *)
(* before its collection began, inside the window.                          *)
NoEventMeansNone ==
  (step = "patch" /\ report["GPUUnrecoverable"].status = "False") =>
    LET t == last_line["fatal"] IN
    (t # NoTime /\ t < now) => now - t > WINDOW_SECONDS
=============================================================================

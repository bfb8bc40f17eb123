-------------------------- MODULE ConditionWindow --------------------------
(***************************************************************************)
(* ConditionEvaluator of gpu-health-agent (conditions.py): what the counts *)
(* of kernel-log rules, the task census and the exporter probe make of     *)
(* each Node condition.  Pure operators over the evaluator's one piece of  *)
(* state, the deque of samples; Agent.tla runs them.                       *)
(*                                                                         *)
(* The counts of the rules a condition adds up are kept as one count.      *)
(***************************************************************************)
EXTENDS Integers, Sequences

CONSTANTS
  WINDOW_SECONDS,              \* window_seconds
  ENGINE_TIMEOUT_RECURRENCE    \* engine_timeout_recurrence

ASSUME WindowAssumption ==
  /\ WINDOW_SECONDS \in Nat
  /\ ENGINE_TIMEOUT_RECURRENCE \in Nat \ {0}

\* _FATAL_HANG_RULES, _WORKQUEUE_RULES, _ENGINE_RULES
LogRule == {"fatal", "workqueue", "engine"}

ALL_CONDITIONS ==
  {"GPUUnrecoverable", "GPUWorkqueueStalled", "GPUEngineTimeout",
   "GPUProbeFailed", "GPUHealthDataStale"}

\* The other signals, as far as the conditions tell them apart: GPU tasks stuck
\* in D; the exporter unreachable or reporting an unhealthy GPU; a kernel log or
\* /proc unreadable.
Trouble == {"stuck", "probe", "blind"}

Counts == [LogRule -> Nat]

Sample == [at: Nat, counts: Counts]

-----------------------------------------------------------------------------
(* Deliberately wrong variants: each shows that a property can fail.       *)

\* A sample as old as the window is dropped too.
ExpiredAtWindow(sample, now) == now - sample.at >= WINDOW_SECONDS

\* The baseline is the sample before, not the oldest.
HitsSinceLast(history, counts, rule) ==
  counts[rule] - history[IF Len(history) > 1 THEN Len(history) - 1 ELSE 1].counts[rule]

-----------------------------------------------------------------------------

Expired(sample, now) == now - sample.at > WINDOW_SECONDS

\* The popleft loop: expired samples leave from the left, but never the last.
Trimmed(history, now) ==
  LET first ==
        CHOOSE i \in 1..Len(history) :
          /\ i = Len(history) \/ ~Expired(history[i], now)
          /\ \A j \in 1..(i - 1) : Expired(history[j], now)
  IN SubSeq(history, first, Len(history))

\* The deque after one more evaluation.
Sampled(history, now, counts) ==
  Trimmed(Append(history, [at |-> now, counts |-> counts]), now)

\* hits(rules): counted since the oldest sample of the deque.
Hits(history, counts, rule) == counts[rule] - history[1].counts[rule]

\* Whether condition c is active, given the deque that holds this evaluation.
Active(history, counts, trouble, c) ==
  CASE c = "GPUUnrecoverable" -> Hits(history, counts, "fatal") > 0
    [] c = "GPUWorkqueueStalled" ->
         Hits(history, counts, "workqueue") > 0 \/ "stuck" \in trouble
    [] c = "GPUEngineTimeout" ->
         Hits(history, counts, "engine") >= ENGINE_TIMEOUT_RECURRENCE
    [] c = "GPUProbeFailed" -> "probe" \in trouble
    [] c = "GPUHealthDataStale" -> "blind" \in trouble
=============================================================================

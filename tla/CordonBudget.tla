---------------------------- MODULE CordonBudget ----------------------------
(***************************************************************************)
(* What the rate limit of gpu-node-guard promises: a guard process cordons *)
(* in rounds, and a cordon is made only while those held against its round *)
(* are fewer than MAX_CORDONS_PER_WINDOW.  Held against a round are its    *)
(* own cordons, whether the process knows that they succeeded or not, and  *)
(* those it knows of from rounds that began less than                      *)
(* RATE_LIMIT_WINDOW_SECONDS before.  A new process starts with an empty   *)
(* log.                                                                    *)
(***************************************************************************)
EXTENDS Integers, FiniteSets

CONSTANTS
  Process,
  Target,                      \* what may be cordoned
  Times,                       \* when, a set of numbers
  MAX_CORDONS_PER_WINDOW,
  RATE_LIMIT_WINDOW_SECONDS

VARIABLE log   \* of each process, the cordons it made

\* A cordon: what, in the round that began when, made when, and whether the
\* process knows of it.
Entry == [node: Target, loop: Times, at: Times, answered: BOOLEAN]

\* The entries of l held at t against the round that began at loop.
Held(l, loop, t) ==
  {c \in l : c.loop = loop
             \/ (c.answered /\ t - c.loop < RATE_LIMIT_WINDOW_SECONDS)}

Init == log = [p \in Process |-> {}]

\* Rounds follow each other: an earlier one is over when a later one begins.
Follows(e, c) ==
  /\ c.loop <= e.loop
  /\ c.at <= e.at
  /\ c.loop < e.loop => c.at < e.loop

\* One more cordon, after the others, if its round has room for it.
Cordon(p, e) ==
  /\ e \notin log[p]
  /\ e.loop <= e.at
  /\ \A c \in log[p] : Follows(e, c)
  /\ Cardinality(Held(log[p], e.loop, e.loop)) < MAX_CORDONS_PER_WINDOW
  /\ log' = [log EXCEPT ![p] = @ \cup {e}]

NewProcess(p) == log' = [log EXCEPT ![p] = {}]

Next == \E p \in Process : NewProcess(p) \/ \E e \in Entry : Cordon(p, e)

Spec == Init /\ [][Next]_log

\* When a cordon is made, those made by then and held against it, it included,
\* are no more than the limit.
WithinLimit(l) ==
  \A e \in l :
    Cardinality(Held({c \in l : c.at <= e.at}, e.loop, e.at)) <= MAX_CORDONS_PER_WINDOW
=============================================================================

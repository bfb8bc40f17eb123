-------------------------- MODULE GuardProperties --------------------------
(***************************************************************************)
(* What must hold of the guard's loop.                                     *)
(***************************************************************************)
EXTENDS Guard

CordonLog == INSTANCE CordonBudget WITH
  Process <- Replica, Target <- Node, Times <- 0..MaxClock, log <- acted

(* The rate limit (policy.decide's budget, Guard._recent_cordons): when a   *)
(* PATCH of one process takes effect, the cordons of its own loop, answered *)
(* or not, and the answered ones of loops that began less than a window ago *)
(* are together no more than the limit, although the history is pruned      *)
(* every loop, the budget is read once before a series of PATCHes, and any  *)
(* of them may fail or lose its answer.  A cordon is held against the limit *)
(* from the start of its loop, so one whose PATCH was slow is forgotten     *)
(* sooner; one whose answer was lost only within its loop.                  *)
RateLimit == \A g \in Replica : CordonLog!WithinLimit(acted[g])

(* The same as an implementation: every step of the loop is a step of       *)
(* CordonBudget or leaves the log of cordons alone.                         *)
ImplementsCordonBudget == CordonLog!Spec

Chosen(g) == {n \in Node : decision[g][n] = "cordon"}

(* The capacity floor, together: the nodes one run of `decide` chooses were *)
(* each weighed alone against the unchanged snapshot, yet cordoning all of  *)
(* them leaves MIN_HEALTHY_NODES serving nodes in it.                       *)
FloorTogether ==
  \A g \in Replica :
    Chosen(g) # {} => HealthyCapacity(snap[g], Chosen(g)) >= MIN_HEALTHY_NODES

\* Nothing but g's own decisions has changed the nodes since g listed them.
Undisturbed(g) ==
  \A n \in Node :
    \/ nodes[n] = snap[g][n]
    \/ n \in Chosen(g) /\ nodes[n] = [snap[g][n] EXCEPT !.unschedulable = TRUE]

(* The capacity floor, in the cluster: a PATCH of the guard that lands in a *)
(* fleet nobody else has touched since the listing leaves MIN_HEALTHY_NODES *)
(* serving nodes, however many PATCHes of the loop landed before it.        *)
FloorKept ==
  [][\A g \in Replica, n \in Node :
       (/\ n \in queue[g] \ queue'[g]
        /\ nodes'[n].unschedulable
        /\ Undisturbed(g))
         => HealthyCapacity(nodes', {}) >= MIN_HEALTHY_NODES]_vars

(* cordons_total (metrics.py), with what the loop at work will add to it,  *)
(* counts the cordons of this process whose answer came and whose loop got  *)
(* through, all of them and no other: it says less than was "actually       *)
(* performed" by the lost answers and the loops that raised, and by no more.*)
CountExact ==
  \A g \in Replica :
    total[g] + cordoned[g] =
      Cardinality({c \in acted[g] : c.answered /\ c.loop \notin raised[g]})

-----------------------------------------------------------------------------
(* A statement of the repository that the code contradicts.                *)

(* "GUARD_MAX_CORDONS_PER_WINDOW 1 / hour" (guard/README.md:55), read of    *)
(* the guard, not of one process of it: its history is in memory.  Lost     *)
(* answers, which the history misses, are left out of what is counted.      *)
FleetRateLimit ==
  LET all == {c \in past \cup UNION {acted[g] : g \in Replica} : c.answered} IN
  \A e \in all :
    Cardinality({c \in all : c.at <= e.at /\ e.at - c.at < RATE_LIMIT_WINDOW_SECONDS})
      <= MAX_CORDONS_PER_WINDOW
=============================================================================

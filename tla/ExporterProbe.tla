--------------------------- MODULE ExporterProbe ---------------------------
(***************************************************************************)
(* The agent's probe of the device-metrics-exporter on its own node        *)
(* (signals/exporter.py): ExporterProbe.collect over the address that      *)
(* NodeLocalEndpointResolver has cached or looks up.                       *)
(*                                                                         *)
(* Every node has an exporter pod, which is replaced under another address,*)
(* hangs and recovers.  The EndpointSlices follow the pods with a delay:   *)
(* an entry appears some time after its pod, and stays some time after it. *)
(* Addresses return to the pool they came from; the pools of two nodes may *)
(* overlap.  A body that answers is kept as the node whose GPUs it lists.  *)
(***************************************************************************)
EXTENDS Naturals

CONSTANTS
  Node,
  Self,        \* NODE_NAME
  Address,
  NoAddress,
  Pool         \* the addresses the pods of a node can get

\* What a collect returns: the exporter was not reached, or there was none yet;
\* otherwise the node whose GPUs it reports.
Unreachable == "unreachable"
Unprobed == "unprobed"

ASSUME ProbeAssumption ==
  /\ Self \in Node
  /\ Unreachable \notin Node /\ Unprobed \notin Node
  /\ NoAddress \notin Address
  /\ Pool \in [Node -> SUBSET Address]

VARIABLES
  pod,      \* the exporter pod of each node
  listed,   \* the endpoints in the EndpointSlices of its Service
  cached,   \* NodeLocalEndpointResolver._cached
  step,     \* where collect is
  url,      \* the address it scrapes
  result,   \* what the last collect returned
  held,     \* history: the addresses the pods of each node have had
  quiet,    \* history: whether the node's own exporter could be found and reached
            \* since the collection in progress began
  missed    \* history: quiet collections that reached nothing, since the last one
            \* that did

worldVars == <<pod, listed, held>>
probeVars == <<cached, step, url, result, quiet, missed>>
vars == <<worldVars, probeVars>>

\* A pod has no address before it runs; it is ready if kubelet says so, and that
\* does not mean it answers.
Pod == [addr: Address \cup {NoAddress}, ready: BOOLEAN, answers: BOOLEAN]

Endpoint == [node: Node, addr: Address, ready: BOOLEAN]

NotStarted == [addr |-> NoAddress, ready |-> FALSE, answers |-> FALSE]

ProbeTypeOK ==
  /\ pod \in [Node -> Pod]
  /\ listed \in SUBSET Endpoint
  /\ cached \in Address \cup {NoAddress}
  /\ step \in {"idle", "list", "scrape"}
  /\ url \in (IF step = "scrape" THEN Address ELSE {NoAddress})
  /\ result \in Node \cup {Unreachable, Unprobed}
  /\ held \in [Node -> SUBSET Address]
  /\ quiet \in BOOLEAN
  /\ missed \in Nat

ProbeInit ==
  /\ pod = [n \in Node |-> NotStarted]
  /\ listed = {}
  /\ held = [n \in Node |-> {}]
  /\ cached = NoAddress
  /\ step = "idle"
  /\ url = NoAddress
  /\ result = Unprobed
  /\ quiet = FALSE
  /\ missed = 0

-----------------------------------------------------------------------------
(* Deliberately wrong variants: each shows that a property can fail.       *)

\* The endpoint of any node will do: what scraping the Service would be like.
AnyReady(e) == e.ready

\* A scrape that fails leaves the cache as it is.
StillCached == cached

\* The cache is used without looking whether there is anything in it.
TakenAsKnown == TRUE

-----------------------------------------------------------------------------
(* ExporterProbe.collect.                                                  *)

\* url() takes the first endpoint of this node that is ready.
Local(e) == e.node = Self /\ e.ready

Candidates == {e \in listed : Local(e)}

\* The entry of the pod as it is now.
EndpointOf(n) == [node |-> n, addr |-> pod[n].addr, ready |-> pod[n].ready]

\* The node's exporter runs and answers, and the EndpointSlices say where.
Reachable ==
  /\ pod[Self].addr # NoAddress
  /\ pod[Self].ready /\ pod[Self].answers
  /\ Candidates = {EndpointOf(Self)}

Known == cached # NoAddress

Begin ==
  /\ step = "idle"
  /\ step' = IF Known THEN "scrape" ELSE "list"
  /\ url' = cached
  /\ quiet' = Reachable
  /\ UNCHANGED <<worldVars, cached, result, missed>>

Resolve(e) ==
  /\ step = "list"
  /\ Local(e)
  /\ step' = "scrape"
  /\ cached' = e.addr
  /\ url' = e.addr
  /\ UNCHANGED <<worldVars, result, quiet, missed>>

\* invalidate.
AfterFailure == NoAddress

Fail ==
  /\ step' = "idle"
  /\ url' = NoAddress
  /\ cached' = AfterFailure
  /\ result' = Unreachable
  /\ quiet' = FALSE
  /\ UNCHANGED worldVars

\* No endpoint of this node is ready.
LookupFails ==
  /\ step = "list"
  /\ Candidates = {}
  /\ Fail
  /\ missed' = IF quiet THEN missed + 1 ELSE missed

\* The API server does not answer, or there is no client for it.
ListFails ==
  /\ step = "list"
  /\ Fail
  /\ UNCHANGED missed

AnswersAt(n, a) == pod[n].addr = a /\ pod[n].answers

\* Nothing at that address, or nothing that answers in time with a status below 400.
ScrapeFails ==
  /\ step = "scrape"
  /\ \A n \in Node : ~AnswersAt(n, url)
  /\ Fail
  /\ missed' = IF quiet THEN missed + 1 ELSE missed

\* Whoever has that address now answers with its own GPUs.
Scrape(n) ==
  /\ step = "scrape"
  /\ AnswersAt(n, url)
  /\ step' = "idle"
  /\ url' = NoAddress
  /\ result' = n
  /\ quiet' = FALSE
  /\ missed' = 0
  /\ UNCHANGED <<worldVars, cached>>

\* The body has a gpu_nodes_total that int() cannot take: collect raises.
ScrapeRaises ==
  /\ step = "scrape"
  /\ \E n \in Node : AnswersAt(n, url)
  /\ step' = "idle"
  /\ url' = NoAddress
  /\ quiet' = FALSE
  /\ missed' = 0
  /\ UNCHANGED <<worldVars, cached, result>>

\* The agent restarts with an empty cache.
RestartProbe ==
  /\ step' = "idle"
  /\ url' = NoAddress
  /\ cached' = NoAddress
  /\ result' = Unprobed
  /\ quiet' = FALSE
  /\ UNCHANGED <<worldVars, missed>>

-----------------------------------------------------------------------------
(* Pods and EndpointSlices.                                                *)

WorldChanges ==
  /\ quiet' = (quiet /\ Reachable')
  /\ UNCHANGED <<cached, step, url, result, missed>>

Free(a) == \A n \in Node : pod[n].addr # a

\* The pod of n is replaced; the new one has its address at once...
ReplacePod(n, a) ==
  /\ a \in Pool[n]
  /\ Free(a)
  /\ pod' = [pod EXCEPT ![n] = [addr |-> a, ready |-> FALSE, answers |-> FALSE]]
  /\ held' = [held EXCEPT ![n] = @ \cup {a}]
  /\ UNCHANGED listed
  /\ WorldChanges

\* ... or is gone and not yet there again.
LosePod(n) ==
  /\ pod' = [pod EXCEPT ![n] = NotStarted]
  /\ UNCHANGED <<listed, held>>
  /\ WorldChanges

\* It starts to answer, hangs, is found ready or not.
PodTurns(n, ready, answers) ==
  /\ pod[n].addr # NoAddress
  /\ pod' = [pod EXCEPT ![n].ready = ready, ![n].answers = answers]
  /\ UNCHANGED <<listed, held>>
  /\ WorldChanges

EnterEndpoint(n) ==
  /\ pod[n].addr # NoAddress
  /\ listed' = listed \cup {EndpointOf(n)}
  /\ UNCHANGED <<pod, held>>
  /\ WorldChanges

\* An entry that is not true any more goes.
RemoveEndpoint(e) ==
  /\ e # EndpointOf(e.node)
  /\ listed' = listed \ {e}
  /\ UNCHANGED <<pod, held>>
  /\ WorldChanges

ProbeGoes ==
  \/ Begin
  \/ \E e \in listed : Resolve(e)
  \/ LookupFails
  \/ ScrapeFails
  \/ \E n \in Node : Scrape(n)

ProbeFails == ListFails \/ ScrapeRaises \/ RestartProbe

World ==
  \/ \E n \in Node :
       \/ LosePod(n)
       \/ EnterEndpoint(n)
       \/ \E a \in Address : ReplacePod(n, a)
       \/ \E ready, answers \in BOOLEAN : PodTurns(n, ready, answers)
  \/ \E e \in listed : RemoveEndpoint(e)

ProbeNext == ProbeGoes \/ ProbeFails \/ World

ProbeSpec == ProbeInit /\ [][ProbeNext]_vars

-----------------------------------------------------------------------------
(* Properties.                                                             *)

(* "Report a healthy neighbour's GPUs as its own" (exporter.py:47): that    *)
(* takes a neighbour that was given an address this node's own exporter has *)
(* had, which the cache still holds; a lagging EndpointSlice, a pod replaced*)
(* between the listing and the scrape, a hang do not do it.                 *)
MisattributedOnlyByReuse ==
  result \in Node \ {Self} => held[Self] \cap held[result] # {}

(* "An exporter pod restart (new IP) self-heals within one collection cycle"*)
(* (exporter.py:50): of the collections during which the node's exporter    *)
(* could be found and reached, no second one reaches nothing.               *)
SelfHeals == missed <= 1
=============================================================================

------------------------ MODULE ExporterProbeProofs ------------------------
(***************************************************************************)
(* The exporter probe, for any fleet, any addresses and any pools.         *)
(***************************************************************************)
EXTENDS ExporterProbe, TLAPS

LEMMA ReachableIsBoolean == Reachable \in BOOLEAN /\ Reachable' \in BOOLEAN
BY DEF Reachable

(* Every variable of the probe keeps its type; above all, collect never     *)
(* scrapes without an address.                                              *)
THEOREM ProbeTypeCorrect == ProbeSpec => []ProbeTypeOK
<1>1. ProbeInit => ProbeTypeOK
  <2> SUFFICES ASSUME ProbeInit PROVE ProbeTypeOK
    OBVIOUS
  <2>1. pod \in [Node -> Pod]
    BY DEF ProbeInit, Pod, NotStarted
  <2>2. held \in [Node -> SUBSET Address]
    BY DEF ProbeInit
  <2>3. url \in (IF step = "scrape" THEN Address ELSE {NoAddress})
    BY DEF ProbeInit
  <2>4. QED
    BY <2>1, <2>2, <2>3 DEF ProbeInit, ProbeTypeOK
<1>2. ProbeTypeOK /\ [ProbeNext]_vars => ProbeTypeOK'
  <2> SUFFICES ASSUME ProbeTypeOK, [ProbeNext]_vars
               PROVE  ProbeTypeOK'
    OBVIOUS
  <2> USE ProbeAssumption DEF ProbeTypeOK
  <2>1. CASE Begin
    BY <2>1, ReachableIsBoolean DEF Begin, Known, worldVars
  <2>2. ASSUME NEW e \in listed, Resolve(e)
        PROVE  ProbeTypeOK'
    BY <2>2 DEF Resolve, Endpoint, worldVars
  <2>3. CASE LookupFails \/ ScrapeFails
    <3>1. missed' \in Nat
      BY <2>3 DEF LookupFails, ScrapeFails
    <3>2. Fail
      BY <2>3 DEF LookupFails, ScrapeFails
    <3>3. QED
      BY <3>1, <3>2 DEF Fail, AfterFailure, worldVars
  <2>4. ASSUME NEW n \in Node, Scrape(n)
        PROVE  ProbeTypeOK'
    BY <2>4 DEF Scrape, worldVars
  <2>5. CASE ListFails
    BY <2>5 DEF ListFails, Fail, AfterFailure, worldVars
  <2>6. CASE ScrapeRaises
    BY <2>6 DEF ScrapeRaises, worldVars
  <2>7. CASE RestartProbe
    BY <2>7 DEF RestartProbe, worldVars
  <2>8. ASSUME NEW n \in Node, LosePod(n)
        PROVE  ProbeTypeOK'
    BY <2>8, ReachableIsBoolean DEF LosePod, WorldChanges, Pod, NotStarted
  <2>9. ASSUME NEW n \in Node, EnterEndpoint(n)
         PROVE  ProbeTypeOK'
    <3>1. EndpointOf(n) \in Endpoint
      BY <2>9 DEF EnterEndpoint, EndpointOf, Endpoint, Pod
    <3>2. QED
      BY <2>9, <3>1, ReachableIsBoolean DEF EnterEndpoint, WorldChanges
  <2>10. ASSUME NEW n \in Node, NEW a \in Address, ReplacePod(n, a)
         PROVE  ProbeTypeOK'
    BY <2>10, ReachableIsBoolean DEF ReplacePod, WorldChanges, Pod
  <2>11. ASSUME NEW n \in Node, NEW ready \in BOOLEAN, NEW answers \in BOOLEAN,
                PodTurns(n, ready, answers)
         PROVE  ProbeTypeOK'
    BY <2>11, ReachableIsBoolean DEF PodTurns, WorldChanges, Pod
  <2>12. ASSUME NEW e \in listed, RemoveEndpoint(e)
         PROVE  ProbeTypeOK'
    BY <2>12, ReachableIsBoolean DEF RemoveEndpoint, WorldChanges
  <2>13. CASE UNCHANGED vars
    BY <2>13 DEF vars, worldVars, probeVars
  <2>14. QED
    BY <2>1, <2>2, <2>3, <2>4, <2>5, <2>6, <2>7, <2>8, <2>9, <2>10,
       <2>11, <2>12, <2>13
       DEF ProbeNext, ProbeGoes, ProbeFails, World
<1>3. QED
  BY <1>1, <1>2, PTL DEF ProbeSpec

-----------------------------------------------------------------------------
(* Where an address comes from: what is listed for a node, cached or being  *)
(* scraped was the address of that node's pod at some time.                 *)

Traced ==
  /\ \A n \in Node : pod[n].addr \in held[n] \cup {NoAddress}
  /\ \A e \in listed : e.addr \in held[e.node]
  /\ cached \in held[Self] \cup {NoAddress}
  /\ url \in held[Self] \cup {NoAddress}
  /\ MisattributedOnlyByReuse

LEMMA TracedInit == ProbeInit => Traced
BY ProbeAssumption
   DEF ProbeInit, Traced, MisattributedOnlyByReuse, NotStarted, Unprobed

\* The addresses a node has had only become more.
LEMMA HeldGrows ==
  ASSUME ProbeTypeOK, [ProbeNext]_vars, NEW n \in Node
  PROVE  held[n] \subseteq held'[n]
<1>1. ASSUME NEW m \in Node, NEW a \in Address, ReplacePod(m, a)
      PROVE  held[n] \subseteq held'[n]
  BY <1>1 DEF ReplacePod, ProbeTypeOK
<1>2. \/ UNCHANGED held
      \/ \E m \in Node, a \in Address : ReplacePod(m, a)
  BY DEF ProbeNext, ProbeGoes, ProbeFails, World, Begin, Resolve, LookupFails,
         ListFails, Fail, ScrapeFails, Scrape, ScrapeRaises, RestartProbe, LosePod,
         EnterEndpoint, PodTurns, RemoveEndpoint, vars, worldVars
<1>3. QED
  BY <1>1, <1>2

\* A step of collect keeps what the addresses are traced to.
LEMMA TracedByProbe ==
  ASSUME ProbeTypeOK, Traced, ProbeGoes \/ ProbeFails
  PROVE  Traced'
<1> USE ProbeAssumption DEF ProbeTypeOK, Traced, MisattributedOnlyByReuse
<1>1. CASE Begin
  BY <1>1 DEF Begin, worldVars
<1>2. ASSUME NEW e \in listed, Resolve(e)
      PROVE  Traced'
  BY <1>2 DEF Resolve, Local, worldVars
<1>3. CASE LookupFails \/ ScrapeFails \/ ListFails
  BY <1>3 DEF LookupFails, ScrapeFails, ListFails, Fail, AfterFailure, worldVars,
              Unreachable
<1>4. ASSUME NEW n \in Node, Scrape(n)
      PROVE  Traced'
  <2>1. url \in held[Self] /\ url \in held[n]
    BY <1>4 DEF Scrape, AnswersAt
  <2>2. QED
    BY <1>4, <2>1 DEF Scrape, worldVars
<1>5. CASE ScrapeRaises
  BY <1>5 DEF ScrapeRaises, worldVars
<1>6. CASE RestartProbe
  BY <1>6 DEF RestartProbe, worldVars, Unprobed
<1>7. QED
  BY <1>1, <1>2, <1>3, <1>4, <1>5, <1>6 DEF ProbeGoes, ProbeFails

\* So does a step of the pods and their EndpointSlices.
LEMMA TracedByWorld ==
  ASSUME ProbeTypeOK, Traced, World
  PROVE  Traced'
<1> USE ProbeAssumption DEF ProbeTypeOK, Traced, WorldChanges
<1>1. \A n \in Node : held[n] \subseteq held'[n]
  BY HeldGrows DEF ProbeNext
<1>2. /\ UNCHANGED <<cached, url, result>>
      /\ MisattributedOnlyByReuse'
  <2>1. UNCHANGED <<cached, url, result>>
    BY DEF World, LosePod, EnterEndpoint, ReplacePod, PodTurns, RemoveEndpoint
  <2>2. QED
    BY <1>1, <2>1 DEF MisattributedOnlyByReuse
<1>3. /\ cached' \in held'[Self] \cup {NoAddress}
      /\ url' \in held'[Self] \cup {NoAddress}
  BY <1>1, <1>2
<1>4. \A n \in Node : pod'[n].addr \in held'[n] \cup {NoAddress}
  <2> SUFFICES ASSUME NEW n \in Node PROVE pod'[n].addr \in held'[n] \cup {NoAddress}
    OBVIOUS
  <2>1. \/ pod'[n].addr = pod[n].addr
        \/ pod'[n].addr = NoAddress
        \/ pod'[n].addr \in held'[n]
    <3>1. ASSUME NEW m \in Node, LosePod(m)
          PROVE  pod'[n].addr \in {pod[n].addr, NoAddress}
      BY <3>1 DEF LosePod, NotStarted
    <3>2. ASSUME NEW m \in Node, NEW ready \in BOOLEAN, NEW answers \in BOOLEAN,
                 PodTurns(m, ready, answers)
          PROVE  pod'[n].addr = pod[n].addr
      BY <3>2 DEF PodTurns, Pod
    <3>3. ASSUME NEW m \in Node, NEW a \in Address, ReplacePod(m, a)
          PROVE  pod'[n].addr = pod[n].addr \/ pod'[n].addr \in held'[n]
      BY <3>3 DEF ReplacePod
    <3>4. QED
      BY <3>1, <3>2, <3>3 DEF World, EnterEndpoint, RemoveEndpoint
  <2>2. QED
    BY <1>1, <2>1
<1>5. \A e \in listed' : e.addr \in held'[e.node]
  <2> SUFFICES ASSUME NEW e \in listed' PROVE e.addr \in held'[e.node]
    OBVIOUS
  <2>1. CASE e \in listed
    BY <1>1, <2>1 DEF Endpoint
  <2>2. CASE e \notin listed
    <3>1. PICK n \in Node : EnterEndpoint(n) /\ e = EndpointOf(n)
      BY <2>2 DEF World, LosePod, EnterEndpoint, ReplacePod, PodTurns, RemoveEndpoint
    <3>2. e.node = n /\ e.addr = pod[n].addr
      BY <3>1 DEF EndpointOf
    <3>3. QED
      BY <1>1, <3>1, <3>2 DEF EnterEndpoint
  <2>3. QED
    BY <2>1, <2>2
<1>6. QED
  BY <1>2, <1>3, <1>4, <1>5

(* A collect reports another node's GPUs only if that node was given an     *)
(* address that this node's exporter has had (NodeLocalEndpointResolver).   *)
THEOREM MisattributedOnlyByReuseHolds == ProbeSpec => []MisattributedOnlyByReuse
<1>1. ProbeTypeOK /\ Traced /\ [ProbeNext]_vars => Traced'
  <2> SUFFICES ASSUME ProbeTypeOK, Traced, [ProbeNext]_vars PROVE Traced'
    OBVIOUS
  <2>1. CASE UNCHANGED vars
    BY <2>1 DEF vars, worldVars, probeVars, Traced, MisattributedOnlyByReuse
  <2>2. QED
    BY <2>1, TracedByProbe, TracedByWorld DEF ProbeNext
<1>2. Traced => MisattributedOnlyByReuse
  BY DEF Traced
<1>3. QED
  BY <1>1, <1>2, TracedInit, ProbeTypeCorrect, PTL DEF ProbeSpec

-----------------------------------------------------------------------------
(* Why no second collection misses: the first has emptied the cache, and    *)
(* what the second reads in the EndpointSlices is true.                     *)

Healing ==
  /\ missed \in {0, 1}
  /\ quiet => Reachable
  /\ missed = 1 =>
       \/ cached = NoAddress /\ step # "scrape"
       \/ step = "scrape" /\ (quiet => url = pod[Self].addr)

\* The node's own pod and its entry cannot change together.
LEMMA SameWhileReachable ==
  ASSUME ProbeTypeOK, World, Reachable, Reachable'
  PROVE  pod'[Self].addr = pod[Self].addr
<1>1. EndpointOf(Self) \in listed /\ EndpointOf(Self)' \in listed'
  BY DEF Reachable, Candidates
<1>2. CASE UNCHANGED pod
  BY <1>2
<1>3. CASE UNCHANGED listed
  <2>1. EndpointOf(Self)' \in Candidates
    BY <1>3 DEF Reachable, Candidates, Local
  <2>2. EndpointOf(Self)' = EndpointOf(Self)
    BY <2>1 DEF Reachable
  <2>3. QED
    BY <2>2 DEF EndpointOf
<1>4. QED
  BY <1>2, <1>3
     DEF World, LosePod, EnterEndpoint, ReplacePod, PodTurns, RemoveEndpoint

LEMMA HealingByProbe ==
  ASSUME ProbeTypeOK, Healing, ProbeGoes \/ ProbeFails
  PROVE  Healing'
<1> USE ProbeAssumption DEF ProbeTypeOK, Healing
<1>0. UNCHANGED worldVars /\ (Reachable' <=> Reachable)
  BY DEF ProbeGoes, ProbeFails, Begin, Resolve, LookupFails, ListFails, Fail,
         ScrapeFails, Scrape, ScrapeRaises, RestartProbe, Reachable, Candidates,
         Local, EndpointOf, worldVars
<1>1. CASE Begin
  BY <1>0, <1>1 DEF Begin, Known, worldVars
<1>2. ASSUME NEW e \in listed, Resolve(e)
      PROVE  Healing'
  BY <1>0, <1>2 DEF Resolve, Reachable, Candidates, EndpointOf, worldVars
<1>3. CASE LookupFails
  BY <1>3 DEF LookupFails, Fail, AfterFailure, Reachable
<1>4. CASE ScrapeFails
  <2>1. ~(quiet /\ missed = 1)
    BY <1>4 DEF ScrapeFails, AnswersAt, Reachable
  <2>2. QED
    BY <1>4, <2>1 DEF ScrapeFails, Fail, AfterFailure
<1>5. CASE ListFails
  BY <1>5 DEF ListFails, Fail, AfterFailure
<1>6. CASE ScrapeRaises \/ \E n \in Node : Scrape(n)
  BY <1>6 DEF Scrape, ScrapeRaises
<1>7. CASE RestartProbe
  BY <1>7 DEF RestartProbe
<1>8. QED
  BY <1>1, <1>2, <1>3, <1>4, <1>5, <1>6, <1>7 DEF ProbeGoes, ProbeFails

LEMMA HealingByWorld ==
  ASSUME ProbeTypeOK, Healing, World
  PROVE  Healing'
<1>1. UNCHANGED <<cached, url, step, missed>> /\ quiet' = (quiet /\ Reachable')
  BY DEF World, LosePod, EnterEndpoint, ReplacePod, PodTurns, RemoveEndpoint,
         WorldChanges
<1>2. quiet' => Reachable' /\ pod'[Self].addr = pod[Self].addr
  BY <1>1, SameWhileReachable DEF Healing
<1>3. QED
  BY <1>1, <1>2 DEF Healing

(* Of the collections during which the node's exporter could be found and   *)
(* reached, no two in a row reach nothing (ExporterProbe.collect with       *)
(* invalidate).                                                             *)
THEOREM SelfHealsHolds == ProbeSpec => []SelfHeals
<1>1. ProbeInit => Healing
  BY DEF ProbeInit, Healing
<1>2. ProbeTypeOK /\ Healing /\ [ProbeNext]_vars => Healing'
  <2> SUFFICES ASSUME ProbeTypeOK, Healing, [ProbeNext]_vars PROVE Healing'
    OBVIOUS
  <2>1. CASE UNCHANGED vars
    BY <2>1 DEF vars, worldVars, probeVars, Healing, Reachable, Candidates, Local,
                EndpointOf
  <2>2. QED
    BY <2>1, HealingByProbe, HealingByWorld DEF ProbeNext
<1>3. Healing => SelfHeals
  BY DEF Healing, SelfHeals
<1>4. QED
  BY <1>1, <1>2, <1>3, ProbeTypeCorrect, PTL DEF ProbeSpec
=============================================================================

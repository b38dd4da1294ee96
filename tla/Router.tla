------------------------------- MODULE Router -------------------------------
(***************************************************************************)
(* Router (src/network/router.cpp): a router's link breakers, its route    *)
(* computation (Dijkstra from the router itself, then one table entry per  *)
(* destination) and its longest-prefix lookup.  One thread uses a router.  *)
(*                                                                         *)
(* A topology g is a function: DOMAIN g are the keys of topology_graph,    *)
(* g[u] maps u's neighbours to link costs (a list of links in the code; of *)
(* several links to one neighbour g has one).  Costs are uint32_t and wrap.*)
(* Hash maps are iterated in no particular order.  A breaker's clock is    *)
(* reduced to "the recovery timeout has passed" (ripe).                    *)
(***************************************************************************)
EXTENDS Addressing

CONSTANTS
  Nodes,             \* node ids
  Source,            \* id() of the router
  Links,             \* neighbours whose links are reported on
  Topologies,        \* arguments of compute_routes()
  AddressPlans,      \* ... with the nodes' addresses and prefix lengths
  MaxDist,           \* numeric_limits<uint32_t>::max()
  OpenCost,          \* 999999
  FailureThreshold,  \* of the breakers
  Addresses,         \* arguments of lookup_route()
  NoNode,            \* no node
  MaxComputes        \* bound on the calls of compute_routes()

ASSUME RouterAssumption ==
  /\ IsFiniteSet(Nodes) /\ Nodes \subseteq Nat
  /\ Source \in Nodes
  /\ Links \subseteq Nodes
  /\ NoNode \notin Nodes
  /\ MaxDist \in Nat
  /\ OpenCost \in 1..MaxDist
  /\ FailureThreshold \in Nat \ {0}
  /\ MaxComputes \in Nat
  /\ Addresses \subseteq 0..AllOnes
  /\ \A g \in Topologies :
       /\ DOMAIN g \subseteq Nodes
       /\ \A u \in DOMAIN g : DOMAIN g[u] \subseteq Nodes
       /\ \A u \in DOMAIN g : \A v \in DOMAIN g[u] : g[u][v] \in 0..MaxDist
  /\ \A plan \in AddressPlans :
       /\ \A v \in DOMAIN plan.ip : v \in Nodes /\ plan.ip[v] \in 0..AllOnes
       /\ \A v \in DOMAIN plan.mask : v \in Nodes /\ plan.mask[v] \in 0..Width

VARIABLES
  breaker,       \* link_breakers_
  table,         \* routing_table_
  rpc,           \* where the router is in compute_routes()
  topo,          \* topology_graph
  node_to_ip,    \* node_to_ip
  node_to_mask,  \* node_to_mask, as the prefix lengths of the masks
  distances,     \* distances
  parent,        \* parent
  heap,          \* min_heap
  avoid,         \* neighbours whose circuit was found open
  todo,          \* build: the destinations still to be looked at
  dest,          \* build: the destination
  current,       \* build: the node that walks from it to the source
  answer,        \* what lookup_route() last returned
  computes       \* calls of compute_routes() so far

computation == <<topo, node_to_ip, node_to_mask, distances, parent, heap, avoid>>
build == <<todo, dest, current>>
vars == <<breaker, table, rpc, computation, build, answer, computes>>

NewBreaker == [state |-> "Closed", failures |-> 0, successes |-> 0, ripe |-> FALSE]

Init ==
  /\ breaker = [v \in Nodes |-> NewBreaker]
  /\ table = {}
  /\ rpc = "idle"
  /\ topo = <<>>
  /\ node_to_ip = <<>>
  /\ node_to_mask = <<>>
  /\ distances = <<>>
  /\ parent = <<>>
  /\ heap = {}
  /\ avoid = {}
  /\ todo = {}
  /\ dest = NoNode
  /\ current = NoNode
  /\ answer = NoNode
  /\ computes = 0

-----------------------------------------------------------------------------
(* The breakers, called by one thread (see CircuitBreaker).                *)

TransitionTo(new) == [NewBreaker EXCEPT !.state = new]

\* get_state()
Refresh(b) == IF b.state = "Open" /\ b.ripe THEN TransitionTo("HalfOpen") ELSE b

RecordSuccess(old) ==
  LET b == Refresh(old) IN
  IF b.state = "HalfOpen" /\ b.successes + 1 >= 3 THEN TransitionTo("Closed")
  ELSE IF b.state = "HalfOpen" THEN [b EXCEPT !.successes = @ + 1]
  ELSE IF b.state = "Closed" THEN [b EXCEPT !.failures = 0]
  ELSE b

RecordFailure(old) ==
  LET b == Refresh(old) IN
  IF b.state = "HalfOpen" \/ (b.state = "Closed" /\ b.failures + 1 >= FailureThreshold)
  THEN TransitionTo("Open")
  ELSE IF b.state = "Closed" THEN [b EXCEPT !.failures = @ + 1]
  ELSE b

\* record_link_success(), record_link_failure(), get_link_state()
RecordLink(v) ==
  /\ rpc = "idle"
  /\ \E b \in {RecordSuccess(breaker[v]), RecordFailure(breaker[v]), Refresh(breaker[v])} :
       breaker' = [breaker EXCEPT ![v] = b]
  /\ UNCHANGED <<table, rpc, computation, build, answer, computes>>

\* The recovery timeout of an open circuit passes.
Ripen(v) ==
  /\ rpc = "idle"
  /\ breaker[v].state = "Open"
  /\ breaker' = [breaker EXCEPT ![v].ripe = TRUE]
  /\ UNCHANGED <<table, rpc, computation, build, answer, computes>>

-----------------------------------------------------------------------------
(* compute_routes()                                                        *)

\* Mutated form of ClearedTable: the entries are kept.
KeptTable == table

\* routing_table_.clear()
ClearedTable == {}

\* The table is cleared; a source without an entry in the graph ends the call.
ComputeRoutes(g, plan) ==
  /\ rpc = "idle"
  /\ computes < MaxComputes
  /\ computes' = computes + 1
  /\ table' = ClearedTable
  /\ topo' = g
  /\ node_to_ip' = plan.ip
  /\ node_to_mask' = plan.mask
  /\ avoid' = {}
  /\ parent' = <<>>
  /\ \/ /\ Source \in DOMAIN g
        /\ rpc' = "dijkstra"
        /\ distances' = [v \in DOMAIN g |-> IF v = Source THEN 0 ELSE MaxDist]
        /\ heap' = {<<0, Source>>}
     \/ /\ Source \notin DOMAIN g
        /\ rpc' = "idle"
        /\ distances' = <<>>
        /\ heap' = {}
  /\ UNCHANGED <<breaker, build, answer>>

\* The top of the heap: the least pair.
Top == CHOOSE e \in heap : \A f \in heap : e[1] < f[1] \/ (e[1] = f[1] /\ e[2] <= f[2])

\* Mutated form of LinkCost: the breakers are not asked.
LinkCostIgnoringBreakers(u, v, open) == topo[u][v]

\* cost, given the neighbours whose circuit is open
LinkCost(u, v, open) == IF u = Source /\ v \in open THEN OpenCost ELSE topo[u][v]

\* Mutated form of Popped: the top stays.
PoppedNothing == heap

\* min_heap.pop()
Popped == heap \ {Top}

\* A pair that was superseded while it was in the heap.
Outdated(e) == e[1] > distances[e[2]]

Skip ==
  /\ rpc = "dijkstra"
  /\ heap # {}
  /\ Outdated(Top) \/ Top[2] \notin DOMAIN topo
  /\ heap' = Popped
  /\ UNCHANGED <<breaker, table, rpc, topo, node_to_ip, node_to_mask, distances, parent, avoid, build, answer, computes>>

\* distances[v]: operator[] inserts a zero for a node that has no entry.
Distance(v) == IF v \in DOMAIN distances THEN distances[v] ELSE 0

\* Mutated form of Extended: the distance so far is left out.
ExtendedFromZero(d, cost) == cost

\* current_dist + cost, in uint32_t arithmetic
Extended(d, cost) == (d + cost) % (MaxDist + 1)

\* The neighbours of the top are relaxed; asking the breakers of the source's
\* links may take an open circuit to half-open.
Relax ==
  LET u == Top[2]
      asked == IF u = Source THEN DOMAIN topo[u] ELSE {}
      open == {v \in asked : Refresh(breaker[v]).state = "Open"}
      NewDist(v) == Extended(Top[1], LinkCost(u, v, open))
      better == {v \in DOMAIN topo[u] : NewDist(v) < Distance(v)}
  IN
  /\ rpc = "dijkstra"
  /\ heap # {}
  /\ ~Outdated(Top)
  /\ u \in DOMAIN topo
  /\ breaker' = [v \in Nodes |-> IF v \in asked THEN Refresh(breaker[v]) ELSE breaker[v]]
  /\ avoid' = avoid \union open
  /\ distances' = [v \in DOMAIN distances \union DOMAIN topo[u] |->
                     IF v \in better THEN NewDist(v) ELSE Distance(v)]
  /\ parent' = [v \in DOMAIN parent \union better |-> IF v \in better THEN u ELSE parent[v]]
  /\ heap' = Popped \union {<<NewDist(v), v>> : v \in better}
  /\ UNCHANGED <<table, rpc, topo, node_to_ip, node_to_mask, build, answer, computes>>

HeapEmpty ==
  /\ rpc = "dijkstra"
  /\ heap = {}
  /\ rpc' = "build"
  /\ todo' = DOMAIN distances
  /\ UNCHANGED <<breaker, table, computation, dest, current, answer, computes>>

Unreachable(v) == v = Source \/ distances[v] >= OpenCost

\* The next destination, or the next one to be left out.
NextDest(v) ==
  /\ rpc = "build"
  /\ v \in todo
  /\ todo' = todo \ {v}
  /\ \/ /\ Unreachable(v)
        /\ UNCHANGED <<rpc, dest, current>>
     \/ /\ ~Unreachable(v)
        /\ rpc' = "walk"
        /\ dest' = v
        /\ current' = v
  /\ UNCHANGED <<breaker, table, computation, answer, computes>>

FirstHop == current \in DOMAIN parent => parent[current] = Source

\* One step towards the source.
Walk ==
  /\ rpc = "walk"
  /\ ~FirstHop
  /\ current' = parent[current]
  /\ UNCHANGED <<breaker, table, rpc, computation, todo, dest, answer, computes>>

\* The entry for dest; its dest is an observer.
NewEntry ==
  LET mask == MaskOfPrefix(node_to_mask[dest])
  IN [dest |-> dest, destination_subnet |-> BitAnd(node_to_ip[dest], mask), mask |-> mask,
      next_hop |-> current, metric |-> distances[dest]]

\* The entry is added unless an address or a mask is missing.
AddEntry ==
  /\ rpc = "walk"
  /\ FirstHop
  /\ rpc' = "build"
  /\ table' = IF {current, dest} \subseteq DOMAIN node_to_ip /\ dest \in DOMAIN node_to_mask
              THEN table \union {NewEntry}
              ELSE table
  /\ UNCHANGED <<breaker, computation, build, answer, computes>>

\* The locals go out of scope; topo and avoid stay as observers.
BuildDone ==
  /\ rpc = "build"
  /\ todo = {}
  /\ rpc' = "idle"
  /\ distances' = <<>>
  /\ parent' = <<>>
  /\ dest' = NoNode
  /\ current' = NoNode
  /\ UNCHANGED <<breaker, table, topo, node_to_ip, node_to_mask, heap, avoid, todo, answer, computes>>

Computing == Skip \/ Relax \/ HeapEmpty \/ (\E v \in Nodes : NextDest(v)) \/ Walk \/ AddEntry \/ BuildDone

-----------------------------------------------------------------------------
\* Mutated form of Longer: the shorter prefix wins.
Shorter(e, f) == PrefixLength(e.mask) < PrefixLength(f.mask)

Longer(e, f) == PrefixLength(e.mask) > PrefixLength(f.mask)

\* lookup_route(): among equally long prefixes the first one in the table.
LookupRoute(a) ==
  LET matching == {e \in table : BitAnd(a, e.mask) = BitAnd(e.destination_subnet, e.mask)} IN
  /\ rpc = "idle"
  /\ \/ /\ matching = {}
        /\ answer' = NoNode
     \/ \E e \in matching :
          /\ \A f \in matching : ~Longer(f, e)
          /\ answer' = e.next_hop
  /\ UNCHANGED <<breaker, table, rpc, computation, build, computes>>

Next ==
  \/ \E v \in Links : RecordLink(v) \/ Ripen(v)
  \/ \E g \in Topologies, plan \in AddressPlans : ComputeRoutes(g, plan)
  \/ Computing
  \/ \E a \in Addresses : LookupRoute(a)

Spec == Init /\ [][Next]_vars

\* A call of compute_routes() runs to its end.
FairSpec == Spec /\ WF_vars(Computing)

-----------------------------------------------------------------------------
(* Reference definition: the paths of a topology g and their costs, given  *)
(* the neighbours whose circuit is open.                                   *)
PathsTo(g, v) ==
  {p \in UNION {[1..n -> Nodes] : n \in 2..Cardinality(Nodes)} :
     /\ p[1] = Source
     /\ p[Len(p)] = v
     /\ \A i \in 1..Len(p)-1 : p[i] \in DOMAIN g /\ p[i+1] \in DOMAIN g[p[i]]}

PathCost(g, open, p) ==
  LET cost[i \in 1..Len(p)] ==
        IF i = 1 THEN 0
        ELSE cost[i-1] + IF p[i-1] = Source /\ p[i] \in open THEN OpenCost ELSE g[p[i-1]][p[i]]
  IN  cost[Len(p)]

Shortest(g, open, v) == Min({PathCost(g, open, p) : p \in PathsTo(g, v)})

ShortestPaths(g, open, v) == {p \in PathsTo(g, v) : PathCost(g, open, p) = Shortest(g, open, v)}

TableCorrect ==
  LET listed == {e.dest : e \in table}
      \* The destinations that the table may have ...
      reachable == {v \in (DOMAIN node_to_ip \intersect DOMAIN node_to_mask) \ {Source} :
                      PathsTo(topo, v) # {} /\ Shortest(topo, avoid, v) < OpenCost}
      \* ... and those it must have: every shortest path has an addressed next hop.
      routable == {v \in reachable :
                     \A p \in ShortestPaths(topo, avoid, v) : p[2] \in DOMAIN node_to_ip}
  IN  /\ listed \subseteq reachable
      /\ routable \subseteq listed
      /\ Cardinality(table) = Cardinality(listed)
      /\ \A e \in table :
           /\ e.metric = Shortest(topo, avoid, e.dest)
           /\ \E p \in ShortestPaths(topo, avoid, e.dest) : p[2] = e.next_hop

(* When compute_routes() returns, the table has one entry for each         *)
(* routable destination, whose metric is the cost of a shortest path and   *)
(* whose next hop starts one; links with an open circuit cost OpenCost.    *)
ShortestRoutes == [][rpc # "idle" /\ rpc' = "idle" => TableCorrect']_vars

(* A lookup never leads over a link whose circuit was open when the table  *)
(* was computed, nor to a node that is no neighbour of the router.         *)
AnswerUsable ==
  [][answer' # answer /\ answer' # NoNode =>
       Source \in DOMAIN topo /\ answer' \in DOMAIN topo[Source] \ avoid]_vars

(* Parsing, printing, masks and prefix lengths agree with each other (see  *)
(* AddressingAgrees), and the masks and subnets that the table was built   *)
(* with are the ones that the text of the mask and the owner's own subnet  *)
(* test give.                                                              *)
AddressesAgree ==
  /\ AddressingAgrees
  /\ \A e \in table :
       /\ MaskOfText(AddressText(e.mask)) = e.mask
       /\ PrefixLength(e.mask) = node_to_mask[e.dest]
       /\ IsLocal(node_to_ip[e.dest], e.mask, e.destination_subnet)

\* The entries whose destination has the address in its subnet.
Containing(a) == {e \in table : SamePrefix(a, node_to_ip[e.dest], node_to_mask[e.dest])}

(* A lookup finds a route exactly when a destination of the table has the  *)
(* prefix of the address, and never takes the way of a less specific one:  *)
(* the answer is the next hop of a longest prefix, whatever the masks and  *)
(* subnets in the entries were computed from.                              *)
LongestPrefix ==
  [][\A a \in Addresses : LookupRoute(a) =>
       IF Containing(a) = {} THEN answer' = NoNode
       ELSE \E e \in Containing(a) :
              /\ answer' = e.next_hop
              /\ \A f \in Containing(a) : node_to_mask[f.dest] <= node_to_mask[e.dest]]_vars

(* Types.                                                                  *)
TypeOK ==
  /\ breaker \in [Nodes -> [state : {"Closed", "Open", "HalfOpen"}, failures : 0..FailureThreshold-1,
                           successes : 0..2, ripe : BOOLEAN]]
  /\ table \subseteq [dest : Nodes, destination_subnet : 0..AllOnes, mask : 0..AllOnes,
                     next_hop : Nodes, metric : 0..OpenCost-1]
  /\ rpc \in {"idle", "dijkstra", "build", "walk"}
  /\ DOMAIN distances \subseteq Nodes /\ DOMAIN parent \subseteq DOMAIN distances
  /\ heap \subseteq (0..MaxDist) \X Nodes
  /\ DOMAIN node_to_ip \subseteq Nodes /\ DOMAIN node_to_mask \subseteq Nodes
  /\ avoid \subseteq Nodes /\ todo \subseteq Nodes
  /\ {dest, current, answer} \subseteq Nodes \union {NoNode}
  /\ computes \in 0..MaxComputes

(* Parents are strictly closer to the source, at every moment of the       *)
(* relaxation: the walk from a destination along parent never cycles, and  *)
(* it ends at a neighbour of the source.                                   *)
ParentsCloser ==
  /\ TypeOK
  /\ \A v \in DOMAIN parent :
       /\ parent[v] \in DOMAIN distances
       /\ distances[parent[v]] < distances[v]
       /\ v # Source

(* compute_routes() returns.                                               *)
ComputeReturns == rpc # "idle" ~> rpc = "idle"

-----------------------------------------------------------------------------
(***************************************************************************)
(* The inductive invariant behind ParentsCloser.  It needs costs that are  *)
(* positive and too small for a path to wrap around uint32_t, which        *)
(* compute_routes() takes for granted.                                     *)
(***************************************************************************)
MaxCost == (MaxDist - 1) \div Cardinality(Nodes)

SmallCosts ==
  /\ OpenCost <= MaxCost
  /\ \A g \in Topologies : \A u \in DOMAIN g : \A v \in DOMAIN g[u] : g[u][v] \in 1..MaxCost

\* The locals of compute_routes(), which exist while it runs.
Locals ==
  /\ IF rpc = "idle" THEN distances = <<>> /\ parent = <<>> /\ todo = {}
     ELSE /\ topo \in Topologies
          /\ \E plan \in AddressPlans : node_to_ip = plan.ip /\ node_to_mask = plan.mask
          /\ Source \in DOMAIN topo
          /\ DOMAIN topo \union todo \subseteq DOMAIN distances
          /\ distances[Source] = 0
  /\ rpc # "dijkstra" => heap = {}
  /\ rpc = "walk" =>
       /\ {current, dest} \subseteq DOMAIN distances
       /\ distances[dest] < OpenCost

\* A pair in the heap is as good as the distance, or was superseded.
HeapHolds ==
  \A e \in heap : /\ e[2] \in DOMAIN distances
                  /\ distances[e[2]] <= e[1] /\ e[1] < MaxDist

\* A node that was reached is no further than one link from some closer node.
Closer(v) == {u \in DOMAIN distances : distances[u] < distances[v]}

DistancesBounded ==
  \A v \in DOMAIN distances :
    /\ distances[v] \in 0..MaxDist
    /\ distances[v] = MaxDist \/ distances[v] <= MaxCost * Cardinality(Closer(v))

IInv == ParentsCloser /\ Locals /\ HeapHolds /\ DistancesBounded

(***************************************************************************)
(* The inductive invariant behind AnswerUsable.  It needs that every       *)
(* neighbour is a key of the topology (see the run of the stub node).      *)
(***************************************************************************)
NoStubs == \A g \in Topologies : \A u \in DOMAIN g : DOMAIN g[u] \subseteq DOMAIN g

\* What was reached has a parent, the source's links are relaxed once, and a
\* node that follows the source over an open circuit is at least OpenCost away.
Reached ==
  /\ \A v \in DOMAIN distances : v = Source \/ v \in DOMAIN parent \/ distances[v] = MaxDist
  /\ \A e \in heap : e[2] = Source => heap = {<<0, Source>>} /\ parent = <<>> /\ avoid = {}
  /\ \A v \in DOMAIN parent :
       parent[v] = Source =>
         v \in DOMAIN topo[Source] /\ (v \in avoid => distances[v] >= OpenCost)
  /\ rpc = "walk" => current # Source /\ distances[current] < OpenCost

NextHopsUsable ==
  /\ rpc = "dijkstra" => table = {}
  /\ \A e \in table : Source \in DOMAIN topo /\ e.next_hop \in DOMAIN topo[Source] \ avoid

-----------------------------------------------------------------------------
(* The inductive invariant behind ShortestRoutes, without stubs.           *)

\* Dijkstra: the links of a reached node that is no longer in the heap were
\* relaxed, and it is no further than what is in the heap; parents are such
\* nodes, and the distance grew by exactly the link from the parent.
Explored ==
  /\ rpc # "idle" => DOMAIN distances = DOMAIN topo
  /\ \A u \in DOMAIN distances :
       \/ distances[u] = MaxDist
       \/ <<distances[u], u>> \in heap
       \/ /\ \A v \in DOMAIN topo[u] : distances[v] <= distances[u] + LinkCost(u, v, avoid)
          /\ \A e \in heap : distances[u] <= e[1]
  /\ \A v \in DOMAIN parent :
       /\ v \in DOMAIN topo[parent[v]]
       /\ distances[v] = distances[parent[v]] + LinkCost(parent[v], v, avoid)
       /\ <<distances[parent[v]], parent[v]>> \notin heap

\* The ways from u to v along parents.
Trails(u, v) ==
  {p \in UNION {[1..n -> Nodes] : n \in 1..Cardinality(Nodes)} :
     /\ p[1] = u
     /\ p[Len(p)] = v
     /\ \A i \in 1..Len(p)-1 : p[i+1] \in DOMAIN parent /\ parent[p[i+1]] = p[i]}

Rows(v) == {e \in table : e.dest = v}

\* What the table has of a destination that was looked at.
Entered(v) ==
  IF v = Source \/ distances[v] >= OpenCost THEN Rows(v) = {}
  ELSE \E p \in Trails(Source, v) :
         IF {p[2], v} \subseteq DOMAIN node_to_ip /\ v \in DOMAIN node_to_mask
         THEN \E e \in table : Rows(v) = {e} /\ e.next_hop = p[2] /\ e.metric = distances[v]
         ELSE Rows(v) = {}

TableGrows ==
  /\ rpc = "walk" => dest \notin todo /\ dest # Source /\ Trails(current, dest) # {}
  /\ rpc \in {"build", "walk"} =>
       /\ \A e \in table : e.dest \in DOMAIN distances
       /\ \A v \in DOMAIN distances :
            IF v \in todo \/ (rpc = "walk" /\ v = dest) THEN Rows(v) = {} ELSE Entered(v)

-----------------------------------------------------------------------------
(* The inductive invariant behind LongestPrefix: an entry has the mask and *)
(* the subnet of its destination in the address plan of the last call.     *)
SubnetsHold ==
  /\ \A v \in DOMAIN node_to_ip : node_to_ip[v] \in 0..AllOnes
  /\ \A v \in DOMAIN node_to_mask : node_to_mask[v] \in 0..Width
  /\ \A e \in table :
       /\ e.dest \in DOMAIN node_to_ip \intersect DOMAIN node_to_mask
       /\ e.mask = MaskOfPrefix(node_to_mask[e.dest])
       /\ e.destination_subnet = BitAnd(node_to_ip[e.dest], e.mask)
=============================================================================

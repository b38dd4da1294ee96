------------------------------ MODULE MCRouter ------------------------------
(* TLC instances of Router, over three nodes.                              *)
EXTENDS Router, TLC

None == 0   \* no link

\* The links of the source, node 1, and those between nodes 2 and 3.  Links to
\* the source are on no shortest path.
MyLinks == {<<1, 2>>, <<1, 3>>, <<2, 3>>, <<3, 2>>}

\* The topology with the links that have a cost.
Graph(cost) ==
  [u \in Nodes |-> [v \in {w \in Nodes : <<u, w>> \in MyLinks /\ cost[<<u, w>>] # None} |-> cost[<<u, v>>]]]

\* Every graph whose links cost 1, or 3 (more than a detour) for the one from
\* the source to node 3, and one that does not know node 1.
AllGraphs ==
  {Graph(c) : c \in {d \in [MyLinks -> {None, 1, 3}] : \A l \in MyLinks \ {<<1, 3>>} : d[l] # 3}}
    \union {[u \in {2, 3} |-> IF u = 2 THEN (3 :> 1) ELSE (2 :> 1)]}

\* A stub node: it is a neighbour and has no neighbours of its own.
Stub == {[u \in {1, 2} |-> IF u = 1 THEN (2 :> 3) ELSE (1 :> 3 @@ 3 :> 1)]}

\* Octets have two bits: 4 and 10 are too large.
Numerals == {<<>>, <<2>>, <<0, 3>>, <<4>>, <<1, 0>>, <<3, Other>>}

\* Nodes 2 and 3 are 1.0.2.2 and 1.0.2.3.
Ip(nodes) == [v \in nodes |-> ParseAddress(<<1, Dot, 0, Dot, 2, Dot, v>>)]

\* Node 2 is the default route and node 3 has a subnet of its own; node 2 has
\* no address; node 3 has no mask.
Plans == {[ip |-> Ip(Nodes),  mask |-> (2 :> 0 @@ 3 :> 6)],
          [ip |-> Ip({1, 3}), mask |-> (2 :> 4 @@ 3 :> 4)],
          [ip |-> Ip(Nodes),  mask |-> (2 :> 4)]}

OnePlan == {[ip |-> Ip(Nodes), mask |-> (2 :> 6 @@ 3 :> 6)]}

\* In the subnets of the nodes, and only in that of the default route.
Targets == {ParseAddress(<<1, Dot, 0, Dot, 2, Dot, 1>>), ParseAddress(<<3, Dot, 0, Dot, 2, Dot, 3>>)}

\* The hypothesis of the proofs about Router.
ASSUME CostsAreSmall == SmallCosts
=============================================================================

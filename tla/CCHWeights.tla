----------------------------- MODULE CCHWeights -----------------------------
(***************************************************************************)
(* Weights on the edges of a contracted graph, as the second and the third *)
(* phase of a Customizable Contraction Hierarchy use them.  The edge <<x,  *)
(* y>>, x lower than y, has an upward weight (from x to y) and a downward  *)
(* weight (from y to x).                                                   *)
(***************************************************************************)
EXTENDS CCHTopology

CONSTANTS
    Graph,   \* the contracted graph: the higher neighbors of each node
    Inf,     \* INFINITY, u32::MAX / 2: no arc; two of them do not overflow
    Metrics  \* weights of the arcs of the input graph, see Metric below

ASSUME GraphAssumption ==
    /\ Graph \in Graphs
    /\ \A x \in Nodes : \A y \in Graph[x] : x < y
    /\ Chordal(Graph)

ASSUME InfAssumption == Inf \in Nat

Weight == 0 .. Inf

Edges == {e \in Nodes \X Nodes : e[2] \in Graph[e[1]]}

(* The weights of the parallel arcs from one node to another.              *)
Metric == [Nodes \X Nodes -> SUBSET Weight]

ASSUME MetricsAssumption == Metrics \subseteq Metric

(* Arcs lie on edges: contraction starts with the arcs of the input and    *)
(* removes none.                                                           *)
ASSUME ArcsAssumption ==
    \A m \in Metrics : \A a \in Nodes \X Nodes : m[a] # {} => a[1] = a[2] \/ a \in Edges \/ <<a[2], a[1]>> \in Edges

(* The lower neighbors of a node, CCH::inverted.                           *)
Below(x) == {z \in Nodes : x \in Graph[z]}

(* prepare_weights: an edge starts with its lightest arc.                  *)
RespectUp(metric) == [e \in Edges |-> Lowest(metric[e] \cup {Inf})]

RespectDown(metric) == [e \in Edges |-> Lowest(metric[<<e[2], e[1]>>] \cup {Inf})]

-----------------------------------------------------------------------------
(* Reference: DistancesBelow(metric)[k] gives for each pair of nodes the   *)
(* length of a shortest path whose inner nodes are lower than k, or Inf.   *)
DistancesBelow(metric) ==
    LET dist[k \in 0 .. N] ==
            IF k = 0
            THEN [e \in Nodes \X Nodes |->
                     IF e[1] = e[2] THEN 0 ELSE Lowest(metric[e] \cup {Inf})]
            ELSE LET before == dist[k - 1]
                 IN  [e \in Nodes \X Nodes |->
                         Lowest({before[e], before[<<e[1], k - 1>>] + before[<<k - 1, e[2]>>]})]
    IN  dist

Distances(metric) == DistancesBelow(metric)[N]

-----------------------------------------------------------------------------
(* Lower nodes z that form a lower triangle with the edge e.               *)
Triangles(e) == {z \in Below(e[1]) : e[2] \in Graph[z]}

(* What customize_basic leaves, as ComputesBasic of CCHCustomization says. *)
(* Of several best triangles the one with the lowest node is remembered.   *)
BasicUp(metric) == LET dist == DistancesBelow(metric) IN [e \in Edges |-> dist[e[1]][e]]

BasicDown(metric) == LET dist == DistancesBelow(metric) IN [e \in Edges |-> dist[e[1]][<<e[2], e[1]>>]]

BasicUpVia(metric) ==
    LET up == BasicUp(metric)
        down == BasicDown(metric)
    IN  [e \in Edges |->
            IF up[e] = RespectUp(metric)[e] THEN None
            ELSE Lowest({z \in Triangles(e) : down[<<z, e[1]>>] + up[<<z, e[2]>>] = up[e]})]

BasicDownVia(metric) ==
    LET up == BasicUp(metric)
        down == BasicDown(metric)
    IN  [e \in Edges |->
            IF down[e] = RespectDown(metric)[e] THEN None
            ELSE Lowest({z \in Triangles(e) : down[<<z, e[2]>>] + up[<<z, e[1]>>] = down[e]})]
=============================================================================

--------------------------- MODULE CCHContraction ---------------------------
(***************************************************************************)
(* engine/src/algo/customizable_contraction_hierarchy/contraction.rs: the  *)
(* first, metric independent phase.  FAST contracts the nodes in the order *)
(* of their ranks; all it does for a node is to merge the node's neighbors *)
(* but the lowest into the neighbor list of the lowest.  The result has to *)
(* be the graph that eager contraction (a clique on the neighbors of every *)
(* contracted node) would have built.                                      *)
(***************************************************************************)
EXTENDS CCHTopology

CONSTANT Inputs  \* graphs and node orders: records of links and rank

ASSUME InputsAssumption ==
    Inputs \subseteq [links : SUBSET (Nodes \X Nodes), rank : [Nodes -> Nodes]]

VARIABLES
    links,      \* pairs of node ids with an arc in the input graph
    rank,       \* the node order: the rank of each node id
    edges,      \* ContractionGraph::nodes, the higher neighbors of each rank
    contracted  \* PartialContractionGraph::id_offset, nodes split off so far

vars == <<links, rank, edges, contracted>>

(* Type invariant.  Neighbors are higher than their node: the index of the *)
(* lowest neighbor stays inside the part of the graph not yet split off.   *)
TypeOK ==
    /\ links \subseteq Nodes \X Nodes
    /\ rank \in [Nodes -> Nodes]
    /\ edges \in Graphs
    /\ \A x \in Nodes : edges[x] \subseteq x + 1 .. N - 1
    /\ contracted \in 0 .. N

Init ==
    /\ \E input \in Inputs :
        /\ links = input.links
        /\ rank = input.rank
        /\ edges = UpNeighbors(input.links, input.rank)
    /\ contracted = 0

(* One round of the loop in contract: remove_lowest, then the merge.       *)
ContractLowest ==
    /\ contracted < N
    /\ edges' = MergeIntoLowest(edges, contracted)
    /\ contracted' = contracted + 1
    /\ UNCHANGED <<links, rank>>

Spec == Init /\ [][ContractLowest]_vars

-----------------------------------------------------------------------------
(* The pair y, z of neighbors of a contracted node is an edge already, or  *)
(* the duty to make it one was handed on to a node still to be contracted. *)
PendingTriangles ==
    \A x \in 0 .. contracted - 1 : \A y, z \in edges[x] :
        y < z => \/ z \in edges[y]
                 \/ \E c \in contracted .. N - 1 : c < y /\ {y, z} \subseteq edges[c]

(* The parent in the elimination tree knows all other neighbors of its     *)
(* child.  The elimination tree query and the separator based tasks read   *)
(* "neighbors are ancestors" off this.                                     *)
ParentCollects ==
    \A x \in 0 .. contracted - 1 :
        edges[x] # {} => edges[x] \ {Lowest(edges[x])} \subseteq edges[Lowest(edges[x])]

(* When all nodes are contracted the graph is chordal, although contract   *)
(* never inserts an edge between two neighbors other than the lowest.      *)
ChordalWhenDone == contracted = N => Chordal(edges)

(* The nodes below x that a path through nodes below x connects to x.      *)
ReachedBelow(g, x) ==
    LET reached[k \in 0 .. N] ==
            IF k = 0 THEN {x}
            ELSE LET before == reached[k - 1]
                 IN  before \cup {v \in 0 .. x - 1 : \E u \in before : u \in g[v] \/ v \in g[u]}
    IN  reached[N]

(* What contraction has to compute: y is a neighbor of x if and only if    *)
(* they are joined by a path whose inner nodes are all lower than both.    *)
Fill(g) == [x \in Nodes |-> {y \in x + 1 .. N - 1 : \E u \in ReachedBelow(g, x) : y \in g[u]}]

(* No edge is missing and none is superfluous.                             *)
FillIsExact == contracted = N => edges = Fill([x \in Nodes |->
    {y \in x + 1 .. N - 1 : \E u, v \in Nodes : {rank[u], rank[v]} = {x, y} /\ <<u, v>> \in links}])
=============================================================================

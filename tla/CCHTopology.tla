---------------------------- MODULE CCHTopology -----------------------------
(***************************************************************************)
(* Operators on the graphs of a Customizable Contraction Hierarchy.  Nodes *)
(* are ranks 0 .. N - 1, and a graph is a function that gives every node   *)
(* the set of its neighbors of higher rank.  The code keeps these sets as  *)
(* sorted, duplicate free lists (Node::edges, then first_out and head).    *)
(***************************************************************************)
EXTENDS Integers

CONSTANT N  \* number of nodes

ASSUME NAssumption == N \in Nat

Nodes == 0 .. N - 1

(* No node: InRangeOption::NONE in the elimination tree.                   *)
None == -1

Graphs == [Nodes -> SUBSET Nodes]

(* The first element of a sorted neighbor list.                            *)
Lowest(S) == CHOOSE x \in S : \A y \in S : x <= y

(* Mutation of UpNeighbors: the arcs are not made undirected.              *)
UpNeighborsDirected(links, rank) ==
    [x \in Nodes |-> {y \in Nodes : y > x /\ \E l \in links : rank[l[1]] = x /\ rank[l[2]] = y}]

(* ContractionGraph::new: node ids are translated to ranks, loops dropped, *)
(* arcs made undirected, and each edge kept at its lower end only.  links  *)
(* are the pairs of node ids joined by at least one arc.                   *)
UpNeighbors(links, rank) ==
    [x \in Nodes |-> {y \in Nodes : y > x /\ \E l \in links : {rank[l[1]], rank[l[2]]} = {x, y}}]

(* Mutation of MergeIntoLowest: the list goes to the highest neighbor that *)
(* comes before the last.                                                  *)
MergeIntoSecond(g, x) ==
    LET rest == g[x] \ {Lowest(g[x])}
    IN  IF g[x] = {} \/ rest = {} THEN g ELSE [g EXCEPT ![Lowest(rest)] = @ \cup (rest \ {Lowest(rest)})]

(* split_first and merge_neighbors for the node x.                         *)
MergeIntoLowest(g, x) ==
    IF g[x] = {} THEN g ELSE [g EXCEPT ![Lowest(g[x])] = @ \cup (g[x] \ {Lowest(g[x])})]

(* build_elimination_tree: the parent of a node is its lowest neighbor.    *)
EliminationTree(edges) == [x \in Nodes |-> IF edges[x] = {} THEN None ELSE Lowest(edges[x])]

(* The nodes on the way from x to the root of its elimination tree.        *)
TreePath(parent, x) ==
    LET up[k \in 0 .. N] ==
            IF k = 0 THEN {x}
            ELSE LET below == up[k - 1]
                 IN  below \cup {parent[y] : y \in {z \in below : parent[z] # None}}
    IN  up[N]

(* Two neighbors of a node are neighbors of each other.                    *)
Chordal(edges) == \A x \in Nodes : \A y, z \in edges[x] : y < z => z \in edges[y]
=============================================================================

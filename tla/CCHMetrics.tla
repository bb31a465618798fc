----------------------------- MODULE CCHMetrics -----------------------------
(***************************************************************************)
(* What queries get from a customization, and the walk to the root of the  *)
(* elimination tree that most of them consist of:                          *)
(* engine/src/algo/customizable_contraction_hierarchy/mod.rs and           *)
(* query/stepped_elimination_tree.rs.                                      *)
(***************************************************************************)
EXTENDS CCHWeights

VARIABLE customized  \* the last metric and what customization, Basic or Perfect, made of it

Parent == EliminationTree(Graph)

(* customize: all edges, with the weights of basic customization.  Only    *)
(* properties refer to the metric and its distances.                       *)
Basic(m) ==
    [metric |-> m, dist |-> Distances(m), fw |-> Edges, bw |-> Edges, up |-> BasicUp(m), down |-> BasicDown(m),
     upVia |-> BasicUpVia(m), downVia |-> BasicDownVia(m)]

(* customize_perfect: only the edges on shortest paths, see ModifiedIsExact*)
(* of CCHPerfectCustomization.                                             *)
Perfect(m) ==
    LET basic == Basic(m)
    IN  [basic EXCEPT !.fw = {e \in Edges : basic.up[e] = basic.dist[e]},
                      !.bw = {e \in Edges : basic.down[e] = basic.dist[<<e[2], e[1]>>]}]

(* settle_next_node at x: the distances and the parents it leaves.         *)
Relaxed(dist, weight, edges, x) ==
    [v \in Nodes |-> IF <<x, v>> \in edges /\ dist[x] + weight[<<x, v>>] < dist[v]
                     THEN dist[x] + weight[<<x, v>>] ELSE dist[v]]

Parents(parents, dist, relaxed, x) == [v \in Nodes |-> IF relaxed[v] < dist[v] THEN x ELSE parents[v]]

(* EliminationTreeWalk::query to its end: the distances of the nodes above *)
(* t from it, and the parents, of which others than theirs are kept.       *)
Walked(weight, edges, t, parents) ==
    LET path == TreePath(Parent, t)
        walk[k \in 0 .. N] ==
            IF k = 0
            THEN [dist |-> [v \in Nodes |-> IF v = t THEN 0 ELSE Inf], parents |-> [parents EXCEPT ![t] = t]]
            ELSE LET before == walk[k - 1]
                     dist == Relaxed(before.dist, weight, edges, k - 1)
                 IN  IF k - 1 \in path
                     THEN [dist |-> dist, parents |-> Parents(before.parents, before.dist, dist, k - 1)]
                     ELSE before
    IN  walk[N]

(* Mutation of Middle: unpack_outgoing for both directions.                *)
MiddleUpwards(c, from, to) ==
    IF from < to THEN c.upVia[<<from, to>>] ELSE c.upVia[<<to, from>>]

(* unpack_outgoing and unpack_incoming: the lower node of the triangle     *)
(* that the edge between two nodes stands for in this direction, or None.  *)
Middle(c, from, to) ==
    IF from < to THEN c.upVia[<<from, to>>] ELSE c.downVia[<<to, from>>]
=============================================================================

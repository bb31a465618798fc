-------------------------- MODULE CCHCustomization --------------------------
(***************************************************************************)
(* What basic customization of a Customizable Contraction Hierarchy does,  *)
(* customize_basic in engine/src/algo/customizable_contraction_hierarchy/  *)
(* customization.rs, one node at a time.  The weights of the edges of a    *)
(* node become final in one step that reads the lower triangles of the     *)
(* edges; the steps may come in any order that finishes lower neighbors    *)
(* first.  The sequential loop over all ranks is one such order; the       *)
(* threads of CCHParallelCustomization produce others.                     *)
(***************************************************************************)
EXTENDS CCHWeights

VARIABLES
    metric,      \* weights of the input arcs
    up,          \* upward_weights
    down,        \* downward_weights
    upVia,       \* up_unpacking: lower node of the triangle that made the weight
    downVia,     \* down_unpacking
    customized   \* nodes whose edges have their final weight

vars == <<metric, up, down, upVia, downVia, customized>>

TypeOK ==
    /\ metric \in Metric
    /\ up \in [Edges -> Weight] /\ down \in [Edges -> Weight]
    /\ upVia \in [Edges -> Nodes \cup {None}] /\ downVia \in [Edges -> Nodes \cup {None}]
    /\ customized \subseteq Nodes

Init ==
    /\ metric \in Metrics
    /\ up = RespectUp(metric) /\ down = RespectDown(metric)
    /\ upVia = [e \in Edges |-> None] /\ downVia = [e \in Edges |-> None]
    /\ customized = {}

(* Length of the way over the lower node z, in the direction of e and      *)
(* against it.                                                             *)
UpOver(e, z) == down[<<z, e[1]>>] + up[<<z, e[2]>>]
DownOver(e, z) == down[<<z, e[2]>>] + up[<<z, e[1]>>]

UpRelaxed(e) == Lowest({up[e]} \cup {UpOver(e, z) : z \in Triangles(e)})

DownRelaxed(e) == Lowest({down[e]} \cup {DownOver(e, z) : z \in Triangles(e)})

(* Mutation of UpVia: weights that tie with the edge replace it.           *)
UpViaTies(e) ==
    IF Triangles(e) = {} THEN None ELSE Lowest({z \in Triangles(e) : UpOver(e, z) = UpRelaxed(e)} \cup {N})

(* The triangles are relaxed in ascending order of the lower node and only *)
(* a strictly lower weight counts: the first of the best is remembered.    *)
UpVia(e) ==
    IF UpRelaxed(e) = up[e] THEN None ELSE Lowest({z \in Triangles(e) : UpOver(e, z) = UpRelaxed(e)})

DownVia(e) ==
    IF DownRelaxed(e) = down[e] THEN None ELSE Lowest({z \in Triangles(e) : DownOver(e, z) = DownRelaxed(e)})

(* Mutation of CustomizeNode: lower nodes need not be finished.            *)
CustomizeNodeEarly(x) ==
    /\ x \notin customized
    /\ up' = [e \in Edges |-> IF e[1] = x THEN UpRelaxed(e) ELSE up[e]]
    /\ down' = [e \in Edges |-> IF e[1] = x THEN DownRelaxed(e) ELSE down[e]]
    /\ upVia' = [e \in Edges |-> IF e[1] = x THEN UpVia(e) ELSE upVia[e]]
    /\ downVia' = [e \in Edges |-> IF e[1] = x THEN DownVia(e) ELSE downVia[e]]
    /\ customized' = customized \cup {x}
    /\ UNCHANGED metric

CustomizeNode(x) ==
    /\ x \notin customized
    /\ Below(x) \subseteq customized
    /\ up' = [e \in Edges |-> IF e[1] = x THEN UpRelaxed(e) ELSE up[e]]
    /\ down' = [e \in Edges |-> IF e[1] = x THEN DownRelaxed(e) ELSE down[e]]
    /\ upVia' = [e \in Edges |-> IF e[1] = x THEN UpVia(e) ELSE upVia[e]]
    /\ downVia' = [e \in Edges |-> IF e[1] = x THEN DownVia(e) ELSE downVia[e]]
    /\ customized' = customized \cup {x}
    /\ UNCHANGED metric

Next == \E x \in Nodes : CustomizeNode(x)

Spec == Init /\ [][Next]_vars

-----------------------------------------------------------------------------
(* The lower triangle inequality on the edges of customized nodes.  With   *)
(* it every shortest path can be replaced, over its lowest inner nodes, by *)
(* an up-down path: this is what makes the elimination tree query exact.   *)
LowerTriangles ==
    \A e \in Edges : e[1] \in customized =>
        \A z \in Triangles(e) : up[e] <= UpOver(e, z) /\ down[e] <= DownOver(e, z)

(* An edge is as light as what it unpacks to: its two lower edges, whose   *)
(* weights did not change since, or the lightest arc of the metric.        *)
UnpackingIsExact ==
    \A e \in Edges :
        /\ upVia[e] = None => up[e] = RespectUp(metric)[e]
        /\ upVia[e] # None => upVia[e] \in Triangles(e) /\ up[e] = UpOver(e, upVia[e])
        /\ downVia[e] = None => down[e] = RespectDown(metric)[e]
        /\ downVia[e] # None => downVia[e] \in Triangles(e) /\ down[e] = DownOver(e, downVia[e])

(* The weight of a customized edge is the length of a shortest path over   *)
(* nodes below it, and it unpacks to the lowest of the triangles that      *)
(* reach this weight, if its own arc does not.                             *)
ComputesBasic ==
    LET upBasic == BasicUp(metric)
        downBasic == BasicDown(metric)
        upViaBasic == BasicUpVia(metric)
        downViaBasic == BasicDownVia(metric)
    IN  \A e \in Edges : e[1] \in customized =>
            /\ up[e] = upBasic[e] /\ down[e] = downBasic[e]
            /\ upVia[e] = upViaBasic[e] /\ downVia[e] = downViaBasic[e]
=============================================================================

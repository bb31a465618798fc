------------------------------ MODULE HubLabels -----------------------------
(***************************************************************************)
(* engine/src/algo/hl.rs: labels with the distances of hubs, computed from *)
(* a contraction hierarchy, such that any two nodes have a hub in common   *)
(* that is on a shortest path between them.                                *)
(***************************************************************************)
EXTENDS ContractionHierarchy

VARIABLES
    labels,    \* for each side and node, pairs of a hub and its distance
    unlabeled  \* number of nodes that have no labels yet

labelVars == <<labels, unlabeled>>
hubVars == <<hierarchyVars, labelVars>>

InitLabels ==
    /\ labels = [side \in Sides |-> [x \in Nodes |-> {}]]
    /\ unlabeled = N

InitHubs == InitLabels /\ \E m \in Metrics : InitHierarchy(m)

-----------------------------------------------------------------------------
(* Own labels and those of higher neighbors; of each hub the best one.     *)
Merged(side, x) ==
    LET all == {<<x, 0>>} \cup
               UNION {{<<l[1], l[2] + link.weight>> : l \in labels[side][link.node]} : link \in UpwardLinks(side, x)}
    IN  {l \in all : \A other \in all : other[1] = l[1] => l[2] <= other[2]}

(* The distances over each hub that two sets of labels have in common.     *)
Ways(from, to) == {<<p[1][1], p[1][2] + p[2][2]>> : p \in {q \in from \X to : q[1][1] = q[2][1]}}

(* Mutation of BestHub: the first common hub.                              *)
FirstHub(from, to) == Lowest({w[1] : w \in Ways(from, to)})

(* best_hub: the lowest of the best.                                       *)
BestHub(from, to) ==
    Lowest({w[1] : w \in {v \in Ways(from, to) : \A u \in Ways(from, to) : v[2] <= u[2]}})

(* The labels of a node, without the hubs that a higher one makes          *)
(* superfluous; incoming labels are compared with outgoing ones of which   *)
(* that is true already.                                                   *)
LabelNode ==
    /\ lowest = N /\ pairs = <<>> /\ ~panicked /\ phase = "contracting" /\ unlabeled > 0
    /\ LET x == unlabeled - 1
           merged == [labels EXCEPT !["fw"][x] = Merged("fw", x), !["bw"][x] = Merged("bw", x)]
           out == {l \in merged["fw"][x] : BestHub(merged["fw"][x], merged["bw"][l[1]]) = l[1]}
           pruned == [merged EXCEPT !["fw"][x] = out]
           in == {l \in merged["bw"][x] : BestHub(pruned["fw"][l[1]], merged["bw"][x]) = l[1]}
       IN  labels' = [pruned EXCEPT !["bw"][x] = in]
    /\ unlabeled' = unlabeled - 1
    /\ UNCHANGED hierarchyVars

(* The graphs go to a server or to the labels.                             *)
NextOfHubs == LabelNode \/ (unlabeled = N /\ NextOfHierarchy /\ UNCHANGED labelVars)

SpecOfHubs == InitHubs /\ [][NextOfHubs]_hubVars

-----------------------------------------------------------------------------
(* Of labeled nodes, each label is a distance, and the best common hub of  *)
(* two nodes gives theirs, though most labels were dropped: as soon as two *)
(* nodes have their labels, and no common hub if and only if there is no   *)
(* path.                                                                   *)
HubsAreExact ==
    \A x, y \in unlabeled .. N - 1 :
        /\ \A l \in labels["fw"][x] : l[2] = network.dist[<<x, l[1]>>]
        /\ \A l \in labels["bw"][x] : l[2] = network.dist[<<l[1], x>>]
        /\ network.dist[<<x, y>>] = Lowest({w[2] : w \in Ways(labels["fw"][x], labels["bw"][y])} \cup {Inf})
=============================================================================

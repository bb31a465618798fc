---------------------------- MODULE SeparatorTree ---------------------------
(***************************************************************************)
(* engine/src/algo/customizable_contraction_hierarchy/                     *)
(* separator_decomposition.rs and reorder.rs: the separator tree that is   *)
(* read off the elimination tree, the check that it can be customized in   *)
(* parallel, and the order that makes it pass the check.  A separator tree *)
(* is a record of                                                          *)
(*   nodes      the separator, from its highest to its lowest node         *)
(*   children   the sequence of the cells it separates                     *)
(*   num_nodes  the size of the separator and all its cells                *)
(***************************************************************************)
EXTENDS CCHTopology, Sequences, SequencesExt, FiniteSetsExt

Ascending(S) == SetToSortSeq(S, LAMBDA a, b : a < b)

SizeOf(trees) == FoldLeft(LAMBDA size, tree : size + tree.num_nodes, 0, trees)

(* SeparatorTree::new_subtree: a node with one child in the elimination    *)
(* tree and its child belong to the same separator; a separator ends at a  *)
(* node with no child or several, which are the cells.                     *)
SubTrees(parent) ==
    LET tree[x \in Nodes] ==
            LET cells == Ascending({c \in Nodes : parent[c] = x})
                subs == [i \in DOMAIN cells |-> tree[cells[i]]]
            IN  IF Len(cells) = 1
                THEN [subs[1] EXCEPT !.nodes = <<x>> \o @, !.num_nodes = @ + 1]
                ELSE [nodes |-> <<x>>, children |-> subs, num_nodes |-> 1 + SizeOf(subs)]
    IN  tree

(* SeparatorTree::new: the trees of the forest hang below an empty node.   *)
SeparatorTreeOf(parent) ==
    LET trees == SubTrees(parent)
        roots == Ascending({x \in Nodes : parent[x] = None})
    IN  [nodes |-> <<>>, children |-> [i \in DOMAIN roots |-> trees[roots[i]]], num_nodes |-> N]

(* SeparatorNodes stays Consecutive as long as each pushed node is the one *)
(* just below the last.                                                    *)
Consecutive(nodes) == \A i \in 1 .. Len(nodes) - 1 : nodes[i + 1] = nodes[i] - 1

(* The lowest id of a tree, provided that its ids are consecutive.         *)
RangeStart(tree) ==
    (IF tree.nodes = <<>> THEN tree.num_nodes - 1 ELSE tree.nodes[1]) + 1 - tree.num_nodes

RECURSIVE ValidForParallelization(_)

(* validate_for_parallelization: separators are consecutive, cells follow  *)
(* each other without gaps, larger cells first.                            *)
ValidForParallelization(tree) ==
    /\ Consecutive(tree.nodes)
    /\ \A i \in DOMAIN tree.children :
           RangeStart(tree.children[i]) = RangeStart(tree) + SizeOf(SubSeq(tree.children, 1, i - 1))
    /\ \A i \in 1 .. Len(tree.children) - 1 : tree.children[i].num_nodes >= tree.children[i + 1].num_nodes
    /\ \A i \in DOMAIN tree.children : ValidForParallelization(tree.children[i])

RECURSIVE UnsortedTrees(_), SizeSortedTrees(_)

(* Mutation of SizeSortedTrees: the children stay in the order they have.  *)
UnsortedTrees(tree) == {tree}

(* reorder_children_by_size: children in ascending order of their size, on *)
(* all levels.  The sort is unstable, every order of ties may come out.    *)
SizeSortedTrees(tree) ==
    LET ranks == DOMAIN tree.children
        sorted == {p \in [ranks -> ranks] :
                      /\ \A i, j \in ranks : i # j => p[i] # p[j]
                      /\ \A i, j \in ranks : i < j =>
                             tree.children[p[i]].num_nodes <= tree.children[p[j]].num_nodes}
        below == [i \in ranks |-> SizeSortedTrees(tree.children[i])]
        choices == {c \in [ranks -> UNION {below[i] : i \in ranks}] : \A i \in ranks : c[i] \in below[i]}
    IN  {[tree EXCEPT !.children = [i \in ranks |-> c[p[i]]]] : p \in sorted, c \in choices}

RECURSIVE ToOrdering(_)

(* to_ordering: separators before the cells they separate.                 *)
ToOrdering(tree) ==
    tree.nodes \o FlattenSeq([i \in DOMAIN tree.children |-> ToOrdering(tree.children[i])])

(* Mutation of ReorderedRank: the last step of the code is left out.       *)
ReorderedRankUnreversed(rank, tree) ==
    LET ordering == ToOrdering(tree)
    IN  [v \in Nodes |-> (CHOOSE i \in 1 .. N : ordering[i] = rank[v]) - 1]

(* reorder_for_seperator_based_customization: the ordering is reversed,    *)
(* which puts separators last and the largest cells first.                 *)
ReorderedRank(rank, tree) ==
    LET ordering == Reverse(ToOrdering(tree))
    IN  [v \in Nodes |-> (CHOOSE i \in 1 .. N : ordering[i] = rank[v]) - 1]
=============================================================================

-------------------------- MODULE CCHPreprocessing --------------------------
(***************************************************************************)
(* CCH::fix_order_and_build of engine/src/algo/                            *)
(* customizable_contraction_hierarchy/mod.rs: contract with the order that *)
(* was given, rearrange the order along the separator tree, and contract   *)
(* again.  Parallel customization splits its arrays at the cells of the    *)
(* second separator tree.                                                  *)
(***************************************************************************)
EXTENDS CCHContraction, SeparatorTree

VARIABLES
    phase,    \* which of the two contractions is going on
    shortcuts \* auxiliary: the edges of the first result, by node ids

allVars == <<links, rank, edges, contracted, phase, shortcuts>>

(* The edges of the contracted graph in terms of the input's node ids.     *)
EdgesByNode ==
    {{u, v} : <<u, v>> \in {e \in Nodes \X Nodes : rank[e[2]] \in edges[rank[e[1]]]}}

InitBuild ==
    /\ Init
    /\ phase = "given order"
    /\ shortcuts = {}

Contract == ContractLowest /\ UNCHANGED <<phase, shortcuts>>

(* reorder_for_seperator_based_customization on the elimination tree of    *)
(* the first result, and ContractionGraph::new with the order it returns.  *)
Reorder ==
    /\ phase = "given order" /\ contracted = N
    /\ \E tree \in SizeSortedTrees(SeparatorTreeOf(EliminationTree(edges))) :
           /\ rank' = ReorderedRank(rank, tree)
           /\ edges' = UpNeighbors(links, rank')
    /\ contracted' = 0
    /\ phase' = "fixed order"
    /\ shortcuts' = EdgesByNode
    /\ UNCHANGED links

NextBuild == Contract \/ Reorder

SpecBuild == InitBuild /\ [][NextBuild]_allVars

-----------------------------------------------------------------------------
Built == phase = "fixed order" /\ contracted = N

(* A CCH that fix_order_and_build returns passes the check that panics in  *)
(* customize when cells are not consecutive or not sorted by their size,   *)
(* whatever the order given and however the unstable sort breaks ties.     *)
PassesValidation == Built => ValidForParallelization(SeparatorTreeOf(EliminationTree(edges)))

(* Rearranging costs nothing: the second contraction inserts the shortcuts *)
(* of the first, between the same nodes.                                   *)
SameShortcuts == Built => EdgesByNode = shortcuts
=============================================================================

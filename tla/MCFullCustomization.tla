------------------------ MODULE MCFullCustomization -------------------------
(* The cells are written out and compared with the calls of customize_tree *)
(* that the separator tree of the preprocessing leads to.  Either weights  *)
(* are customized, or nearest neighbors are looked for, in the cells or in *)
(* buckets.                                                                *)
EXTENDS CCHFullCustomization, SeparatorTree

CONSTANTS Threshold, TargetLists

VARIABLES
    far, targets, source, k, closest, cells,
    perfect, method, terminals, queue, buckets, incoming, pruning, tables, final,
    asked, selectionStack, restricted, distances, swept, walk

cellVars == <<far, targets, source, k, closest, cells>>

bucketVars == <<perfect, method, terminals, queue, buckets, incoming, pruning, tables, final,
                asked, selectionStack, restricted, distances, swept, walk>>

InCells == INSTANCE NearestNeighbors

InBuckets == INSTANCE OneToMany WITH customized <- perfect, Selections <- TargetLists

RECURSIVE CellsOf(_, _, _)

(* The calls of customize_tree that a tree and its offset lead to; a cell  *)
(* is named by the positions of the children on the way to it.             *)
CellsOf(tree, offset, path) ==
    LET start(i) == offset + SizeOf(SubSeq(tree.children, 1, i - 1))
        below == [i \in DOMAIN tree.children |-> CellsOf(tree.children[i], start(i), Append(path, i))]
        own == path :> [first |-> offset, size |-> tree.num_nodes,
                        sub |-> [i \in DOMAIN tree.children |-> Append(path, i)]]
    IN  FoldLeft(LAMBDA f, g : f @@ g, own, below)

MCRoot == <<>>

(* Cells {0, 1, 2} with separator 2 and {3}; {4, 5, 6} separates them.     *)
(* The edges 2-4, 2-5, 4-6 and 5-6 are shortcuts.                          *)
Roads == {{0, 2}, {0, 4}, {1, 2}, {1, 5}, {3, 4}, {3, 5}, {3, 6}, {4, 5}}
Neighbors == <<{2, 4}, {2, 5}, {4, 5}, {4, 5, 6}, {5, 6}, {6}, {}>>
MCGraph == [x \in Nodes |-> Neighbors[x + 1]]

MCCells ==
    <<>> :> [first |-> 0, size |-> 7, sub |-> << <<1>> >>] @@
    <<1>> :> [first |-> 0, size |-> 7, sub |-> << <<1, 1>>, <<1, 2>> >>] @@
    <<1, 1>> :> [first |-> 0, size |-> 3, sub |-> << <<1, 1, 1>>, <<1, 1, 2>> >>] @@
    <<1, 1, 1>> :> [first |-> 0, size |-> 1, sub |-> <<>>] @@
    <<1, 1, 2>> :> [first |-> 1, size |-> 1, sub |-> <<>>] @@
    <<1, 2>> :> [first |-> 3, size |-> 1, sub |-> <<>>]

ASSUME CellsOfTree == MCCells = CellsOf(SeparatorTreeOf(EliminationTree(MCGraph)), 0, MCRoot)

(* All roads have weight 1 but one, which is a detour (4) or may tie with  *)
(* the way around it (2), in both directions or upwards only.              *)
CustomizedMetrics ==
    {[a \in Nodes \X Nodes |->
        IF {a[1], a[2]} \notin Roads THEN {}
        ELSE IF {a[1], a[2]} = heavy[1] /\ (heavy[3] \/ a[1] < a[2]) THEN {heavy[2]} ELSE {1}] :
        heavy \in Roads \X {2, 4} \X BOOLEAN}

(* To look for nearest neighbors: all roads equal, and with some of weight *)
(* 0 and no way to 6, and with different weights in both directions.       *)
Network(weights(_, _)) ==
    [a \in Nodes \X Nodes |-> IF {a[1], a[2]} \in Roads THEN weights(a[1], a[2]) ELSE {}]

NearestMetrics ==
    {Network(LAMBDA x, y : {1}),
     Network(LAMBDA x, y : IF y = 6 THEN {} ELSE {(x + y) % 3}),
     Network(LAMBDA x, y : IF x + y = 6 THEN {5} ELSE IF x < y THEN {1} ELSE {2})}

MCMetrics == CustomizedMetrics \cup NearestMetrics

(* Targets in all cells, in the cells below the separator, in and below it.*)
MCTargetLists == {<<6, 2, 3, 0, 1>>, <<0, 1, 2, 3>>, <<5, 1, 3>>, <<4, 6>>}

-----------------------------------------------------------------------------
(* Some metrics are customized from the beginning; with the others the     *)
(* threads of the basic customization are skipped.                         *)
BasicMetrics == {m \in CustomizedMetrics : m[<<0, 2>>] = {4} \/ m[<<3, 6>>] = {2}}

InitPerfect ==
    /\ Perfect!Init /\ InitRebuild
    /\ upVia = BasicUpVia(metric) /\ downVia = BasicDownVia(metric)
    /\ customized = Nodes /\ nextSub = [c \in DOMAIN Cells |-> 1]
    /\ wsUp = NoWorkspaces /\ wsDown = NoWorkspaces

NoDistances == [a \in Nodes \X Nodes |-> Inf]

InitMC ==
    /\ InCells!InitEmpty /\ InBuckets!InitFor("nearest")
    /\ \/ InitFull /\ metric \in BasicMetrics
       \/ InitPerfect /\ phase = "perfect" /\ metric \in CustomizedMetrics \ BasicMetrics
       \/ InitPerfect /\ phase \in {"cells", "buckets"} /\ metric \in NearestMetrics
    /\ far = IF phase = "cells" THEN Distances(metric) ELSE NoDistances
    /\ perfect = IF phase = "buckets" THEN InBuckets!Perfect(metric) ELSE [dist |-> NoDistances]

NextMC ==
    \/ NextFull /\ UNCHANGED <<cellVars, bucketVars>>
    \/ phase = "cells" /\ InCells!Next /\ UNCHANGED <<allVars, bucketVars>>
    \/ phase = "buckets" /\ InBuckets!Next /\ UNCHANGED <<allVars, cellVars>>

SpecMC ==
    /\ InitMC /\ [][NextMC]_<<allVars, cellVars, bucketVars>>
    /\ \A t \in Threads : WF_allVars(ThreadStep(t))
    /\ WF_allVars(Caller)

(* The nearest neighbors of this instance, one way and the other.          *)
NearestAreFound ==
    /\ phase = "cells" => InCells!NearestAreFound
    /\ phase = "buckets" => InBuckets!ReportedAreDistances
=============================================================================

-------------------------- MODULE MCPreprocessing ---------------------------
(* What is computed before there are weights: a CCH, or the core of a      *)
(* network and its dead ends.                                              *)
(*                                                                         *)
(* CCH: all undirected graphs on the nodes with the order of their ids: up *)
(* to the names of the nodes these are all graphs with all orders.  And,   *)
(* for the directions and loops of the input, all directed graphs on the   *)
(* first three nodes with all orders of these.                             *)
EXTENDS CCHPreprocessing

VARIABLES kind, network, step, num, low, parent, stack, edgeStack, blocks, core, part, bridge, queue, order

coreVars == <<network, step, num, low, parent, stack, edgeStack, blocks, core, part, bridge, queue, order>>

UndirectedInputs == [links : SUBSET {e \in Nodes \X Nodes : e[1] < e[2]}, rank : {[x \in Nodes |-> x]}]

FewNodes == 0 .. 2
Orders == {r \in [FewNodes -> FewNodes] : \A x, y \in FewNodes : x # y => r[x] # r[y]}

DirectedInputs ==
    [links : SUBSET (FewNodes \X FewNodes),
     rank : {[x \in Nodes |-> IF x \in FewNodes THEN r[x] ELSE x] : r \in Orders}]

MCInputs == UndirectedInputs \cup DirectedInputs

(* Networks: all undirected graphs, and all directed ones on four nodes,   *)
(* up to the direction of edges that are one way.                          *)
TwoWay(arcs) == arcs \cup {<<a[2], a[1]>> : a \in arcs}

PairsBelow(n) == {e \in (0 .. n) \X (0 .. n) : e[1] < e[2]}

MCNetworks ==
    {TwoWay(pairs) : pairs \in SUBSET PairsBelow(4)}
    \cup {joined[1] \cup TwoWay(joined[2]) :
             joined \in {j \in (SUBSET PairsBelow(3)) \X (SUBSET PairsBelow(3)) : j[1] \cap j[2] = {}}}

Core == INSTANCE Topocore WITH Networks <- MCNetworks, Inf <- 1

InitPreprocessing ==
    /\ InitBuild /\ Core!Init
    /\ \/ kind = "cch" /\ network = {}
       \/ kind = "core" /\ links = {} /\ rank = [x \in Nodes |-> x]

NextPreprocessing ==
    \/ kind = "cch" /\ NextBuild /\ UNCHANGED <<kind, coreVars>>
    \/ kind = "core" /\ Core!Next /\ UNCHANGED <<kind, allVars>>

SpecPreprocessing == InitPreprocessing /\ [][NextPreprocessing]_<<kind, allVars, coreVars>>

(* The properties of the core, for this instance of it.                    *)
BlocksAreExact == Core!BlocksAreExact

NodesAreClassified == Core!NodesAreClassified
=============================================================================

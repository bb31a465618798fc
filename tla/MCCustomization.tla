--------------------------- MODULE MCCustomization --------------------------
(* The complete graph on four nodes, where every possible triangle occurs, *)
(* and which is customized or, for fewer metrics, contracted.              *)
EXTENDS CCHCustomization, HubLabels

VARIABLE kind  \* what is done with the network

CompleteGraph == [x \in Nodes |-> x + 1 .. N - 1]

(* Arcs upwards and downwards: equal ways, parallel arcs, a one way street,*)
(* and a road that is closed upwards.                                      *)
Roads == {<<{1}, {1}>>, <<{2, 3}, {1}>>, <<{1}, {}>>, <<{Inf}, {3}>>}

Network(road) ==
    [a \in Nodes \X Nodes |->
        IF a \in Edges THEN road[a][1]
        ELSE IF <<a[2], a[1]>> \in Edges THEN road[<<a[2], a[1]>>][2] ELSE {}]

(* For contraction: mixes of roads of weight 0 and one way streets; ways   *)
(* over 0 that are shorter, but only upwards; a chain of triangles; a way  *)
(* from 0 to 1 that is steep on one side; and parallel arcs.               *)
ContractedMetrics ==
    {Network(road) : road \in
        {r \in [Edges -> {<<{0}, {0}>>, <<{}, {1}>>}] : r[<<0, 1>>] = <<{0}, {0}>>} \cup
        {[e \in Edges |-> IF e[1] = 0 THEN <<{1}, {1}>> ELSE <<{5}, {1}>>],
         [e \in Edges |-> IF e = <<0, 1>> THEN <<{1}, {}>>
                          ELSE IF e = <<0, 2>> THEN <<{}, {1}>>
                          ELSE IF e = <<1, 3>> THEN <<{1}, {7}>> ELSE <<{7}, {7}>>],
         [e \in Edges |-> IF e = <<0, 2>> THEN <<{1}, {}>>
                          ELSE IF e = <<1, 2>> THEN <<{}, {8}>>
                          ELSE IF e[2] = 3 /\ e # <<2, 3>> THEN <<{5}, {5}>> ELSE <<{}, {}>>],
         [e \in Edges |-> IF e = <<0, 1>> THEN <<{}, {0}>>
                          ELSE IF e = <<0, 2>> THEN <<{1}, {}>>
                          ELSE IF e = <<1, 2>> THEN <<{1, 5}, {}>>
                          ELSE IF e = <<1, 3>> THEN <<{9}, {}>> ELSE <<{}, {}>>]}}

CustomizedMetrics == {Network(road) : road \in [Edges -> Roads]}

MCMetrics == CustomizedMetrics \cup ContractedMetrics

-----------------------------------------------------------------------------
InitMC ==
    /\ Init /\ InitLabels /\ InitHierarchy(metric)
    /\ \/ kind = "customization" /\ metric \in CustomizedMetrics
       \/ kind = "contraction" /\ metric \in ContractedMetrics

NextMC ==
    \/ kind = "customization" /\ Next /\ UNCHANGED <<kind, hubVars>>
    \/ kind = "contraction" /\ NextOfHubs /\ UNCHANGED <<kind, vars>>

SpecMC == InitMC /\ [][NextMC]_<<kind, vars, hubVars>>
=============================================================================

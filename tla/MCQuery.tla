------------------------------- MODULE MCQuery ------------------------------
(* The complete graph on four nodes, where every possible triangle occurs  *)
(* and paths unpack over several levels of them, and a component of its    *)
(* own.  What is asked is queries and paths, potentials of nodes, or       *)
(* distances between many nodes.                                           *)
EXTENDS CCHQuery, LazyPotential, TLC

CONSTANT Selections

VARIABLES
    kind,
    method, terminals, queue, buckets, incoming, pruning, tables, final,
    asked, selectionStack, restricted, distances, swept, walk

manyVars == <<method, terminals, queue, buckets, incoming, pruning, tables, final,
              asked, selectionStack, restricted, distances, swept, walk>>

lazyVars == <<variant, toTarget, target, potentials, dists, parents, unpacked, stack, calls>>

queryVars == <<walkVars, fwParent, bwParent, query, phase, node>>

Many == INSTANCE OneToMany

Neighbors == <<{1, 2, 3}, {2, 3}, {3}, {}, {}>>
MCGraph == [x \in Nodes |-> Neighbors[x + 1]]

(* A network with the given weights upwards and downwards on its roads;    *)
(* Inf stands for a road that is one way.                                  *)
Network(roads) ==
    [a \in Nodes \X Nodes |->
        IF a \in DOMAIN roads THEN {roads[a][1]} \ {Inf}
        ELSE IF <<a[2], a[1]>> \in DOMAIN roads THEN {roads[<<a[2], a[1]>>][2]} \ {Inf} ELSE {}]

(* The metrics of updates.  In the first, ways over 0 are shorter, but only*)
(* upwards; in the second, 2 reaches 3 on a chain of triangles, over 1 and *)
(* from 2 to 1 over 0.                                                     *)
MCUpdates == {Network(roads) : roads \in
    {[e \in Edges |-> IF e[1] = 0 THEN <<1, 1>> ELSE <<5, 1>>],
     [e \in Edges |-> IF e = <<0, 1>> THEN <<1, Inf>>
                      ELSE IF e = <<0, 2>> THEN <<Inf, 1>>
                      ELSE IF e = <<1, 3>> THEN <<1, 7>> ELSE <<7, 7>>]}}

(* To begin with, also each mix of roads of weight 0 and one way streets,  *)
(* in which the road from 0 to 1 has weight 0.                             *)
MCMetrics == MCUpdates \cup
    {Network(roads) : roads \in {r \in [Edges -> {<<0, 0>>, <<Inf, 1>>}] : r[<<0, 1>>] = <<0, 0>>}}

MCQueries == {<<2, 3>>, <<2, 1>>, <<3, 0>>, <<1, 4>>}

(* Nodes above and below one another, of both components, and one alone.   *)
MCSelections == {<<2, 1>>, <<0, 3, 1>>, <<4, 0>>, <<1>>}

(* With potentials, the metrics of updates, which have ties, and two in    *)
(* which roads have weight 0 both ways.  The latter have cycles of length  *)
(* 0: of unpacked paths only the former say something.                     *)
ZeroRoads(zero) == Network([e \in Edges |-> IF e \in zero THEN <<0, 0>> ELSE <<Inf, 1>>])

PotentialMetrics ==
    MCUpdates \cup {ZeroRoads({<<0, 1>>}), ZeroRoads({<<0, 1>>, <<1, 2>>})}

-----------------------------------------------------------------------------
InitQuery == kind = "query" /\ Init /\ InitPotentialFor("tree", TRUE) /\ Many!InitFor("lazy")

InitLazy(metrics) ==
    kind = "potential" /\ Init /\ InitPotential /\ Many!InitFor("lazy") /\ customized.metric \in metrics

InitMany ==
    kind = "many" /\ Init /\ InitPotentialFor("tree", TRUE) /\ Many!Init /\ customized.metric \in PotentialMetrics

InitMC == InitQuery \/ InitLazy(PotentialMetrics) \/ InitMany

NextMC ==
    \/ kind = "query" /\ Next /\ UNCHANGED <<kind, lazyVars, manyVars>>
    \/ kind = "potential" /\ NextPotential /\ UNCHANGED <<kind, queryVars, manyVars>>
    \/ kind = "many" /\ Many!Next /\ UNCHANGED <<kind, queryVars, lazyVars>>

allVars == <<kind, customized, queryVars, lazyVars, manyVars>>

(* The steps of a call, but not the calls.                                 *)
Step ==
    \/ kind = "query" /\ Server /\ UNCHANGED <<kind, lazyVars, manyVars>>
    \/ kind = "potential" /\ Compute /\ UNCHANGED <<kind, queryVars, manyVars>>

SpecMC == InitMC /\ [][NextMC]_allVars /\ WF_allVars(Step)

(* Cycles of length 0.                                                     *)
SpecZero == InitLazy({ZeroRoads({<<0, 1>>, <<0, 2>>, <<1, 3>>})}) /\ [][NextMC]_allVars

ReportedAreDistances == kind = "many" => Many!ReportedAreDistances

(* Every reconstruction of a path and every computation of a potential.    *)
CallsEnd ==
    phase = "flipping" \/ ~Idle ~> IF kind = "query" THEN phase = "unpacked" ELSE Idle

=============================================================================

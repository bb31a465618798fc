----------------------------- MODULE MCSearches -----------------------------
(* One query with one of the searches on networks with a core: in turns,   *)
(* with the core first, or in two threads.                                 *)
EXTENDS LowDegreeSearch, TLC

CONSTANTS TurnVariants, TopoVariants, ThreadVariants, ThreadInstances

(* What the searches have in common; what only searches in turns, only     *)
(* threads, or only these two have.                                        *)
VARIABLES kind, instance, variant, query, pot, runs, settled, turn, prev, answer,
          bound,
          seen, writes, met, progress, best,
          tentative, meeting

common == <<instance, variant, query, pot, runs, settled, turn, prev, answer>>
ofThreads == <<seen, writes, met, progress, best>>
ofBoth == <<tentative, meeting>>
allVars == <<kind, common, bound, ofThreads, ofBoth>>

Turns == INSTANCE BidirectionalSearch WITH Variants <- TurnVariants

Topo == INSTANCE TopoQuery WITH
    Variants <- TopoVariants, Potentials <- {"exact", "lower"},
    potential <- pot, run <- runs, part <- turn, over <- prev

Threads == INSTANCE ThreadedSearch WITH Instances <- ThreadInstances, Variants <- ThreadVariants, pc <- turn

-----------------------------------------------------------------------------
TwoWay(roads) ==
    [a \in DOMAIN roads \cup {<<b[2], b[1]>> : b \in DOMAIN roads} |->
        IF a \in DOMAIN roads THEN roads[a] ELSE roads[<<a[2], a[1]>>]]

(* Lower bounds of the weights of some arcs.                               *)
Bounded(arcs, bounds) == [a \in DOMAIN arcs |-> IF a \in DOMAIN bounds THEN bounds[a] ELSE arcs[a]]

Degrees(list) == [x \in Nodes |-> list[x + 1]]

(* Ways of equal length; nodes of degree 2 and 3 are passed.  At 0 and 2   *)
(* there are dead ends.                                                    *)
TownArcs == TwoWay(<<0, 1>> :> 3 @@ <<1, 2>> :> 1 @@ <<2, 3>> :> 2 @@ <<3, 0>> :> 2 @@ <<0, 2>> :> 6
                   @@ <<0, 4>> :> 1 @@ <<2, 5>> :> 2 @@ <<5, 6>> :> 1)

Town == [arcs |-> TownArcs,
         lower |-> Bounded(TownArcs, <<1, 2>> :> 0 @@ <<0, 2>> :> 3 @@ <<3, 0>> :> 1 @@ <<0, 4>> :> 0),
         core |-> 0 .. 3,
         degree |-> Degrees(<<4, 3, 4, 2, 1, 2, 1>>)]

(* One way streets, some of weight 0, and a node that leads nowhere.       *)
RingArcs == <<0, 1>> :> 0 @@ <<1, 2>> :> 2 @@ <<2, 3>> :> 0 @@ <<3, 0>> :> 1 @@ <<1, 3>> :> 3 @@ <<2, 0>> :> 3
            @@ <<4, 0>> :> 1 @@ <<2, 5>> :> 0 @@ <<5, 6>> :> 2 @@ <<6, 5>> :> 2

Ring == [arcs |-> RingArcs,
         lower |-> Bounded(RingArcs, <<1, 2>> :> 1 @@ <<1, 3>> :> 1 @@ <<2, 0>> :> 1),
         core |-> 0 .. 3,
         degree |-> Degrees(<<4, 3, 4, 3, 1, 2, 1>>)]

(* A triangle with a dead end of two nodes: all nodes are passed.          *)
FlagArcs == TwoWay(<<0, 1>> :> 1 @@ <<1, 2>> :> 1 @@ <<0, 2>> :> 1 @@ <<0, 3>> :> 1 @@ <<3, 4>> :> 1)

Flag == [arcs |-> FlagArcs, lower |-> FlagArcs, core |-> 0 .. 2, degree |-> Degrees(<<3, 2, 2, 2, 1, 0, 0>>)]

MCInstances == {Town, Ring, Flag}

(* For threads, whose writes reach each other in any order.                *)
TriangleArcs == <<0, 1>> :> 1 @@ <<1, 0>> :> 2 @@ <<1, 2>> :> 1 @@ <<2, 0>> :> 1 @@ <<0, 2>> :> 4

Triangle == [arcs |-> TriangleArcs,
             lower |-> Bounded(TriangleArcs, <<1, 0>> :> 1 @@ <<0, 2>> :> 2),
             core |-> 0 .. 2,
             degree |-> Degrees(<<4, 3, 4, 0, 0, 0, 0>>)]

MCThreadInstances == {Triangle, Ring}

-----------------------------------------------------------------------------
(* The caps that callers use: none from BiDirServer.                       *)
Caps(on) ==
    {<<Inf, 2 * Inf>>} \cup (IF on = "inwards" THEN {} ELSE {<<5, 2 * Inf>>}) \cup (IF on = "core" THEN {<<Inf, 5>>} ELSE {})

MCTurns ==
    UNION {{[potential |-> p[1], improved |-> p[2], chooser |-> p[3], on |-> on, cap |-> c[1], potCap |-> c[2]] :
               p \in {<<"zero", FALSE, "min_key">>, <<"zero", FALSE, "alternating">>,
                      <<"symmetric", FALSE, "min_key">>, <<"symmetric", TRUE, "min_key">>},
               c \in Caps(on)} :
        on \in {"whole", "core", "inwards"}}

MCTopo == [bcc : BOOLEAN, skip : {{}, {"deg2"}, {"deg2", "deg3"}}, cap : {Inf, 5}]

MCThreads ==
    [potential : {"zero"}, improved : {FALSE}, memory : {"relaxed"}, cap : {Inf}, potCap : {2 * Inf}]
    \cup [potential : {"symmetric"}, improved : {FALSE}, memory : {"buffered"}, cap : {Inf, 5}, potCap : {2 * Inf}]
    \cup [potential : {"symmetric"}, improved : {TRUE}, memory : {"sequential"}, cap : {Inf}, potCap : {5, 2 * Inf}]

NoVariants == {}

-----------------------------------------------------------------------------
(* For violations.  Potentials of 0 and arcs of weight 0.                  *)
TieArcs == <<0, 1>> :> 0 @@ <<4, 2>> :> 8 @@ <<2, 1>> :> 8 @@ <<1, 3>> :> 1 @@ <<4, 0>> :> 3 @@ <<3, 2>> :> 3 @@ <<1, 4>> :> 8

Ties == {[arcs |-> TieArcs,
          lower |-> Bounded(TieArcs, <<4, 2>> :> 0 @@ <<2, 1>> :> 0 @@ <<4, 0>> :> 0 @@ <<1, 4>> :> 1),
          core |-> 0 .. 4,
          degree |-> Degrees(<<4, 4, 4, 4, 4, 4, 4>>)]}

SymmetricAlternating ==
    {[potential |-> "symmetric", improved |-> FALSE, chooser |-> "alternating", on |-> "whole", cap |-> Inf, potCap |-> 2 * Inf]}

(* Two ways that differ by one.                                            *)
WayArcs == <<2, 0>> :> 2 @@ <<0, 4>> :> 1 @@ <<4, 3>> :> 2 @@ <<3, 6>> :> 1 @@ <<2, 5>> :> 1 @@ <<5, 1>> :> 1 @@ <<1, 3>> :> 2

Ways == {[arcs |-> WayArcs,
          lower |-> Bounded(WayArcs, <<2, 0>> :> 0 @@ <<0, 4>> :> 0 @@ <<5, 1>> :> 0),
          core |-> 0 .. 6,
          degree |-> Degrees(<<4, 4, 4, 4, 4, 4, 4>>)]}

BufferedImproved ==
    {[potential |-> "symmetric", improved |-> TRUE, memory |-> "buffered", cap |-> Inf, potCap |-> 2 * Inf]}

Flags == {Flag}

CoreFirst == {[bcc |-> TRUE, skip |-> {}, cap |-> Inf]}

-----------------------------------------------------------------------------
NoThreads == seen = None /\ writes = None /\ met = None /\ progress = None /\ best = None

InitSearches ==
    \/ kind = "turns" /\ Turns!Init /\ NoThreads
    \/ kind = "topo" /\ Topo!Init /\ NoThreads /\ bound = None /\ tentative = None /\ meeting = None
    \/ /\ kind = "threads" /\ Threads!Init /\ prev = None /\ bound = None
       /\ instance = Ring => variant.memory = "sequential"

NextSearches ==
    \/ kind = "turns" /\ Turns!Next /\ UNCHANGED <<kind, ofThreads>>
    \/ kind = "topo" /\ Topo!Next /\ UNCHANGED <<kind, bound, ofThreads, ofBoth>>
    \/ kind = "threads" /\ Threads!Next /\ UNCHANGED <<kind, prev, bound>>

SpecSearches == InitSearches /\ [][NextSearches]_allVars /\ WF_allVars(NextSearches)

-----------------------------------------------------------------------------
(* The properties of the searches, for these instances of them.            *)
TurnsAreShortest == kind = "turns" => Turns!AnswersAreShortest

TopoAnswersAreDistances == kind = "topo" => Topo!AnswersAreDistances

EveryAnswerIsShortest == kind = "topo" => Topo!EveryAnswerIsShortest

ThreadsAreShortest == kind = "threads" => Threads!AnswersAreShortest

(* Every query is answered, also if the queue of one search runs empty or  *)
(* the searches never meet.                                                *)
EveryQueryEnds == <>(answer # None)
=============================================================================

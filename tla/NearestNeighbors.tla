-------------------------- MODULE NearestNeighbors --------------------------
(***************************************************************************)
(* SeparatorBasedNearestNeighbor and LazyRphastNearestNeighbor of          *)
(* engine/src/algo/customizable_contraction_hierarchy/query/               *)
(* nearest_neighbor.rs: the k targets nearest to a node.  The former skips *)
(* cells whose boundary is further away than what it has found.  Both ask  *)
(* a CCHPotential for distances, which is the subject of LazyPotential.    *)
(***************************************************************************)
EXTENDS CCHWeights, Sequences, SequencesExt, FiniteSetsExt

CONSTANTS
    Cells, Root,  \* the separator tree, as in CCHParallelCustomization
    Threshold,    \* TARGETS_PER_CELL_THRESHOLD
    TargetLists   \* lists of different nodes

VARIABLES
    far,      \* the distances of the metric
    targets,  \* what is selected
    source, k,
    closest,  \* closest_targets, pairs of a distance and a target
    cells     \* stack: pairs of a bound and a cell

nearestVars == <<far, targets, source, k, closest, cells>>

(* new                                                                     *)
InitEmpty ==
    /\ targets = <<>>
    /\ source = None /\ k = 1 /\ closest = {} /\ cells = <<>>

Init == InitEmpty /\ \E m \in Metrics : far = Distances(m)

-----------------------------------------------------------------------------
(* peek and pop of the binary heap take the greatest distance and, of      *)
(* these, the greatest target.                                             *)
Furthest(found) ==
    CHOOSE c \in found : \A d \in found : d[1] < c[1] \/ (d[1] = c[1] /\ d[2] <= c[2])

(* Targets that are reachable, one by one: a target is taken if less than  *)
(* n are found or it is nearer than the furthest, which it replaces.       *)
Offered(found, list, s, n) ==
    LET nearer(before, c) ==
            CASE c[1] >= Inf -> before
              [] c[1] < Inf /\ Cardinality(before) < n -> before \cup {c}
              [] OTHER -> IF c[1] < Furthest(before)[1] THEN (before \ {Furthest(before)}) \cup {c} ELSE before
    IN  FoldLeft(nearer, found, [i \in DOMAIN list |-> <<far[<<s, list[i]>>], list[i]>>])

NodesOf(cell) == Cells[cell].first .. Cells[cell].first + Cells[cell].size - 1

SeparatorOf(cell) == NodesOf(cell) \ UNION {NodesOf(sub) : sub \in ToSet(Cells[cell].sub)}

(* Mutation of BoundOf: the way to the lowest neighbor is taken for the    *)
(* shortest way into the cell.                                             *)
BoundAtLowest(cell) ==
    LET around == Graph[Max(NodesOf(cell))] IN IF around = {} THEN Inf ELSE far[<<source, Lowest(around)>>]

(* lower_bound_dist: the neighbors of the highest node surround the cell.  *)
BoundOf(cell) == Lowest({far[<<source, x>>] : x \in Graph[Max(NodesOf(cell))]} \cup {Inf})

-----------------------------------------------------------------------------
Idle == cells = <<>>

(* select_targets                                                          *)
SelectTargets ==
    /\ Idle
    /\ \E list \in TargetLists : targets' = SetToSortSeq(ToSet(list), <)
    /\ source' = None /\ closest' = {}
    /\ UNCHANGED <<far, k, cells>>

(* SeparatorBasedNearestNeighbor::query: all targets, or from the root on. *)
QueryCells ==
    /\ Idle
    /\ \E s \in Nodes, n \in DOMAIN targets :
           /\ source' = s /\ k' = n
           /\ IF n < Len(targets)
              THEN closest' = {} /\ cells' = << <<0, Root>> >>
              ELSE closest' = Offered({}, targets, s, n) /\ cells' = <<>>
    /\ UNCHANGED <<far, targets>>

Bounded == Cardinality(closest) >= k /\ Last(cells)[1] >= Furthest(closest)[1]

SkipCell ==
    /\ cells # <<>> /\ Bounded
    /\ cells' = Front(cells)
    /\ UNCHANGED <<far, targets, source, k, closest>>

TargetsIn(area) == SelectSeq(targets, LAMBDA x : x \in area)

(* Few targets are looked at one by one.                                   *)
TakeTargets ==
    /\ cells # <<>> /\ ~Bounded
    /\ LET inside == TargetsIn(NodesOf(Last(cells)[2]))
       IN  Len(inside) < Threshold /\ closest' = Offered(closest, inside, source, k)
    /\ cells' = Front(cells)
    /\ UNCHANGED <<far, targets, source, k>>

(* With more of them, those in the separator are, from the highest; the    *)
(* cells below follow, the nearest first.  Of ties any may be the first.   *)
TakeSeparator ==
    /\ cells # <<>> /\ ~Bounded
    /\ LET cell == Last(cells)[2]
           subs == Cells[cell].sub
       IN  /\ Len(TargetsIn(NodesOf(cell))) >= Threshold
           /\ closest' = Offered(closest, Reverse(TargetsIn(SeparatorOf(cell))), source, k)
           /\ \E below \in SetToSeqs({<<BoundOf(subs[i]), subs[i]>> : i \in DOMAIN subs}) :
                  /\ \A i \in 1 .. Len(below) - 1 : below[i][1] >= below[i + 1][1]
                  /\ cells' = Front(cells) \o below
    /\ UNCHANGED <<far, targets, source, k>>

(* LazyRphastNearestNeighbor::query: all targets in the order given.       *)
QueryList ==
    /\ Idle
    /\ \E list \in TargetLists, s \in Nodes : \E n \in DOMAIN list :
           /\ targets' = list /\ source' = s /\ k' = n
           /\ closest' = Offered({}, list, s, n)
    /\ UNCHANGED <<far, cells>>

Next == SelectTargets \/ QueryCells \/ SkipCell \/ TakeTargets \/ TakeSeparator \/ QueryList

Spec == Init /\ [][Next]_nearestVars

-----------------------------------------------------------------------------
(* The source is in a cell whose boundary is exactly as far away as each   *)
(* target that is found: its own cell may then be skipped, though targets  *)
(* in it are nearer.                                                       *)
OwnCellSkipped ==
    \E cell \in DOMAIN Cells : source \in NodesOf(cell) /\ \A c \in closest : c[1] = BoundOf(cell)

(* A query finds k targets, or all that are reachable if these are fewer,  *)
(* each with its distance; and but for one case no other is nearer.        *)
NearestAreFound ==
    LET reachable == {x \in ToSet(targets) : far[<<source, x>>] < Inf}
        found == {c[2] : c \in closest}
    IN  Idle /\ source # None =>
            /\ found \subseteq reachable /\ \A c \in closest : c[1] = far[<<source, c[2]>>]
            /\ Cardinality(closest) = Min({k, Cardinality(reachable)})
            /\ (\A x \in reachable \ found, c \in closest : c[1] <= far[<<source, x>>]) \/ OwnCellSkipped
=============================================================================

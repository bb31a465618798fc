---------------------------- MODULE SearchGraph -----------------------------
(***************************************************************************)
(* Road networks for the searches that run on a graph as it is, without    *)
(* shortcuts.  A network gives the weights of its arcs <<tail, head>>; of  *)
(* parallel arcs only the lightest matters to a search.                    *)
(***************************************************************************)
EXTENDS Integers, Sequences, FiniteSetsExt

CONSTANTS
    Nodes,
    Inf,     \* INFINITY, u32::MAX / 2: two of them do not overflow
    None     \* no node, no arc, no answer

(* OwnedGraph::reversed                                                    *)
Reversed(network) ==
    [a \in {<<b[2], b[1]>> : b \in DOMAIN network} |-> network[<<a[2], a[1]>>]]

(* link_iter: the arcs that leave a node.                                  *)
Leaving(network, x) == {a \in DOMAIN network : a[1] = x}

Neighbors(network, x) == {y \in Nodes : <<x, y>> \in DOMAIN network \/ <<y, x>> \in DOMAIN network}

(* Reference: the distances from s.  After k rounds there is a label       *)
(* <<node, length>> for the shortest walk of at most k arcs to a node.     *)
Distances(network, s) ==
    LET labels[k \in 0 .. Cardinality(Nodes)] ==
            IF k = 0
            THEN {<<s, 0>>}
            ELSE LET before == labels[k - 1]
                     all == before \cup UNION {{<<a[2], p[2] + network[a]>> : a \in Leaving(network, p[1])} : p \in before}
                 IN  {p \in all : \A q \in all : q[1] = p[1] => p[2] <= q[2]}
        shortest == labels[Cardinality(Nodes)]
    IN  [x \in Nodes |-> Min({p[2] : p \in {q \in shortest : q[1] = x}} \cup {Inf})]

(* The distances to t.                                                     *)
DistancesTo(network, t) == Distances(Reversed(network), t)

(* The length of a path that is given by its nodes.                        *)
PathLength(network, path) ==
    MapThenSumSet(LAMBDA i : network[<<path[i], path[i + 1]>>], 1 .. Len(path) - 1)

IsPath(network, path, s, t) ==
    /\ path # <<>> /\ path[1] = s /\ path[Len(path)] = t
    /\ \A i \in 1 .. Len(path) - 1 : <<path[i], path[i + 1]>> \in DOMAIN network

(* The nodes met when following pointers from x, at most one of each node, *)
(* until s is met or there is no pointer.                                  *)
Follow(pointer, x, s) ==
    LET path[k \in 1 .. Cardinality(Nodes)] ==
            IF k = 1
            THEN <<x>>
            ELSE LET before == path[k - 1]
                     last == before[Len(before)]
                 IN  IF last = s \/ pointer[last] = None THEN before ELSE Append(before, pointer[last])
    IN  path[Cardinality(Nodes)]

-----------------------------------------------------------------------------
(* The topology that engine/src/algo/topocore.rs finds in a network: a     *)
(* core, which is its biggest biconnected component, and dead ends, which  *)
(* hang on the core at one node each, their bridge.                        *)

(* The nodes that can be reached from a node outside the core without the  *)
(* core, arcs taken in both directions.                                    *)
DeadEnd(network, core, x) ==
    LET within[k \in 0 .. Cardinality(Nodes)] ==
            IF k = 0
            THEN {x} \ core
            ELSE LET before == within[k - 1]
                 IN  before \cup UNION {Neighbors(network, y) \ core : y \in before}
    IN  within[Cardinality(Nodes)]

(* bridge_node(..).unwrap_or(..): where a node outside of the core gets    *)
(* into it; a node of the core, or of a part that does not hang on it, has *)
(* none.                                                                   *)
Bridge(network, core, x) ==
    LET ends == UNION {Neighbors(network, y) \cap core : y \in DeadEnd(network, core, x)}
    IN  IF ends = {} THEN x ELSE CHOOSE b \in ends : TRUE

(* permutated_filtered as new_topo_dijkstra_graphs uses it: the arcs within*)
(* the core, and all others.                                               *)
CoreNetwork(network, core) ==
    [a \in {b \in DOMAIN network : b[1] \in core /\ b[2] \in core} |-> network[a]]

CompNetwork(network, core) ==
    [a \in {b \in DOMAIN network : b[1] \notin core \/ b[2] \notin core} |-> network[a]]

(* new_bidir_graphs: the arcs that do not lead out of the core.            *)
InwardNetwork(network, core) ==
    [a \in {b \in DOMAIN network : b[1] \notin core \/ b[2] \in core} |-> network[a]]

-----------------------------------------------------------------------------
(* Potentials, engine/src/algo/a_star.rs: lower bounds that guide a search *)
(* towards its target, and the way in which two searches that run towards  *)
(* each other use them to stop and to prune.                               *)

Sides == {"fw", "bw"}

Other(side) == IF side = "fw" THEN "bw" ELSE "fw"

(* BaselinePotential, and what any exact potential gives: the distances of *)
(* a network of lower bounds, to the target and from the source.  Inf      *)
(* stands for a node whose potential is None.                              *)
Bounds(lower, s, t) == [fw |-> DistancesTo(lower, t), bw |-> Distances(lower, s)]

(* Division of i32 numbers: the quotient is rounded towards zero.          *)
Halved(n) == IF n >= 0 THEN n \div 2 ELSE -((-n) \div 2)

(* AveragePotential::potential                                             *)
Average(raw, x) == Halved(raw["fw"][x] - raw["bw"][x])

(* AveragePotential: init, forward_potential and backward_potential.       *)
AverageKeys(raw, s, t) ==
    LET add == [fw |-> raw["bw"][t] \div 2, bw |-> raw["fw"][s] \div 2]
        known == {x \in Nodes : raw["fw"][x] < Inf /\ raw["bw"][x] < Inf}
    IN  [fw |-> [x \in Nodes |-> IF x \in known THEN Max({Average(raw, x) + add["fw"], 0}) ELSE Inf],
         bw |-> [x \in Nodes |-> IF x \in known THEN Max({add["bw"] - Average(raw, x), 0}) ELSE Inf]]

AverageMuAdd(raw, s, t) ==
    IF raw["fw"][s] < Inf /\ raw["bw"][s] < Inf THEN Average(raw, s) + raw["bw"][t] \div 2 ELSE 0

(* The three potentials after init: the bounds of the raw potentials, what *)
(* they add to the keys of the queues, and mu_add.                         *)
Potential(kind, improved, lower, s, t) ==
    LET raw == Bounds(lower, s, t)
        zero == [side \in Sides |-> [x \in Nodes |-> 0]]
    IN  [kind |-> kind,
         improved |-> improved,
         raw |-> IF kind = "zero" THEN zero ELSE raw,
         key |-> CASE kind = "zero" -> zero
                   [] kind = "symmetric" -> raw
                   [] kind = "average" -> AverageKeys(raw, s, t),
         muAdd |-> IF kind = "average" THEN AverageMuAdd(raw, s, t) ELSE 0]

(* stop_forward and stop_backward: the least keys of the two queues are    *)
(* given, Inf for an empty one.                                            *)
KeyReaches(key, stopDist) == key = Inf \/ key >= stopDist

(* BiDirZeroPot::stop and AveragePotential::stop                           *)
SumReaches(pot, keys, stopDist) ==
    \/ \E side \in Sides : keys[side] = Inf
    \/ keys["fw"] + keys["bw"] >= stopDist + pot.muAdd

(* SymmetricBiDirPotential::stop                                           *)
BothReach(keys, stopDist) ==
    \/ \A side \in Sides : KeyReaches(keys[side], stopDist)
    \/ stopDist = Inf /\ \E side \in Sides : keys[side] = Inf

Stops(pot, keys, stopDist) ==
    IF pot.kind = "symmetric" THEN BothReach(keys, stopDist) ELSE SumReaches(pot, keys, stopDist)

(* Mutation of Prunes: the keys of the other queue are taken for distances.*)
PrunesByKey(pot, side, head, dist, reverseMin, maxDist) ==
    /\ pot.kind # "zero" /\ maxDist < Inf
    /\ dist + pot.raw[side][head] >= maxDist \/ (pot.improved /\ dist + reverseMin >= maxDist)

(* prune_forward_internal and prune_backward_internal: the search of a side*)
(* has reached head at dist; reverseMin is the least key of the other one. *)
(* The remaining distance is at least what the other queue has still to    *)
(* go, by saturating_sub.                                                  *)
Prunes(pot, side, head, dist, reverseMin, maxDist) ==
    /\ pot.kind # "zero" /\ maxDist < Inf
    /\ \/ dist + pot.raw[side][head] >= maxDist
       \/ pot.improved /\ dist + Max({0, reverseMin - pot.key[Other(side)][head]}) >= maxDist
=============================================================================

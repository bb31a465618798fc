------------------------ MODULE ContractionHierarchy ------------------------
(***************************************************************************)
(* engine/src/algo/contraction_hierarchy: nodes are removed in the order   *)
(* of their ranks, and shortcuts keep the distances between the others, as *)
(* far as no witness makes them superfluous (mod.rs); what is left at each *)
(* node leads upwards and is searched from both ends (query.rs).           *)
(***************************************************************************)
EXTENDS CCHWeights, Sequences, SequencesExt

VARIABLES
    network,   \* the weights of the arcs, a metric, and for properties the distances
    outgoing,  \* Node::outgoing: links to other nodes, over a middle node or N
    incoming,  \* Node::incoming
    lowest,    \* id_offset: the lowest node that is not removed
    pairs,     \* links from and to the removed node, still to be looked at
    panicked,  \* the assertion in insert_or_decrease has failed
    phase,     \* "contracting", "searching", or "answered" after a query
    query,     \* from and to
    dist,      \* tentative distances of both searches
    open,      \* nodes in their queues
    progress,  \* forward_progress and backward_progress
    done,      \* the sides that are done
    best       \* tentative_distance, and what distance returns

contractionVars == <<outgoing, incoming, lowest, pairs, panicked>>
searchVars == <<phase, query, dist, open, progress, done, best>>
hierarchyVars == <<network, contractionVars, searchVars>>

Sides == {"fw", "bw"}

Other(side) == IF side = "fw" THEN "bw" ELSE "fw"

Link(x, weight, middle) == [node |-> x, weight |-> weight, middle |-> middle]

(* ContractionGraph::new: the arcs without loops, parallel ones in the same*)
(* order at both ends.                                                     *)
LinksTo(x, weights) ==
    FlattenSeq([i \in 1 .. N |->
        IF i - 1 = x THEN <<>> ELSE LET parallel == SetToSeq(weights[i - 1])
                                    IN  [j \in DOMAIN parallel |-> Link(i - 1, parallel[j], N)]])

InitHierarchy(metric) ==
    /\ network = [arcs |-> metric, dist |-> Distances(metric)]
    /\ outgoing = [x \in Nodes |-> LinksTo(x, [y \in Nodes |-> metric[<<x, y>>]])]
    /\ incoming = [x \in Nodes |-> LinksTo(x, [y \in Nodes |-> metric[<<y, x>>]])]
    /\ lowest = 0 /\ pairs = <<>> /\ panicked = FALSE
    /\ phase = "contracting" /\ query = <<0, 0>> /\ best = Inf
    /\ dist = [side \in Sides |-> [x \in Nodes |-> Inf]] /\ open = [side \in Sides |-> {}]
    /\ progress = [side \in Sides |-> 0] /\ done = {}

-----------------------------------------------------------------------------
(* Contraction                                                             *)

PositionOf(x, links) == SelectInSeq(links, LAMBDA link : link.node = x)

(* remove_outgoing and remove_incoming, the first link; swap_remove moves  *)
(* the last one to its place.                                              *)
Without(x, links) ==
    LET i == PositionOf(x, links) IN [k \in 1 .. Len(links) - 1 |-> IF k = i THEN Last(links) ELSE links[k]]

(* Mutation of InsertOrDecrease: an existing link is kept.                 *)
InsertOnly(links, x, weight, over) ==
    IF PositionOf(x, links) = 0
    THEN [links |-> Append(links, Link(x, weight, over)), result |-> "new"]
    ELSE [links |-> links, result |-> "shorter"]

(* insert_or_decrease of a node: the first link counts.                    *)
InsertOrDecrease(links, x, weight, over) ==
    LET i == PositionOf(x, links)
    IN  CASE i = 0 -> [links |-> Append(links, Link(x, weight, over)), result |-> "new"]
          [] i > 0 /\ weight < links[i].weight ->
                 [links |-> [links EXCEPT ![i] = Link(x, weight, over)], result |-> "shortened"]
          [] OTHER -> [links |-> links, result |-> "shorter"]

(* The arcs between the nodes that are not removed.                        *)
Remaining ==
    [a \in Nodes \X Nodes |->
        IF a[1] < lowest THEN {} ELSE {link.weight : link \in {l \in ToSet(outgoing[a[1]]) : l.node = a[2]}}]

(* remove_lowest and remove_edges_to_removed; the node keeps its own links.*)
RemoveLowest ==
    /\ ~panicked /\ lowest < N /\ pairs = <<>>
    /\ LET x == lowest
       IN  /\ outgoing' = FoldLeft(LAMBDA o, link : [o EXCEPT ![link.node] = Without(x, @)], outgoing, incoming[x])
           /\ incoming' = FoldLeft(LAMBDA o, link : [o EXCEPT ![link.node] = Without(x, @)], incoming, outgoing[x])
           /\ pairs' = FlattenSeq([i \in DOMAIN incoming[x] |->
                           [j \in DOMAIN outgoing[x] |-> <<incoming[x][i], outgoing[x][j]>>]])
    /\ lowest' = lowest + 1
    /\ UNCHANGED <<network, panicked, searchVars>>

(* shortcut_required: no way between the remaining nodes, among them the   *)
(* shortcuts that were inserted before, is shorter.  It is found by the    *)
(* search of BidirectionalSearch that starts on the whole network with a   *)
(* cap.                                                                    *)
ShortcutRequired(from, to, weight) == from # to /\ ~Distances(Remaining)[<<from, to>>] < weight

(* The next pair of neighbors of the removed node.                         *)
ConnectPair ==
    /\ ~panicked /\ pairs # <<>>
    /\ LET from == Head(pairs)[1].node
           to == Head(pairs)[2].node
           weight == Head(pairs)[1].weight + Head(pairs)[2].weight
           out == InsertOrDecrease(outgoing[from], to, weight, lowest - 1)
           in == InsertOrDecrease(incoming[to], from, weight, lowest - 1)
       IN  IF ShortcutRequired(from, to, weight)
           THEN /\ outgoing' = [outgoing EXCEPT ![from] = out.links]
                /\ incoming' = [incoming EXCEPT ![to] = in.links]
                /\ panicked' = (out.result # in.result)
           ELSE UNCHANGED <<outgoing, incoming, panicked>>
    /\ pairs' = Tail(pairs)
    /\ UNCHANGED <<network, lowest, searchVars>>

-----------------------------------------------------------------------------
(* Server::distance                                                        *)

Query ==
    /\ lowest = N /\ pairs = <<>> /\ ~panicked
    /\ phase # "searching" /\ phase' = "searching"
    /\ query' \in Nodes \X Nodes
    /\ dist' = [side \in Sides |-> [x \in Nodes |-> IF x = query'[IF side = "fw" THEN 1 ELSE 2] THEN 0 ELSE Inf]]
    /\ open' = [side \in Sides |-> {query'[IF side = "fw" THEN 1 ELSE 2]}]
    /\ progress' = [side \in Sides |-> 0] /\ done' = {}
    /\ best' = Inf
    /\ UNCHANGED <<network, contractionVars>>

(* Mutation of GoesOn: the criterion of bidirectional Dijkstra.            *)
GoesOnToSum == best > progress["fw"] + progress["bw"] /\ done # Sides

(* The condition of the while loop: each side on its own.                  *)
GoesOn == (best > progress["fw"] \/ best > progress["bw"]) /\ done # Sides

Turn == IF "bw" \in done \/ (progress["fw"] <= progress["bw"] /\ "fw" \notin done) THEN "fw" ELSE "bw"

UpwardLinks(side, x) == ToSet(IF side = "fw" THEN outgoing[x] ELSE incoming[x])

(* DijkstraRun::next on the side whose turn it is.                         *)
Least(side) == Lowest({x \in open[side] : \A y \in open[side] : dist[side][x] <= dist[side][y]})

Reached(side, x, y) ==
    Lowest({dist[side][y]} \cup {dist[side][x] + link.weight : link \in {l \in UpwardLinks(side, x) : l.node = y}})

Goal(side) == query[IF side = "fw" THEN 2 ELSE 1]

SettleNext ==
    /\ phase = "searching" /\ GoesOn
    /\ open[Turn] # {}
    /\ \E x \in {Least(Turn)} :
           /\ dist' = [dist EXCEPT ![Turn] = [y \in Nodes |-> Reached(Turn, x, y)]]
           /\ open' = [open EXCEPT ![Turn] = (@ \ {x}) \cup {y \in Nodes : Reached(Turn, x, y) < dist[Turn][y]}]
           /\ progress' = [progress EXCEPT ![Turn] = dist[Turn][x]]
           /\ best' = Lowest({best, dist[Turn][x] + dist[Other(Turn)][x]})
           /\ done' = IF x = Goal(Turn) THEN done \cup {Turn} ELSE done
    /\ UNCHANGED <<network, contractionVars, phase, query>>

RunsEmpty ==
    /\ phase = "searching" /\ GoesOn
    /\ open[Turn] = {}
    /\ done' = done \cup {Turn}
    /\ UNCHANGED <<network, contractionVars, phase, query, dist, open, progress, best>>

Return ==
    /\ phase = "searching" /\ ~GoesOn
    /\ phase' = "answered"
    /\ UNCHANGED <<network, contractionVars, query, dist, open, progress, done, best>>

-----------------------------------------------------------------------------
NextOfHierarchy == RemoveLowest \/ ConnectPair \/ Query \/ SettleNext \/ RunsEmpty \/ Return

SpecOfHierarchy == (\E m \in Metrics : InitHierarchy(m)) /\ [][NextOfHierarchy]_hierarchyVars

-----------------------------------------------------------------------------
ParallelArcs == \E a \in Nodes \X Nodes : a[1] # a[2] /\ Cardinality(network.arcs[a]) > 1

(* After each node, the distances between the remaining nodes are those of *)
(* the network, though witness searches saw only some of the shortcuts;    *)
(* what is known about the two ends of a link only differs, and the        *)
(* assertion in insert_or_decrease only fails, with parallel arcs.         *)
OverlayKeepsDistances ==
    /\ panicked => ParallelArcs
    /\ ~panicked /\ pairs = <<>> =>
           \A x, y \in lowest .. N - 1 : Distances(Remaining)[<<x, y>>] = network.dist[<<x, y>>]

(* Distances are exact, for any two nodes and after any other query.       *)
ChAnswersAreDistances ==
    phase = "answered" => best = network.dist[query]
=============================================================================

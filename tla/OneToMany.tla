------------------------------ MODULE OneToMany -----------------------------
(***************************************************************************)
(* Distances between one node, or several, and many.  The run of           *)
(* engine/src/algo/ch_potentials.rs from several terminals,                *)
(* BucketCHSelectionRun, goes up in one pass over the nodes in the order   *)
(* of their ranks and leaves at each node it meets a bucket with distances *)
(* to terminals.  BucketCHPotential starts it from targets and fills in    *)
(* the distances of other nodes when they are asked for.  The queries of   *)
(* engine/src/algo/rphast.rs search or run up from the sources, and then   *)
(* sweep over the part of the graph that is above selected nodes.          *)
(* BCCHNearestNeighbor of query/nearest_neighbor.rs walks over the buckets *)
(* above a node for the k targets nearest to it.                           *)
(***************************************************************************)
EXTENDS CCHMetrics, Sequences, SequencesExt, FiniteSetsExt

CONSTANT Selections  \* lists of different nodes: terminals, or those to be selected

VARIABLES
    method,      \* "lazy": BucketCHPotential, "one": RPHASTQuery, "many": SSERPHASTQuery, "nearest": BCCHNearestNeighbor
    terminals,   \* the targets of "lazy", the sources of others
    queue,       \* nodes to be settled, the lowest first
    buckets,     \* distances: pairs of a terminal and its distance at each node
    incoming,    \* lower nodes whose buckets are to be passed on to a node
    pruning,     \* lower nodes whose buckets a node may prune
    tables,      \* BucketCHPotential::potentials: what is allocated, by node and terminal
    final,       \* pot_final
    asked,       \* nodes of RPHAST::select that are still to be selected
    selectionStack,  \* nodes on the way up from the one that is selected
    restricted,  \* restricted_nodes: the selected nodes and all above them
    distances,   \* restricted_distances, by position in restricted and terminal
    swept,       \* how many of them are final, or None
    walk         \* of BCCHNearestNeighbor: source, k, node, fw_distances and closest_targets

bucketVars == <<terminals, queue, buckets, incoming, pruning>>
lazyVars == <<tables, final>>
selectionVars == <<asked, selectionStack, restricted>>
resultVars == <<distances, swept, walk>>
vars == <<customized, method, bucketVars, lazyVars, selectionVars, resultVars>>

InitFor(name) ==
    /\ method = name
    /\ terminals = <<>> /\ queue = {} /\ buckets = [x \in Nodes |-> {}]
    /\ incoming = [x \in Nodes |-> {}] /\ pruning = [x \in Nodes |-> {}]
    /\ tables = [x \in Nodes |-> <<>>] /\ final = {}
    /\ asked = <<>> /\ selectionStack = <<>> /\ restricted = <<>>
    /\ distances = <<>> /\ swept = None
    /\ walk = [source |-> None, k |-> 1, node |-> None, reached |-> [x \in Nodes |-> Inf], closest |-> {}]

Init ==
    /\ \E m \in Metrics : customized = Perfect(m)
    /\ \E name \in {"lazy", "one", "many", "nearest"} : InitFor(name)

-----------------------------------------------------------------------------
(* BucketCHSelectionRun.  Only that to targets goes up against the arcs.   *)

ToTargets == method \in {"lazy", "nearest"}

(* graph and pruning_graph                                                 *)
RunEdges == IF ToTargets THEN customized.bw ELSE customized.fw

RunWeight == IF ToTargets THEN customized.down ELSE customized.up

PruningEdges == IF ToTargets THEN customized.fw ELSE customized.bw

PruningWeight == IF ToTargets THEN customized.up ELSE customized.down

HeadsIn(edges, x) == {y \in Nodes : <<x, y>> \in edges}

(* BucketCHSelectionRun::query: what lower nodes had to pass on was passed *)
(* on by the last run, which went on to its end.                           *)
Select(list) ==
    /\ queue = {}
    /\ terminals' = list
    /\ queue' = {list[i] : i \in DOMAIN list}
    /\ buckets' = [x \in Nodes |-> {<<i, 0>> : i \in {j \in DOMAIN list : list[j] = x}}]
    /\ UNCHANGED <<incoming, pruning>>

(* terminal_dists: the best distance of each terminal over a lower node.   *)
Arrived(x) ==
    LET ways == UNION {{<<b[1], b[2] + RunWeight[<<low, x>>]>> : b \in buckets[low]} : low \in incoming[x]}
    IN  {w \in ways : \A v \in ways : v[1] = w[1] => w[2] <= v[2]}

(* Mutation of Kept: the way to the higher node is forgotten.              *)
KeptIfLower(low, x) == {b \in buckets[low] : \A a \in Arrived(x) : a[1] = b[1] => b[2] < a[2]}

(* The entries of a lower node that x does not make superfluous.           *)
Kept(low, x) ==
    {b \in buckets[low] : \A a \in Arrived(x) : a[1] = b[1] => b[2] < a[2] + PruningWeight[<<low, x>>]}

(* settle_next_node: x announces itself to its heads, is given distances by*)
(* lower nodes and prunes theirs.                                          *)
Settle ==
    /\ queue # {}
    /\ LET x == Min(queue)
           heads(edges) == IF incoming[x] # {} \/ buckets[x] # {} THEN HeadsIn(edges, x) ELSE {}
           announced(to, edges) ==
               [y \in Nodes |-> IF y = x THEN {} ELSE IF y \in heads(edges) THEN to[y] \cup {x} ELSE to[y]]
       IN  /\ queue' = (queue \ {x}) \cup heads(RunEdges) \cup heads(PruningEdges)
           /\ incoming' = announced(incoming, RunEdges)
           /\ pruning' = announced(pruning, PruningEdges)
           /\ buckets' = [y \in Nodes |-> IF y = x THEN buckets[x] \cup Arrived(x)
                                          ELSE IF y \in pruning[x] THEN Kept(y, x) ELSE buckets[y]]
    /\ UNCHANGED terminals

(* The distance of a terminal in the bucket of a node.                     *)
InBucket(x, i) == Min({b[2] : b \in {c \in buckets[x] : c[1] = i}} \cup {Inf})

(* Reference: the distance between a node and a terminal.                  *)
TerminalDistance(x, i) ==
    customized.dist[IF ToTargets THEN <<x, terminals[i]>> ELSE <<terminals[i], x>>]

-----------------------------------------------------------------------------
(* BucketCHPotential                                                       *)

(* The loop of init, and of select_targets.                                *)
Run ==
    /\ ToTargets /\ Settle
    /\ UNCHANGED <<customized, method, lazyVars, selectionVars, resultVars>>

(* init: what was computed for the last targets is dropped.                *)
InitTargets ==
    /\ method = "lazy"
    /\ \E list \in Selections : Select(list)
    /\ tables' = [x \in Nodes |-> IF x \in final THEN <<>> ELSE tables[x]] /\ final' = {}
    /\ UNCHANGED <<customized, method, selectionVars, resultVars>>

(* The nodes that compute_dists visits from x.                             *)
Visited(x) ==
    LET above[y \in Nodes] == {y} \cup UNION {above[z] : z \in HeadsIn(PruningEdges, y)} IN above[x] \ final

(* compute_dists: first the heads, then the node itself; a node that is    *)
(* final is not visited again.                                             *)
Potential ==
    /\ method = "lazy" /\ queue = {} /\ terminals # <<>>
    /\ \E x \in Nodes :
           LET own(y, i) == IF tables[y] = <<>> THEN InBucket(y, i) ELSE tables[y][i]
               value[y \in Nodes] ==
                   IF y \notin Visited(x) THEN tables[y]
                   ELSE [i \in DOMAIN terminals |->
                            Min({own(y, i)} \cup {value[z][i] + PruningWeight[<<y, z>>] : z \in HeadsIn(PruningEdges, y)})]
           IN  tables' = value /\ final' = final \cup Visited(x)
    /\ UNCHANGED <<customized, method, bucketVars, selectionVars, resultVars>>

-----------------------------------------------------------------------------
(* RPHAST::select: depth first to the heads of the backward graph, so that *)
(* every node comes after those it is relaxed from.                        *)

(* No selection and no query is going on.                                  *)
Idle == asked = <<>> /\ selectionStack = <<>> /\ queue = {} /\ swept \in {None, Len(restricted)}

SelectRestricted ==
    /\ ~ToTargets /\ Idle
    /\ \E list \in Selections : asked' = list
    /\ restricted' = <<>> /\ swept' = None
    /\ UNCHANGED <<customized, method, bucketVars, lazyVars, selectionStack, distances, walk>>

(* The node itself is taken off the selectionStack when it is restricted already.   *)
PushAsked ==
    /\ asked # <<>> /\ selectionStack = <<>>
    /\ selectionStack' = <<Head(asked)>> /\ asked' = Tail(asked)
    /\ UNCHANGED <<customized, method, bucketVars, lazyVars, restricted, resultVars>>

Top == selectionStack[Len(selectionStack)]

TargetHeads(x) == HeadsIn(customized.bw, x)

Unrestricted(x) == TargetHeads(x) \ ToSet(restricted)

PushHead ==
    /\ selectionStack # <<>> /\ Top \notin ToSet(restricted) /\ Unrestricted(Top) # {}
    /\ selectionStack' = Append(selectionStack, Min(Unrestricted(Top)))
    /\ UNCHANGED <<customized, method, bucketVars, lazyVars, asked, restricted, resultVars>>

PopTop ==
    /\ selectionStack # <<>> /\ (Top \in ToSet(restricted) \/ Unrestricted(Top) = {})
    /\ restricted' = IF Top \in ToSet(restricted) THEN restricted ELSE Append(restricted, Top)
    /\ selectionStack' = Front(selectionStack)
    /\ UNCHANGED <<customized, method, bucketVars, lazyVars, asked, resultVars>>

-----------------------------------------------------------------------------
(* RPHASTQuery::query and SSERPHASTQuery::query                            *)

(* One source: an upward search; its distances at restricted nodes.        *)
QueryOne ==
    /\ method = "one" /\ Idle /\ restricted # <<>>
    /\ \E s \in Nodes :
           LET up == Walked(customized.up, customized.fw, s, [y \in Nodes |-> N]).dist
           IN  /\ terminals' = <<s>>
               /\ distances' = [p \in DOMAIN restricted |-> <<up[restricted[p]]>>]
    /\ swept' = 0
    /\ UNCHANGED <<customized, method, walk, queue, buckets, incoming, pruning, lazyVars, selectionVars>>

(* Several sources: a run, whose distances at restricted nodes are copied  *)
(* as the nodes are settled.                                               *)
QueryMany ==
    /\ method = "many" /\ Idle /\ restricted # <<>>
    /\ \E list \in Selections :
           /\ Select(list)
           /\ distances' = [p \in DOMAIN restricted |-> [i \in DOMAIN list |-> Inf]]
    /\ swept' = 0
    /\ UNCHANGED <<customized, method, walk, lazyVars, selectionVars>>

RunAndCopy ==
    /\ method = "many" /\ Settle
    /\ distances' = [p \in DOMAIN restricted |->
           IF restricted[p] # Min(queue) THEN distances[p]
           ELSE [i \in DOMAIN terminals |->
                    Min({b[2] : b \in {c \in buckets'[restricted[p]] : c[1] = i}} \cup {distances[p][i]})]]
    /\ UNCHANGED <<customized, method, lazyVars, selectionVars, swept, walk>>

(* The distance of a restricted node over those that are before it.        *)
Sweep ==
    /\ swept # None /\ queue = {} /\ swept < Len(restricted)
    /\ LET x == restricted[swept + 1]
           position(y) == CHOOSE p \in DOMAIN restricted : restricted[p] = y
           over(y, i) == distances[position(y)][i] + customized.down[<<x, y>>]
       IN  distances' = [distances EXCEPT ![swept + 1] =
                [i \in DOMAIN terminals |-> Min({@[i]} \cup {over(y, i) : y \in TargetHeads(x)})]]
    /\ swept' = swept + 1
    /\ UNCHANGED <<customized, method, walk, bucketVars, lazyVars, selectionVars>>

-----------------------------------------------------------------------------
(* BCCHNearestNeighbor                                                     *)

(* select_targets                                                          *)
SelectTargets ==
    /\ method = "nearest" /\ walk.node = None
    /\ \E list \in Selections : Select(list)
    /\ walk' = [walk EXCEPT !.source = None, !.closest = {}]
    /\ UNCHANGED <<customized, method, lazyVars, selectionVars, distances, swept>>

QueryNearest ==
    /\ method = "nearest" /\ queue = {} /\ walk.node = None
    /\ \E s \in Nodes, k \in DOMAIN terminals :
           walk' = [walk EXCEPT !.source = s, !.k = k, !.node = s, !.reached[s] = 0, !.closest = {}]
    /\ UNCHANGED <<customized, method, bucketVars, lazyVars, selectionVars, distances, swept>>

Furthest(found) == CHOOSE c \in found : \A d \in found : d[1] < c[1] \/ (d[1] = c[1] /\ d[2] <= c[2])

(* Mutation of Nearer: a target keeps the distance it is found with first. *)
NearerFirst(found, c) ==
    IF \/ Cardinality(found) >= walk.k /\ c[1] >= Furthest(found)[1]
       \/ \E d \in found : c[2] = d[2]
    THEN found ELSE (IF Cardinality(found) < walk.k THEN found ELSE found \ {Furthest(found)}) \cup {c}

(* A target with a distance: it may be among those that are found already. *)
Nearer(found, c) ==
    LET old == {d \in found : d[2] = c[2]}
        kept == IF old # {} THEN found \ old
                ELSE IF Cardinality(found) < walk.k THEN found ELSE found \ {Furthest(found)}
    IN  IF \/ Cardinality(found) >= walk.k /\ c[1] >= Furthest(found)[1]
           \/ \E d \in old : c[1] >= d[1]
        THEN found ELSE kept \cup {c}

(* The next node on the way to the root: the first k targets of its bucket *)
(* and, unless all it may lead to is further away, its heads.              *)
WalkOn ==
    /\ walk.node # None
    /\ LET x == walk.node
           worth == Cardinality(walk.closest) < walk.k \/ walk.reached[x] < Furthest(walk.closest)[1]
           relaxed == IF worth THEN Relaxed(walk.reached, customized.up, customized.fw, x) ELSE walk.reached
       IN  \E sorted \in SetToSeqs({<<walk.reached[x] + b[2], b[1]>> : b \in buckets[x]}) :
               /\ \A i \in 1 .. Len(sorted) - 1 : sorted[i][1] <= sorted[i + 1][1]
               /\ walk' = [walk EXCEPT !.node = Parent[x], !.reached = [relaxed EXCEPT ![x] = Inf],
                              !.closest = IF worth THEN FoldLeft(Nearer, @, SubSeq(sorted, 1, Min({walk.k, Len(sorted)}))) ELSE @]
    /\ UNCHANGED <<customized, method, bucketVars, lazyVars, selectionVars, distances, swept>>

-----------------------------------------------------------------------------
Next ==
    \/ InitTargets \/ Run \/ Potential
    \/ SelectRestricted \/ PushAsked \/ PushHead \/ PopTop
    \/ QueryOne \/ QueryMany \/ RunAndCopy \/ Sweep
    \/ SelectTargets \/ QueryNearest \/ WalkOn

Spec == Init /\ [][Next]_vars

-----------------------------------------------------------------------------
(* Targets are found with their distances, as many as asked for and none   *)
(* further away than another, or all that are reachable.  If there are less*)
(* of these, others may be found, with a distance that is not INFINITY.    *)
NearestAreFound ==
    LET found == {c \in walk.closest : c[1] < Inf}
        reachable == {i \in DOMAIN terminals : TerminalDistance(walk.source, i) < Inf}
    IN  /\ \A c \in found : c[1] = TerminalDistance(walk.source, c[2])
        /\ Cardinality(found) = Min({walk.k, Cardinality(reachable)})
        /\ \A c \in found, i \in reachable \ {d[2] : d \in found} : c[1] <= TerminalDistance(walk.source, i)

(* Every distance that is reported, for whichever targets, selections and  *)
(* sources came before, is that of the metric.                             *)
ReportedAreDistances ==
    /\ method = "lazy" /\ queue = {} =>
           \A x \in final, i \in DOMAIN terminals : tables[x][i] = TerminalDistance(x, i)
    /\ Idle /\ swept # None =>
           \A p \in DOMAIN restricted, i \in DOMAIN terminals : distances[p][i] = TerminalDistance(restricted[p], i)
    /\ walk.node = None /\ walk.source # None => NearestAreFound
=============================================================================

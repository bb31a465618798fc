------------------------------ MODULE Topocore ------------------------------
(***************************************************************************)
(* virtual_topocore of engine/src/algo/topocore.rs: a depth first search   *)
(* that splits the network into biconnected components, the biggest of     *)
(* which is the core, a search of the dead ends that are left, and the     *)
(* order of the nodes that puts the core first, by degree.                 *)
(***************************************************************************)
EXTENDS SearchGraph, SequencesExt

CONSTANT Networks  \* sets of arcs

VARIABLES
    network,
    step,       \* what is going on
    num, low,   \* dfs_num and dfs_low, None before a node is visited
    parent,     \* dfs_parent
    stack,      \* the nodes that are visited, each with the neighbors to come
    edgeStack,  \* edges that belong to no component yet
    blocks,     \* components: of edges, in the order in which they were found
    core,       \* biggest_bcc
    part,       \* components: the number of the dead end of a node, or 0
    bridge,     \* the node of the core on which each dead end hangs, or None
    queue,      \* nodes of a dead end whose neighbors are to be looked at
    order       \* new_order

searchVars == <<num, low, parent, stack, edgeStack, blocks>>
restVars == <<core, part, bridge, queue>>
vars == <<network, step, searchVars, restVars, order>>

-----------------------------------------------------------------------------
Ascending(S) == SetToSortSeq(S, LAMBDA x, y : x < y)

(* UndirectedGraph::link_iter: the tails of arcs to a node, then the heads *)
(* of arcs from it.  Neighbors in both directions come twice.              *)
Around(x) == Ascending({y \in Nodes : <<y, x>> \in network}) \o Ascending({y \in Nodes : <<x, y>> \in network})

(* symmetric_degree: a loop, like each neighbor, counts once.              *)
Degree == [x \in Nodes |-> Cardinality({y \in Nodes : <<x, y>> \in network \/ <<y, x>> \in network})]

Init ==
    /\ network \in Networks
    /\ step = "searching"
    /\ num = [x \in Nodes |-> None] /\ low = [x \in Nodes |-> 0] /\ parent = [x \in Nodes |-> 0]
    /\ stack = <<>> /\ edgeStack = <<>> /\ blocks = <<>>
    /\ core = {} /\ part = [x \in Nodes |-> 0] /\ bridge = <<>> /\ queue = <<>>
    /\ order = <<>>

-----------------------------------------------------------------------------
(* biconnected                                                             *)

Visited == {x \in Nodes : num[x] # None}

Top == stack[Len(stack)]

(* A node gets its number when the loop comes to it first.                 *)
Enter(x, from) ==
    /\ num' = [num EXCEPT ![x] = Cardinality(Visited)]
    /\ low' = [low EXCEPT ![x] = Cardinality(Visited)]
    /\ parent' = [parent EXCEPT ![x] = from]

EnterRoot ==
    /\ step = "searching" /\ stack = <<>> /\ Visited # Nodes
    /\ LET x == Min(Nodes \ Visited)
       IN  Enter(x, x) /\ stack' = << <<x, Around(x)>> >>
    /\ UNCHANGED <<network, step, edgeStack, blocks, restVars, order>>

Rest == [stack EXCEPT ![Len(stack)][2] = Tail(@)]

(* The next neighbor is new: the search goes on there.                     *)
Descend ==
    /\ step = "searching" /\ stack # <<>> /\ Top[2] # <<>>
    /\ LET y == Head(Top[2])
       IN  /\ num[y] = None
           /\ Enter(y, Top[1])
           /\ edgeStack' = Append(edgeStack, <<Top[1], y>>)
           /\ stack' = Append(Rest, <<y, Around(y)>>)
    /\ UNCHANGED <<network, step, blocks, restVars, order>>

(* Mutation of LookBack: the low point of the neighbor, not its number.    *)
LookBackAtLowPoints ==
    /\ step = "searching" /\ stack # <<>> /\ Top[2] # <<>>
    /\ LET x == Top[1]
           y == Head(Top[2])
           back == num[y] < num[x] /\ y # parent[x]
       IN  /\ num[y] # None
           /\ edgeStack' = IF back THEN Append(edgeStack, <<x, y>>) ELSE edgeStack
           /\ low' = IF back THEN [low EXCEPT ![x] = Min({@, low[y]})] ELSE low
    /\ stack' = Rest
    /\ UNCHANGED <<network, step, num, parent, blocks, restVars, order>>

(* The next neighbor was visited before, and counts if it is above.        *)
LookBack ==
    /\ step = "searching" /\ stack # <<>> /\ Top[2] # <<>>
    /\ LET x == Top[1]
           y == Head(Top[2])
           back == num[y] < num[x] /\ y # parent[x]
       IN  /\ num[y] # None
           /\ edgeStack' = IF back THEN Append(edgeStack, <<x, y>>) ELSE edgeStack
           /\ low' = IF back THEN [low EXCEPT ![x] = Min({@, num[y]})] ELSE low
    /\ stack' = Rest
    /\ UNCHANGED <<network, step, num, parent, blocks, restVars, order>>

(* The end of the edges from w and nodes found later, and the edge to w.   *)
BlockStart(w) ==
    LET deeper(i) == num[edgeStack[i][1]] >= num[w]
        kept == {i \in 0 .. Len(edgeStack) : i > 0 => ~deeper(i)}
    IN  Max({0} \cup {Max(kept) - 1})

(* A node without neighbors to come is left.  If nothing below it reaches  *)
(* above its parent, the edges on the stack are a component; so they are,  *)
(* none of them, when a root is left.                                      *)
Retreat ==
    /\ step = "searching" /\ stack # <<>> /\ Top[2] = <<>>
    /\ LET w == Top[1]
           v == parent[w]
           lowest == Min({low[v], low[w]})
           start == BlockStart(w)
       IN  /\ low' = [low EXCEPT ![v] = lowest]
           /\ stack' = SubSeq(stack, 1, Len(stack) - 1)
           /\ IF low'[w] >= num[v]
              THEN /\ blocks' = Append(blocks, SubSeq(edgeStack, start + 1, Len(edgeStack)))
                   /\ edgeStack' = SubSeq(edgeStack, 1, start)
              ELSE UNCHANGED <<blocks, edgeStack>>
    /\ UNCHANGED <<network, step, num, parent, restVars, order>>

(* max_by_key: the last of the longest lists, in which edges between nodes *)
(* that are joined in both directions may be twice.                        *)
Biggest == CHOOSE i \in DOMAIN blocks : \A j \in DOMAIN blocks :
               Len(blocks[j]) < Len(blocks[i]) \/ (Len(blocks[j]) = Len(blocks[i]) /\ j <= i)

EndsOf(edges) == UNION {{edges[i][1], edges[i][2]} : i \in DOMAIN edges}

TakeCore ==
    /\ step = "searching" /\ stack = <<>> /\ Visited = Nodes
    /\ core' = EndsOf(blocks[Biggest])
    /\ step' = "dead ends"
    /\ UNCHANGED <<network, searchVars, part, bridge, queue, order>>

-----------------------------------------------------------------------------
(* The dead ends                                                           *)

Unknown == {x \in Nodes \ core : part[x] = 0}

StartDeadEnd ==
    /\ step = "dead ends" /\ queue = <<>> /\ Unknown # {}
    /\ LET x == Min(Unknown)
       IN  queue' = <<x>> /\ part' = [part EXCEPT ![x] = Len(bridge) + 1]
    /\ bridge' = Append(bridge, None)
    /\ UNCHANGED <<network, step, searchVars, core, order>>

(* Mutation of LookAround: the search goes on in the core.                 *)
LookThroughCore ==
    /\ step = "dead ends" /\ queue # <<>>
    /\ LET here == Len(bridge)
           around == Around(Head(queue))
           ends == SelectSeq(around, LAMBDA y : y \in core)
           new == {y \in ToSet(around) : part[y] = 0}
           first(y) == Min({i \in DOMAIN around : around[i] = y})
       IN  /\ bridge' = IF bridge[here] = None /\ ends # <<>> THEN [bridge EXCEPT ![here] = Head(ends)] ELSE bridge
           /\ part' = [x \in Nodes |-> IF x \in new THEN here ELSE part[x]]
           /\ queue' = Tail(queue) \o SetToSortSeq(new, LAMBDA x, y : first(x) < first(y))
    /\ UNCHANGED <<network, step, searchVars, core, order>>

(* The neighbors of a node of the dead end: the first in the core is the   *)
(* bridge, new ones are queued.                                            *)
LookAround ==
    /\ step = "dead ends" /\ queue # <<>>
    /\ LET here == Len(bridge)
           around == Around(Head(queue))
           ends == SelectSeq(around, LAMBDA y : y \in core)
           new == {y \in ToSet(around) \ core : part[y] = 0}
           first(y) == Min({i \in DOMAIN around : around[i] = y})
       IN  /\ bridge' = IF bridge[here] = None /\ ends # <<>> THEN [bridge EXCEPT ![here] = Head(ends)] ELSE bridge
           /\ part' = [x \in Nodes |-> IF x \in new THEN here ELSE part[x]]
           /\ queue' = Tail(queue) \o SetToSortSeq(new, LAMBDA x, y : first(x) < first(y))
    /\ UNCHANGED <<network, step, searchVars, core, order>>

-----------------------------------------------------------------------------
(* The order                                                               *)

(* dfs_pre_order of the arcs, not their reversals: a node that was pushed  *)
(* several times is visited when it is popped first.                       *)
PreOrder ==
    LET visit[k \in 0 .. Cardinality(Nodes)] ==
            IF k = 0
            THEN [seen |-> <<>>, open |-> <<>>]
            ELSE LET before == visit[k - 1]
                     news(list) == SelectSeq(list, LAMBDA y : ~Contains(before.seen, y))
                     open == news(before.open)
                     next == IF open = <<>> THEN Min(Nodes \ ToSet(before.seen)) ELSE open[Len(open)]
                     heads == Ascending({y \in Nodes : <<next, y>> \in network /\ y # next})
                 IN  [seen |-> Append(before.seen, next), open |-> open \o news(heads)]
    IN  visit[Cardinality(Nodes)].seen

(* Nodes of degree four and more are not told apart.                       *)
DegreeClass(x) == Min({Degree[x], 4})

(* The core sorted by degree, nodes of the same degree as they were, and   *)
(* the others.                                                             *)
SortOrder ==
    /\ step = "dead ends" /\ queue = <<>> /\ Unknown = {}
    /\ order' = FlattenSeq([i \in 1 .. 5 |-> SelectSeq(PreOrder, LAMBDA x : x \in core /\ DegreeClass(x) = 5 - i)])
                    \o SelectSeq(PreOrder, LAMBDA x : x \notin core)
    /\ step' = "done"
    /\ UNCHANGED <<network, searchVars, restVars>>

(* The first position in the order with a degree below d: the end of the   *)
(* nodes that count as nodes of degree d and more.                         *)
FirstBelow(d) == Min({i \in 1 .. Len(order) : Degree[order[i]] < d} \cup {Len(order) + 1})

(* node_type                                                               *)
NodeType(x) ==
    LET rank == CHOOSE i \in DOMAIN order : order[i] = x
    IN  IF rank < FirstBelow(4) THEN "Deg4OrMore"
        ELSE IF rank < FirstBelow(3) THEN "Deg3"
        ELSE IF rank <= Cardinality(core) THEN "Deg2OrLess" ELSE "OtherBCC"

BridgeNode(x) == IF NodeType(x) # "OtherBCC" THEN None ELSE bridge[part[x]]

Next ==
    \/ EnterRoot \/ Descend \/ LookBack \/ Retreat
    \/ TakeCore \/ StartDeadEnd \/ LookAround \/ SortOrder

-----------------------------------------------------------------------------
(* The undirected edges of the network.                                    *)
Roads == {{a[1], a[2]} : a \in {b \in network : b[1] # b[2]}}

Undirected == [a \in network |-> 0]

(* Reference: no node separates the edges e and f, that is, what is left   *)
(* of them without the node is connected without the node.                 *)
Inseparable(e, f) ==
    \A c \in Nodes :
        \A x \in e \ {c} : \A y \in f \ {c} : y \in {x} \cup DeadEnd(Undirected, {c}, x)

(* The lists of edges are the biconnected components: each edge is in one  *)
(* of them, with those that no node separates from it.                     *)
BlocksAreExact ==
    step = "dead ends" =>
        \A e \in Roads : \E i \in DOMAIN blocks :
            {{blocks[i][j][1], blocks[i][j][2]} : j \in DOMAIN blocks[i]} = {f \in Roads : Inseparable(e, f)}

(* Reference: the nodes of the core on which the dead end of x hangs.      *)
Ends(x) == UNION {Neighbors(Undirected, y) \cap core : y \in DeadEnd(Undirected, core, x)}

(* Each node of the core has the type of its degree and no bridge, the     *)
(* others have the type of dead ends and bridge_node leads them to the only*)
(* node of the core on which they hang.  If every node of the core has a   *)
(* degree of three or more, nodes of dead ends may be taken for nodes of   *)
(* the core, see FirstBelow.                                               *)
NodesAreClassified ==
    step = "done" /\ (\E x \in core : Degree[x] < 3) =>
        \A x \in Nodes :
            IF x \in core
            THEN /\ NodeType(x) = IF Degree[x] > 3 THEN "Deg4OrMore" ELSE IF Degree[x] = 3 THEN "Deg3" ELSE "Deg2OrLess"
                 /\ BridgeNode(x) = None
            ELSE /\ NodeType(x) = "OtherBCC"
                 /\ IF Ends(x) = {} THEN BridgeNode(x) = None ELSE {BridgeNode(x)} = Ends(x)
=============================================================================

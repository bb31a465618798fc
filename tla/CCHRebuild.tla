----------------------------- MODULE CCHRebuild -----------------------------
(***************************************************************************)
(* rebuild_customized_perfect of engine/src/algo/                          *)
(* customizable_contraction_hierarchy/customization.rs: the edges that a   *)
(* perfect customization modified are removed from both directions of the  *)
(* graph, each kept as adjacency array, and unpacking information, which   *)
(* names edges by their positions, is translated.  Node by node, or in     *)
(* chunks of nodes: the kept edges of each chunk are counted, prefix sums  *)
(* of the counts give each chunk its slices of the new arrays, and the     *)
(* chunks are copied, both times by tasks in any order.                    *)
(***************************************************************************)
EXTENDS CCHWeights, FiniteSets

CONSTANT ChunkCounts  \* numbers of chunks: four for each thread of the pool

ASSUME ChunkCountsAssumption == ChunkCounts \subseteq Nat \ {0}

VARIABLES
    up, down,        \* weights, after perfect customization
    upMod, downMod,  \* edges to be removed, upwards and downwards
    upVia, downVia,  \* lower node of the triangle an edge unpacks to, or None
    step,            \* what is going on
    chunks,          \* their number, k
    pending,         \* chunks or nodes not yet done in this step
    kept,            \* edges_of_each_thread: kept edges, forward and backward
    fw, bw           \* the new graphs, see Blank

inputs == <<up, down, upMod, downMod, upVia, downVia>>
rebuildVars == <<step, chunks, pending, kept, fw, bw>>

-----------------------------------------------------------------------------
(* The ids of the edges of the given graph, 0 .. M - 1: by their tails,    *)
(* then by their heads.                                                    *)
Before(e, f) == e[1] < f[1] \/ (e[1] = f[1] /\ e[2] < f[2])
M == Cardinality(Edges)
Ids == 0 .. M - 1
IdOf == [e \in Edges |-> Cardinality({f \in Edges : Before(f, e)})]
Edge == [id \in Ids |-> CHOOSE e \in Edges : IdOf[e] = id]

(* The arrays before anything is copied: first_out, the edges (head, tail, *)
(* weight and unpacking in one record) and the new ids, M for none.        *)
NoEdge == [head |-> 0, tail |-> 0, weight |-> 0, unpack |-> <<None, None>>]
Blank == [firstOut |-> [x \in 0 .. N |-> 0], edges |-> [id \in Ids |-> NoEdge], newId |-> [id \in Ids |-> M]]

(* An edge as it is copied: both parts of its unpacking by their old ids,  *)
(* first the way down to the lower node, then the way up from it.          *)
Forward == [e \in Edges |->
    [head |-> e[2], tail |-> e[1], weight |-> up[e],
     unpack |-> IF upVia[e] = None THEN <<None, None>> ELSE <<IdOf[<<upVia[e], e[1]>>], IdOf[<<upVia[e], e[2]>>]>>]]

Backward == [e \in Edges |->
    [head |-> e[2], tail |-> e[1], weight |-> down[e],
     unpack |-> IF downVia[e] = None THEN <<None, None>> ELSE <<IdOf[<<downVia[e], e[2]>>], IdOf[<<downVia[e], e[1]>>]>>]]

NewId(newId, id) == IF id = None THEN None ELSE newId[id]

(* Mutation of Translated: by the ids of the edge's own direction.         *)
TranslatedForward(edge) == [edge EXCEPT !.unpack = <<NewId(fw.newId, @[1]), NewId(fw.newId, @[2])>>]

(* Both directions of the unpacking refer to backward edges first.         *)
Translated(edge) == [edge EXCEPT !.unpack = <<NewId(bw.newId, @[1]), NewId(fw.newId, @[2])>>]

(* The graph with edges copied to the places from start on.                *)
WithEdges(g, copied, start, edge) ==
    LET place(e) == start + Cardinality({f \in copied : Before(f, e)})
    IN  [g EXCEPT !.edges = [p \in Ids |-> IF \E e \in copied : place(e) = p
                                           THEN edge[CHOOSE e \in copied : place(e) = p] ELSE @[p]],
                  !.newId = [id \in Ids |-> IF Edge[id] \in copied THEN place(Edge[id]) ELSE @[id]]]

(* The edges of some nodes that are kept.                                  *)
KeptOf(nodes, mod) == {e \in Edges \ mod : e[1] \in nodes}

InitRebuild == step = "waiting" /\ chunks = 0 /\ pending = {} /\ kept = <<>> /\ fw = Blank /\ bw = Blank

-----------------------------------------------------------------------------
(* Without parallelism                                                     *)

(* The graph after the kept edges of a node were appended to it.           *)
Appended(g, x, mod, edge) ==
    LET count == Cardinality(KeptOf(0 .. x, mod))
        copy == [e \in Edges |-> Translated(edge[e])]
    IN  [WithEdges(g, KeptOf({x}, mod), g.firstOut[x], copy) EXCEPT !.firstOut[x + 1] = count]

StartSequential ==
    /\ step = "waiting"
    /\ step' = "appending" /\ pending' = Nodes
    /\ UNCHANGED <<inputs, chunks, kept, fw, bw>>

(* The loop over the nodes: unpacking is translated as an edge is copied,  *)
(* its parts, edges of lower nodes, were mapped before.                    *)
AppendNode ==
    /\ step = "appending" /\ pending # {}
    /\ LET x == Lowest(pending)
       IN  /\ fw' = Appended(fw, x, upMod, Forward)
           /\ bw' = Appended(bw, x, downMod, Backward)
           /\ pending' = pending \ {x}
           /\ step' = IF pending' = {} THEN "rebuilt" ELSE step
    /\ UNCHANGED <<inputs, chunks, kept>>

-----------------------------------------------------------------------------
(* In chunks                                                               *)

(* Mutation of PerChunk: not rounded up but one more.                      *)
PerChunkMore(k) == M \div k + 1

(* target_edges_per_thread.                                                *)
PerChunk(k) == (M + k - 1) \div k

(* first_node_of_chunk: the tail of the first edge of each chunk of edges. *)
FirstNodes(k) ==
    [i \in 0 .. (M + PerChunk(k) - 1) \div PerChunk(k) |-> IF i * PerChunk(k) < M THEN Edge[i * PerChunk(k)][1] ELSE N]

ChunkNodes(i) == FirstNodes(chunks)[i] .. FirstNodes(chunks)[i + 1] - 1

(* A loop over k chunks indexes the list of their first nodes: it panics   *)
(* when there are fewer.                                                   *)
StartParallel(k) ==
    /\ step = "waiting"
    /\ chunks' = k
    /\ step' = IF M > 0 /\ k \in DOMAIN FirstNodes(k) THEN "counting" ELSE "panicked"
    /\ pending' = 0 .. k - 1
    /\ kept' = [i \in 0 .. k |-> <<0, 0>>]
    /\ UNCHANGED <<inputs, fw, bw>>

(* The first task.                                                         *)
CountChunk(i) ==
    /\ step = "counting" /\ i \in pending
    /\ kept' = [kept EXCEPT ![i + 1] = <<Cardinality(KeptOf(ChunkNodes(i), upMod)), Cardinality(KeptOf(ChunkNodes(i), downMod))>>]
    /\ pending' = pending \ {i}
    /\ UNCHANGED <<inputs, step, chunks, fw, bw>>

(* The loop that adds up the counts.                                       *)
KeptUpTo ==
    LET sum[i \in 0 .. chunks] ==
            IF i = 0 THEN kept[0] ELSE <<sum[i - 1][1] + kept[i][1], sum[i - 1][2] + kept[i][2]>>
    IN  sum

(* Mutation of PrefixSums: the counts of the chunk itself are left out.    *)
PrefixSumsBefore ==
    /\ step = "counting" /\ pending = {}
    /\ kept' = [i \in 0 .. chunks |-> IF i = 0 THEN <<0, 0>> ELSE KeptUpTo[i - 1]]
    /\ pending' = 0 .. chunks - 1
    /\ step' = "copying"
    /\ UNCHANGED <<inputs, chunks, fw, bw>>

PrefixSums ==
    /\ step = "counting" /\ pending = {}
    /\ kept' = KeptUpTo
    /\ pending' = 0 .. chunks - 1
    /\ step' = "copying"
    /\ UNCHANGED <<inputs, chunks, fw, bw>>

(* The graph after a chunk was copied to its slices.  The slices of        *)
(* first_out, and of the ids, begin at the first node of the first chunk.  *)
Copied(g, i, start, mod, edge) ==
    LET first == FirstNodes(chunks)[0]
        here == ChunkNodes(i)
    IN  [WithEdges(g, KeptOf(here, mod), start, edge) EXCEPT !.firstOut =
            [p \in 0 .. N |-> IF p + first \in here
                              THEN start + Cardinality({e \in KeptOf(here, mod) : e[1] < p + first}) ELSE @[p]]]

(* The second task.                                                        *)
CopyChunk(i) ==
    /\ step = "copying" /\ i \in pending
    /\ fw' = Copied(fw, i, kept[i][1], upMod, Forward)
    /\ bw' = Copied(bw, i, kept[i][2], downMod, Backward)
    /\ pending' = pending \ {i}
    /\ UNCHANGED <<inputs, step, chunks, kept>>

(* The graph with its arrays truncated to the kept edges (the others are   *)
(* blank), the end of first_out, and the ids of the unpacking translated.  *)
Closed(g, count) ==
    [g EXCEPT !.firstOut[N] = count,
              !.edges = [p \in Ids |-> IF p < count THEN Translated(@[p]) ELSE NoEdge]]

Close ==
    /\ step = "copying" /\ pending = {}
    /\ fw' = Closed(fw, kept[chunks][1])
    /\ bw' = Closed(bw, kept[chunks][2])
    /\ step' = "rebuilt"
    /\ UNCHANGED <<inputs, chunks, pending, kept>>

-----------------------------------------------------------------------------
Rebuild ==
    \/ AppendNode
    \/ \E i \in pending : CountChunk(i) \/ CopyChunk(i)
    \/ PrefixSums \/ Close

NextRebuild == StartSequential \/ (\E k \in ChunkCounts : StartParallel(k)) \/ Rebuild

-----------------------------------------------------------------------------
(* The new graph has the kept edges in the order of their ids, each below  *)
(* its tail, with their weights.  In chunks this needs a lowest node with  *)
(* an edge: the slices of first_out do not begin at node 0 otherwise.      *)
IsReduced(g, mod, weight) ==
    LET stay == Edges \ mod
        place(e) == Cardinality({f \in stay : Before(f, e)})
    IN  /\ \A x \in 0 .. N : g.firstOut[x] = Cardinality(KeptOf(0 .. x - 1, mod))
        /\ \A e \in stay :
               LET edge == g.edges[place(e)]
               IN  <<edge.tail, edge.head>> = e /\ edge.weight = weight[e]

ReducedIsExact ==
    step = "rebuilt" /\ (chunks = 0 \/ Graph[0] # {}) => IsReduced(fw, upMod, up) /\ IsReduced(bw, downMod, down)

(* In the new graph an edge unpacks to two edges that were kept, that form *)
(* a triangle with it and are together as long as it is.                   *)
UnpacksExactly(edge, from, to) ==
    edge.unpack # <<None, None>> =>
        LET a == edge.unpack[1]
            b == edge.unpack[2]
        IN  /\ a < bw.firstOut[N] /\ b < fw.firstOut[N]
            /\ bw.edges[a].head = from /\ fw.edges[b].head = to /\ bw.edges[a].tail = fw.edges[b].tail
            /\ edge.weight = bw.edges[a].weight + fw.edges[b].weight

ReducedUnpacks ==
    step = "rebuilt" =>
        /\ \A p \in 0 .. fw.firstOut[N] - 1 : UnpacksExactly(fw.edges[p], fw.edges[p].tail, fw.edges[p].head)
        /\ \A p \in 0 .. bw.firstOut[N] - 1 : UnpacksExactly(bw.edges[p], bw.edges[p].head, bw.edges[p].tail)

(* There are k chunks if there are more than (k - 1)^2 edges: only small   *)
(* graphs make the parallel construction panic.                            *)
EnoughChunks == step = "panicked" => M <= (chunks - 1) * (chunks - 1)
=============================================================================

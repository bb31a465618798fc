----------------------- MODULE CCHPerfectCustomization ----------------------
(***************************************************************************)
(* Perfect customization: customize_perfect_without_rebuild of             *)
(* engine/src/algo/customizable_contraction_hierarchy/customization.rs on  *)
(* the threads of SeperatorBasedPerfectParallelCustomization in            *)
(* customization/parallelization.rs.  Nodes are processed from high to     *)
(* low: the separator first, then the subcells as tasks.  All threads hold *)
(* raw pointers to the whole weight arrays; that they never touch the same *)
(* edges at the same time is argued in comments and not checked by Rust.   *)
(***************************************************************************)
EXTENDS CCHWeights, Sequences

CONSTANTS
    Threads,  \* the threads of the pool
    Cells,    \* the separator tree, as in CCHParallelCustomization
    Root,     \* the whole graph
    Small     \* n / (32 * num_threads): smaller cells are not split

Cell == DOMAIN Cells

VARIABLES
    metric,    \* weights of the input arcs
    up, down,  \* weights of the customized graph, improved in place
    upMod,     \* upward_modified: edges whose upward weight was lowered
    downMod,   \* downward_modified
    state,     \* progress of the call of customize_tree for each cell
    current,   \* for each cell, one more than the node to process next
    stack,     \* the calls of customize_tree nested on each thread
    loaded,    \* whether a thread is in the middle of a node
    todo,      \* triangles <<y, v>> above its node a thread has yet to relax
    ws         \* PERFECT_WORKSPACE of each thread: by head, the tail of an edge
               \* (the code keeps the id of the edge), or None

weightVars == <<metric, up, down, upMod, downMod>>
treeVars == <<state, current, stack>>
vars == <<weightVars, treeVars, loaded, todo, ws>>

Subs(c) == {Cells[c].sub[i] : i \in DOMAIN Cells[c].sub}

End(c) == Cells[c].first + Cells[c].size

IsSmall(c) == Cells[c].size < Small

Init ==
    /\ metric \in Metrics
    /\ up = BasicUp(metric) /\ down = BasicDown(metric)
    /\ upMod = {} /\ downMod = {}
    /\ state = [c \in Cell |-> IF c = Root THEN "spawned" ELSE "idle"]
    /\ current = [c \in Cell |-> End(c)]
    /\ stack = [t \in Threads |-> <<>>]
    /\ loaded = [t \in Threads |-> FALSE]
    /\ todo = [t \in Threads |-> {}]
    /\ ws = [t \in Threads |-> [v \in Nodes |-> None]]

-----------------------------------------------------------------------------
(* The tree: customize_tree                                                *)

Busy(t) == stack[t] # <<>>

Top(t) == Head(stack[t])

(* Mutation of Take: threads that wait at the end of a scope do not help.  *)
TakeOnlyIdle(t) ==
    /\ ~Busy(t)
    /\ \E c \in Cell :
           /\ state[c] = "spawned"
           /\ state' = [state EXCEPT ![c] = "running"]
           /\ stack' = [stack EXCEPT ![t] = <<c>> \o @]
    /\ UNCHANGED <<current, weightVars, loaded, todo, ws>>

(* rayon hands a spawned task to a thread that is idle or that waits for   *)
(* the tasks of its scope.                                                 *)
Take(t) ==
    /\ Busy(t) => state[Top(t)] = "waiting"
    /\ \E c \in Cell :
           /\ state[c] = "spawned"
           /\ state' = [state EXCEPT ![c] = "running"]
           /\ stack' = [stack EXCEPT ![t] = <<c>> \o @]
    /\ UNCHANGED <<current, weightVars, loaded, todo, ws>>

(* The lowest node the thread itself processes for the cell: all nodes of  *)
(* a small cell, the separator of a large one.                             *)
LastNode(c) ==
    IF IsSmall(c) \/ Cells[c].sub = <<>> THEN Cells[c].first
    ELSE End(Cells[c].sub[Len(Cells[c].sub)])

(* Mutation of SpawnSubs: the subcells are spawned when the last node of   *)
(* the separator is still to be processed.                                 *)
SpawnSubsEarly(t) ==
    /\ Busy(t) /\ state[Top(t)] = "running" /\ current[Top(t)] <= LastNode(Top(t)) + 1
    /\ ~IsSmall(Top(t))
    /\ state' = [c \in Cell |-> IF c = Top(t) /\ current[c] = LastNode(c) THEN "waiting" ELSE
                                IF c \in Subs(Top(t)) /\ state[c] = "idle" THEN "spawned" ELSE state[c]]
    /\ UNCHANGED <<current, stack, weightVars, loaded, todo, ws>>

(* When the separator is done all subcells are spawned.                    *)
SpawnSubs(t) ==
    /\ Busy(t) /\ state[Top(t)] = "running" /\ current[Top(t)] = LastNode(Top(t))
    /\ ~IsSmall(Top(t))
    /\ state' = [c \in Cell |-> IF c = Top(t) THEN "waiting" ELSE
                                IF c \in Subs(Top(t)) THEN "spawned" ELSE state[c]]
    /\ UNCHANGED <<current, stack, weightVars, loaded, todo, ws>>

(* The call returns: after a small cell, or when the scope ends.           *)
Return(t) ==
    /\ Busy(t)
    /\ \/ /\ IsSmall(Top(t)) /\ current[Top(t)] = LastNode(Top(t))
       \/ state[Top(t)] = "waiting" /\ \A sub \in Subs(Top(t)) : state[sub] = "done"
    /\ state' = [state EXCEPT ![Top(t)] = "done"]
    /\ stack' = [stack EXCEPT ![t] = Tail(@)]
    /\ UNCHANGED <<current, weightVars, loaded, todo, ws>>

-----------------------------------------------------------------------------
(* One node: the body of the loop in the closure customize_perfect         *)

Node(t) == current[Top(t)] - 1

Running(t) == Busy(t) /\ state[Top(t)] = "running" /\ current[Top(t)] > LastNode(Top(t))

(* The heads of the node's edges are entered in the workspace.  The loops  *)
(* that follow look, over each neighbor y, for neighbors v of y that the   *)
(* workspace knows.                                                        *)
Load(t) ==
    LET x == Node(t)
        loadedWs == [v \in Nodes |-> IF v \in Graph[x] THEN x ELSE ws[t][v]]
    IN  /\ Running(t) /\ ~loaded[t]
        /\ ws' = [ws EXCEPT ![t] = loadedWs]
        /\ todo' = [todo EXCEPT ![t] = {o \in Edges : o[1] \in Graph[x] /\ loadedWs[o[2]] # None}]
        /\ loaded' = [loaded EXCEPT ![t] = TRUE]
        /\ UNCHANGED <<weightVars, treeVars>>

(* The least pair in the order of the loops.                               *)
First(S) == CHOOSE p \in S : \A q \in S : p[1] < q[1] \/ (p[1] = q[1] /\ p[2] <= q[2])

(* Mutation of Lowered: an edge is also marked when it stays equal.        *)
LoweredOnTies(w, e, weight) ==
    IF weight <= w.weight[e] THEN [weight |-> [w.weight EXCEPT ![e] = weight], mod |-> w.mod \cup {e}] ELSE w

(* If the weight of the edge e can be lowered it is, and the edge is       *)
(* marked as modified.                                                     *)
Lowered(w, e, weight) ==
    IF weight < w.weight[e] THEN [weight |-> [w.weight EXCEPT ![e] = weight], mod |-> w.mod \cup {e}] ELSE w

(* Mutation of RelaxedBothWays: the intermediate triangle only.            *)
RelaxedIntermediate(w, e, f, there, back) == Lowered(w, f, w.weight[e] + there)

(* One direction of a triangle: first f is relaxed over e and the edge     *)
(* from e's head to f's, then e over f and that edge against its direction.*)
RelaxedBothWays(w, e, f, there, back) ==
    LET first == Lowered(w, f, w.weight[e] + there)
    IN  Lowered(first, e, first.weight[f] + back)

(* The triangle of the node with an edge s between two of its neighbors:   *)
(* an intermediate and an upper triangle for its two lower edges.          *)
RelaxTriangle(t) ==
    /\ Running(t) /\ loaded[t] /\ todo[t] # {}
    /\ LET s == First(todo[t])
           e == <<Node(t), s[1]>>
           f == <<ws[t][s[2]], s[2]>>
           upwards == RelaxedBothWays([weight |-> up, mod |-> upMod], e, f, up[s], down[s])
           downwards == RelaxedBothWays([weight |-> down, mod |-> downMod], e, f, down[s], up[s])
       IN  /\ up' = upwards.weight /\ upMod' = upwards.mod
           /\ down' = downwards.weight /\ downMod' = downwards.mod
           /\ todo' = [todo EXCEPT ![t] = @ \ {s}]
    /\ UNCHANGED <<metric, treeVars, loaded, ws>>

(* The workspace is reset and the next lower node follows.                 *)
Unload(t) ==
    LET x == Node(t)
    IN  /\ Running(t) /\ loaded[t] /\ todo[t] = {}
        /\ ws' = [ws EXCEPT ![t] = [v \in Nodes |-> IF v \in Graph[x] THEN None ELSE @[v]]]
        /\ loaded' = [loaded EXCEPT ![t] = FALSE]
        /\ current' = [current EXCEPT ![Top(t)] = x]
        /\ UNCHANGED <<weightVars, state, stack, todo>>

-----------------------------------------------------------------------------
Step(t) ==
    \/ Take(t) \/ SpawnSubs(t) \/ Return(t)
    \/ Load(t) \/ RelaxTriangle(t) \/ Unload(t)

Next == \E t \in Threads : Step(t)

Spec == Init /\ [][Next]_vars /\ \A t \in Threads : WF_vars(Step(t))

-----------------------------------------------------------------------------
(* When all is done the weight of each edge is the distance between its    *)
(* ends in the input graph, in both directions.                            *)
WeightsAreDistances ==
    state[Root] = "done" =>
        LET dist == Distances(metric)
        IN  \A e \in Edges : up[e] = dist[e] /\ down[e] = dist[<<e[2], e[1]>>]

(* The modified flags name the edges that are longer than the distance of  *)
(* their ends: rebuild_customized_perfect removes exactly these.           *)
ModifiedIsExact ==
    state[Root] = "done" =>
        /\ upMod = {e \in Edges : BasicUp(metric)[e] > Distances(metric)[e]}
        /\ downMod = {e \in Edges : BasicDown(metric)[e] > Distances(metric)[<<e[2], e[1]>>]}

(* The pointers are shared safely: nobody writes edges of a node while     *)
(* another thread reads or writes them.                                    *)
NoConcurrentAccess ==
    \A t, u \in Threads :
        t # u /\ loaded[t] /\ loaded[u] => Node(u) \notin Graph[Node(t)] \cup {Node(t)}
=============================================================================

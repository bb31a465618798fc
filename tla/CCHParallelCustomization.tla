---------------------- MODULE CCHParallelCustomization ----------------------
(***************************************************************************)
(* Separator based parallelization of basic customization:                 *)
(* engine/src/algo/customizable_contraction_hierarchy/customization/       *)
(* parallelization.rs, SeperatorBasedParallelCustomization, running the    *)
(* closure customize of customization.rs.  The threads of a rayon pool     *)
(* walk the separator tree: subcells are spawned as tasks, any thread may  *)
(* take them, a thread that waits for its subcells takes tasks meanwhile,  *)
(* and the separator is customized when its subcells are finished.  Every  *)
(* thread has a workspace that survives from node to node and from task to *)
(* task and that is never cleaned.                                         *)
(***************************************************************************)
EXTENDS CCHWeights, Sequences

CONSTANTS
    Threads,  \* the threads of the pool
    Cells,    \* the separator tree: maps each cell to its first node (offset),
              \* its size (num_nodes) and the sequence of its subcells (sub)
    Root,     \* the whole graph
    Small     \* n / (32 * num_threads): smaller cells are not split

Cell == DOMAIN Cells

VARIABLES
    metric, up, down, upVia, downVia, customized,  \* as in CCHCustomization
    state,     \* progress of the call of customize_tree for each cell
    nextSub,   \* for each cell, the next subcell in the loop over children
    current,   \* for each cell, the node its customization has come to
    stack,     \* the calls of customize_tree nested on each thread
    loaded,    \* whether a thread has put its current node in its workspace
    todo,      \* lower neighbors whose triangles a thread has yet to relax
    wsUp,      \* UPWARD_WORKSPACE of each thread: weight and unpacking by head
    wsDown     \* DOWNWARD_WORKSPACE

weightVars == <<metric, up, down, upVia, downVia, customized>>
treeVars == <<state, nextSub, current, stack>>
workVars == <<loaded, todo, wsUp, wsDown>>
vars == <<weightVars, treeVars, workVars>>

Empty == [weight |-> Inf, via |-> None]

Init ==
    /\ metric \in Metrics
    /\ up = RespectUp(metric) /\ down = RespectDown(metric)
    /\ upVia = [e \in Edges |-> None] /\ downVia = [e \in Edges |-> None]
    /\ customized = {}
    /\ state = [c \in Cell |-> IF c = Root THEN "spawned" ELSE "idle"]
    /\ nextSub = [c \in Cell |-> 1]
    /\ current = [c \in Cell |-> Cells[c].first]
    /\ stack = [t \in Threads |-> <<>>]
    /\ loaded = [t \in Threads |-> FALSE]
    /\ todo = [t \in Threads |-> {}]
    /\ wsUp = [t \in Threads |-> [v \in Nodes |-> Empty]]
    /\ wsDown = [t \in Threads |-> [v \in Nodes |-> Empty]]

Subs(c) == {Cells[c].sub[i] : i \in DOMAIN Cells[c].sub}

End(c) == Cells[c].first + Cells[c].size

IsSmall(c) == Cells[c].size < Small

Busy(t) == stack[t] # <<>>

(* The cell of the innermost call on a thread.                             *)
Top(t) == Head(stack[t])

(* The call has left the loop over children and is at the end of the scope.*)
InScopeEnd(c) == state[c] = "splitting" /\ nextSub[c] > Len(Cells[c].sub)

-----------------------------------------------------------------------------
(* The tree: customize_tree                                                *)

(* A call starts: a small cell is customized as a whole, a large one split.*)
Entered(c) == IF IsSmall(c) THEN "running" ELSE "splitting"

(* Mutation of Take: threads that wait at the end of a scope do not help.  *)
TakeOnlyIdle(t) ==
    /\ ~Busy(t)
    /\ \E c \in Cell :
           /\ state[c] = "spawned"
           /\ state' = [state EXCEPT ![c] = Entered(c)]
           /\ stack' = [stack EXCEPT ![t] = <<c>> \o @]
    /\ UNCHANGED <<nextSub, current, workVars, weightVars>>

(* rayon hands a spawned task to a thread that is idle or that waits for   *)
(* the tasks of its scope.                                                 *)
Take(t) ==
    /\ Busy(t) => InScopeEnd(Top(t))
    /\ \E c \in Cell :
           /\ state[c] = "spawned"
           /\ state' = [state EXCEPT ![c] = Entered(c)]
           /\ stack' = [stack EXCEPT ![t] = <<c>> \o @]
    /\ UNCHANGED <<nextSub, current, workVars, weightVars>>

(* One round of the loop over the children: a small child is customized by *)
(* the thread itself before the loop goes on, a large one becomes a task.  *)
SpawnOrCall(t) ==
    /\ Busy(t) /\ state[Top(t)] = "splitting" /\ ~InScopeEnd(Top(t))
    /\ LET c == Top(t)
           sub == Cells[c].sub[nextSub[c]]
       IN  /\ nextSub' = [nextSub EXCEPT ![c] = @ + 1]
           /\ \/ /\ IsSmall(sub)
                 /\ state' = [state EXCEPT ![sub] = "running"]
                 /\ stack' = [stack EXCEPT ![t] = <<sub>> \o @]
              \/ /\ ~IsSmall(sub)
                 /\ state' = [state EXCEPT ![sub] = "spawned"]
                 /\ UNCHANGED stack
    /\ UNCHANGED <<current, workVars, weightVars>>

(* The first node of the separator: the offset after the loop.             *)
SeparatorStart(c) == IF Cells[c].sub = <<>> THEN Cells[c].first ELSE End(Cells[c].sub[Len(Cells[c].sub)])

(* Mutation of JoinScope: the separator does not wait for the subcells.    *)
JoinWithoutWaiting(t) ==
    /\ Busy(t) /\ InScopeEnd(Top(t))
    /\ state' = [state EXCEPT ![Top(t)] = "running"]
    /\ current' = [current EXCEPT ![Top(t)] = SeparatorStart(Top(t))]
    /\ UNCHANGED <<nextSub, stack, workVars, weightVars>>

(* The scope ends when all subcells are done; then comes the separator.    *)
JoinScope(t) ==
    /\ Busy(t) /\ InScopeEnd(Top(t))
    /\ \A sub \in Subs(Top(t)) : state[sub] = "done"
    /\ state' = [state EXCEPT ![Top(t)] = "running"]
    /\ current' = [current EXCEPT ![Top(t)] = SeparatorStart(Top(t))]
    /\ UNCHANGED <<nextSub, stack, workVars, weightVars>>

(* The call for the cell returns.                                          *)
Return(t) ==
    /\ Busy(t) /\ state[Top(t)] = "running" /\ current[Top(t)] = End(Top(t))
    /\ state' = [state EXCEPT ![Top(t)] = "done"]
    /\ stack' = [stack EXCEPT ![t] = Tail(@)]
    /\ UNCHANGED <<nextSub, current, workVars, weightVars>>

-----------------------------------------------------------------------------
(* One node: the body of the loop in the closure customize                 *)

(* The node that a thread customizes now.                                  *)
Node(t) == current[Top(t)]

Running(t) == Busy(t) /\ state[Top(t)] = "running" /\ current[Top(t)] < End(Top(t))

(* Mutation of Load: entries that are better already are kept.             *)
LoadKeepingBetter(t) ==
    LET x == Node(t)
    IN  /\ Running(t) /\ ~loaded[t]
        /\ wsUp' = [wsUp EXCEPT ![t] = [v \in Nodes |->
                       IF v \in Graph[x] /\ up[<<x, v>>] < @[v].weight
                       THEN [weight |-> up[<<x, v>>], via |-> None] ELSE @[v]]]
        /\ wsDown' = [wsDown EXCEPT ![t] = [v \in Nodes |->
                         IF v \in Graph[x] THEN [weight |-> down[<<x, v>>], via |-> None] ELSE @[v]]]
        /\ todo' = [todo EXCEPT ![t] = Below(x)]
        /\ loaded' = [loaded EXCEPT ![t] = TRUE]
        /\ UNCHANGED <<treeVars, weightVars>>

(* The weights of the edges of the node go to the workspace.  Entries of   *)
(* other nodes keep what they held for an earlier node.                    *)
Load(t) ==
    LET x == Node(t)
    IN  /\ Running(t) /\ ~loaded[t]
        /\ wsUp' = [wsUp EXCEPT ![t] = [v \in Nodes |->
                       IF v \in Graph[x] THEN [weight |-> up[<<x, v>>], via |-> None] ELSE @[v]]]
        /\ wsDown' = [wsDown EXCEPT ![t] = [v \in Nodes |->
                         IF v \in Graph[x] THEN [weight |-> down[<<x, v>>], via |-> None] ELSE @[v]]]
        /\ todo' = [todo EXCEPT ![t] = Below(x)]
        /\ loaded' = [loaded EXCEPT ![t] = TRUE]
        /\ UNCHANGED <<treeVars, weightVars>>

(* A strictly lower weight replaces the entry.                             *)
Relaxed(entry, weight, z) == IF weight < entry.weight THEN [weight |-> weight, via |-> z] ELSE entry

(* The triangles over the lowest node not yet relaxed, for all its upward  *)
(* neighbors above the node, whether the node has an edge to them or not.  *)
Relax(t) ==
    /\ Running(t) /\ loaded[t] /\ todo[t] # {}
    /\ LET x == Node(t)
           z == Lowest(todo[t])
           heads == {v \in Graph[z] : v > x}
       IN  /\ wsUp' = [wsUp EXCEPT ![t] = [v \in Nodes |->
                          IF v \in heads THEN Relaxed(@[v], down[<<z, x>>] + up[<<z, v>>], z) ELSE @[v]]]
           /\ wsDown' = [wsDown EXCEPT ![t] = [v \in Nodes |->
                            IF v \in heads THEN Relaxed(@[v], down[<<z, v>>] + up[<<z, x>>], z) ELSE @[v]]]
           /\ todo' = [todo EXCEPT ![t] = @ \ {z}]
    /\ UNCHANGED <<loaded, treeVars, weightVars>>

(* The entries of the upward neighbors are copied back to the edges.       *)
Store(t) ==
    /\ Running(t) /\ loaded[t] /\ todo[t] = {}
    /\ LET x == Node(t)
       IN  /\ up' = [e \in Edges |-> IF e[1] = x THEN wsUp[t][e[2]].weight ELSE up[e]]
           /\ down' = [e \in Edges |-> IF e[1] = x THEN wsDown[t][e[2]].weight ELSE down[e]]
           /\ upVia' = [e \in Edges |-> IF e[1] = x THEN wsUp[t][e[2]].via ELSE upVia[e]]
           /\ downVia' = [e \in Edges |-> IF e[1] = x THEN wsDown[t][e[2]].via ELSE downVia[e]]
           /\ customized' = customized \cup {x}
           /\ current' = [current EXCEPT ![Top(t)] = x + 1]
    /\ loaded' = [loaded EXCEPT ![t] = FALSE]
    /\ UNCHANGED <<metric, state, nextSub, stack, todo, wsUp, wsDown>>

-----------------------------------------------------------------------------
Step(t) ==
    \/ Take(t) \/ SpawnOrCall(t) \/ JoinScope(t) \/ Return(t)
    \/ Load(t) \/ Relax(t) \/ Store(t)

Next == \E t \in Threads : Step(t)

Spec == Init /\ [][Next]_vars /\ \A t \in Threads : WF_vars(Step(t))

-----------------------------------------------------------------------------
(* However the tasks are distributed and interleaved, the edges are those  *)
(* of customization node by node with lower neighbors first: neither a     *)
(* stale workspace entry nor an unfinished lower edge finds its way into a *)
(* weight or into the unpacking information.                               *)
Sequential == INSTANCE CCHCustomization

ImplementsCustomization == Sequential!Spec

(* Mutation of SliceStart: the rest that is left after the loop is passed. *)
SliceOfSeparator(c) == SeparatorStart(c)

(* The first node whose edges are in the slice passed for a cell; the code *)
(* subtracts it (edge_offset) from edge ids, which must not underflow.     *)
SliceStart(c) == Cells[c].first

(* All edges that are read for a node, its own and those of its lower      *)
(* neighbors, lie in the slice of the cell that is customized.             *)
SlicesSuffice ==
    \A t \in Threads : loaded[t] => todo[t] \cup {Node(t)} \subseteq SliceStart(Top(t)) .. End(Top(t)) - 1

(* No thread writes the edges of a node that another thread reads or       *)
(* writes at the same time.                                                *)
NoConcurrentAccess ==
    \A t, u \in Threads :
        t # u /\ loaded[t] /\ loaded[u] => Node(u) \notin Below(Node(t)) \cup {Node(t)}
=============================================================================

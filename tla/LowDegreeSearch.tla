-------------------------- MODULE LowDegreeSearch ---------------------------
(***************************************************************************)
(* Dijkstra's algorithm that passes nodes of low degree without queueing   *)
(* them, engine/src/algo/dijkstra/gen_topo_dijkstra.rs, and without passing*)
(* any, engine/src/algo/dijkstra/generic_dijkstra.rs.  A run is a record:  *)
(*   dist, pred  distances and predecessors                                *)
(*   queue       the keys of the queued nodes                              *)
(*   arcs        arcs of the settled node that are left to relax           *)
(*   chain       the arc that is relaxed next, or None                     *)
(*   branch      deg_three: the second arc out of a passed node, or None   *)
(*   branched    had_deg_three                                             *)
(***************************************************************************)
EXTENDS SearchGraph

CONSTANTS
    Instances  \* networks with a core, see below

(* A network, its lower bounds for potentials, its core (biggest_bcc), and *)
(* the degree of its nodes: symmetric_degree counts arcs in both directions*)
(* once, but parallel arcs, and arcs from and to nodes that are left out   *)
(* here, as well.                                                          *)
ASSUME InstancesAssumption ==
    \A i \in Instances :
        /\ DOMAIN i.arcs \subseteq Nodes \X Nodes /\ DOMAIN i.lower = DOMAIN i.arcs
        /\ \A a \in DOMAIN i.arcs : 0 <= i.lower[a] /\ i.lower[a] <= i.arcs[a] /\ i.arcs[a] < Inf
        /\ \A x \in Nodes : i.degree[x] >= Cardinality(Neighbors(i.arcs, x))

(* The nodes that are not queued when a search arrives: skip holds         *)
(* SKIP_DEG_2 and SKIP_DEG_3 if they are set.                              *)
Passed(degree, skip) ==
    [chains |-> {x \in Nodes : "deg2" \in skip /\ degree[x] <= 2},
     branches |-> {x \in Nodes : "deg3" \in skip /\ degree[x] = 3}]

(* initialize and add_start_node                                           *)
Started(s) ==
    [dist |-> [x \in Nodes |-> IF x = s THEN 0 ELSE Inf],
     pred |-> [x \in Nodes |-> IF x = s THEN s ELSE None],
     queue |-> [x \in {s} |-> 0],
     arcs |-> {}, chain |-> None, branch |-> None, branched |-> FALSE]

(* reinit_queue                                                            *)
Continued(run, x) == [run EXCEPT !.queue = [y \in {x} |-> run.dist[x]]]

(* The key that peek shows, Inf if there is none.                          *)
Peek(run) == Min({run.queue[x] : x \in DOMAIN run.queue} \cup {Inf})

(* pop: equal keys leave in the order of their nodes.                      *)
Least(run) == Min({x \in DOMAIN run.queue : run.queue[x] = Peek(run)})

Popped(run, network) ==
    [run EXCEPT !.queue = [y \in DOMAIN run.queue \ {Least(run)} |-> run.queue[y]],
                !.arcs = Leaving(network, Least(run))]

Busy(run) == run.arcs # {} \/ run.chain # None

(* The next arc of the settled node.                                       *)
Opened(run, a) ==
    [run EXCEPT !.arcs = @ \ {a}, !.chain = a, !.branch = None, !.branched = FALSE]

LinkDist(run, network) == run.dist[run.chain[1]] + network[run.chain]

Improves(run, network) == LinkDist(run, network) < run.dist[run.chain[2]]

(* The while loop goes on with the second arc once the first is through.   *)
Advanced(run, a) ==
    IF a # None THEN [run EXCEPT !.chain = a] ELSE [run EXCEPT !.chain = run.branch, !.branch = None]

Merged(run, network) ==
    [run EXCEPT !.dist[run.chain[2]] = LinkDist(run, network), !.pred[run.chain[2]] = run.chain[1]]

Onward(run, network) == {a \in Leaving(network, run.chain[2]) : a[2] # run.chain[1]}

(* What becomes of the arc that is relaxed.  met is the node for which the *)
(* improve_callback is called, and an endpoint is to be queued.            *)
NoImprovement(run) == [run |-> Advanced(run, None), met |-> None, endpoint |-> FALSE]

Chained(run, network) ==
    {[run |-> Advanced(Merged(run, network), a), met |-> None, endpoint |-> FALSE] :
        a \in IF Onward(run, network) = {} THEN {None} ELSE Onward(run, network)}

(* Mutation of Branched: the arc that is met last replaces the other.      *)
BranchedOnce(run, network) ==
    {[run |-> Advanced([Merged(run, network) EXCEPT !.branched = TRUE, !.branch = None], a), met |-> run.chain[2], endpoint |-> FALSE] :
        a \in IF Onward(run, network) = {} THEN {None} ELSE Onward(run, network)}

Branched(run, network) ==
    LET through == [Merged(run, network) EXCEPT !.branched = TRUE]
        outcome(a, b) == [run |-> Advanced([through EXCEPT !.branch = b], a), met |-> run.chain[2], endpoint |-> FALSE]
    IN  IF Cardinality(Onward(run, network)) <= 1
        THEN {outcome(a, None) : a \in Onward(run, network) \cup (IF Onward(run, network) = {} THEN {None} ELSE {})}
        ELSE {outcome(p[1], p[2]) : p \in {q \in Onward(run, network) \X Onward(run, network) : q[1] # q[2]}}

Reached(run, network) ==
    [run |-> Advanced(Merged(run, network), None), met |-> run.chain[2], endpoint |-> TRUE]

Relaxations(run, network, passed) ==
    LET x == run.chain[2]
    IN  CASE ~Improves(run, network) -> {NoImprovement(run)}
          [] Improves(run, network) /\ x \in passed.chains -> Chained(run, network)
          [] Improves(run, network) /\ x \in passed.branches /\ ~run.branched /\ x \notin DOMAIN run.queue ->
                Branched(run, network)
          [] OTHER -> {Reached(run, network)}

(* push or decrease_key, unless the potential is None.                     *)
Queued(run, x, potential) ==
    IF potential[x] = Inf
    THEN run
    ELSE [run EXCEPT !.queue = [y \in DOMAIN @ \cup {x} |-> IF y = x THEN run.dist[x] + potential[x] ELSE @[y]]]
=============================================================================

----------------------------- MODULE TopoQuery ------------------------------
(***************************************************************************)
(* A* over a network with a core, Server and SkipLowDegServer of engine/   *)
(* src/algo/ch_potentials/query.rs.  With BCC_CORE, the search runs in     *)
(* three parts that share their distances, while each empties the queue of *)
(* the one before: out of the dead end of the origin into the core,        *)
(* through the core, and into the dead end of the target.                  *)
(***************************************************************************)
EXTENDS LowDegreeSearch

CONSTANTS
    Variants,   \* [bcc, skip, cap]: BCC_CORE, the SKIP flags, and the cap
    Potentials  \* "exact": of the network itself; "lower": of its lower bounds

VARIABLES
    instance, variant,  \* what is searched by which code
    query,      \* from and to
    potential,  \* of each node to the target, Inf for None
    part,       \* the part of the search
    run,        \* dijkstra_data
    settled,    \* the node that is settled, or None
    over,       \* the while loop of this part has been left
    answer      \* the distance, Inf for None; None before the end

fixed == <<instance, variant, query, potential>>
vars == <<fixed, part, run, settled, over, answer>>

from == query[1]
to == query[2]

IntoCore == IF variant.bcc THEN Bridge(instance.arcs, instance.core, from) ELSE from
OutOfCore == IF variant.bcc THEN Bridge(instance.arcs, instance.core, to) ELSE to

(* The graph of the search: without BCC_CORE all of it is the core.        *)
Network ==
    CASE ~variant.bcc -> instance.arcs
      [] variant.bcc /\ part = "core" -> CoreNetwork(instance.arcs, instance.core)
      [] OTHER -> CompNetwork(instance.arcs, instance.core)

Init ==
    /\ instance \in Instances /\ variant \in Variants
    /\ query \in Nodes \X Nodes
    /\ \E p \in Potentials :
          potential = DistancesTo(IF p = "exact" THEN instance.arcs ELSE instance.lower, to)
    /\ part = IF variant.bcc THEN "in" ELSE "core"
    /\ run = Started(from)
    /\ settled = None /\ over = FALSE
    /\ answer = IF from = to THEN 0 ELSE IF variant.bcc /\ potential[IntoCore] = Inf THEN Inf ELSE None

-----------------------------------------------------------------------------
Settle ==
    /\ answer = None /\ ~over /\ settled = None
    /\ settled' = Least(run)
    /\ run' = Popped(run, Network)
    /\ UNCHANGED <<fixed, part, over, answer>>

Open ==
    /\ run.chain = None
    /\ \E a \in run.arcs : run' = Opened(run, a)
    /\ UNCHANGED <<fixed, part, settled, over, answer>>

(* One round of the loop over a chain; the improve_callback is always true.*)
Relax ==
    /\ run.chain # None
    /\ \E outcome \in Relaxations(run, Network, Passed(instance.degree, variant.skip)) :
          run' = IF outcome.endpoint THEN Queued(outcome.run, outcome.met, potential) ELSE outcome.run
    /\ UNCHANGED <<fixed, part, settled, over, answer>>

(* Where the search of a part stops: no node that is left can be on a      *)
(* shorter way to its goal.                                                *)
Limit ==
    CASE part = "in" -> run.dist[IntoCore] + potential[IntoCore]
      [] part = "core" -> Min({run.dist[OutOfCore] + potential[OutOfCore], variant.cap + 1})
      [] part = "out" -> run.dist[to]

EndSettle ==
    /\ settled # None /\ ~Busy(run)
    /\ settled' = None
    /\ over' = (Peek(run) = Inf \/ Peek(run) >= Limit)
    /\ UNCHANGED <<fixed, part, run, answer>>

(* continue_query for the next part; the queue starts from one node.       *)
ContinueAt(next, x) ==
    /\ part' = next /\ run' = Continued(run, x) /\ over' = FALSE
    /\ UNCHANGED <<fixed, settled, answer>>

AnswerWith(dist) ==
    /\ answer' = dist
    /\ UNCHANGED <<fixed, part, run, settled, over>>

(* Nothing is searched in the core if it cannot lead to the target.        *)
EnterCore ==
    /\ over /\ answer = None /\ part = "in"
    /\ CASE run.dist[IntoCore] >= Inf -> AnswerWith(Inf)
         [] run.dist[IntoCore] < Inf /\ potential[OutOfCore] = Inf -> ContinueAt("out", from)
         [] OTHER -> ContinueAt("core", IntoCore)

LeaveCore ==
    /\ over /\ answer = None /\ part = "core"
    /\ IF variant.bcc
       THEN ContinueAt("out", IF run.dist[OutOfCore] < Inf THEN OutOfCore ELSE from)
       ELSE AnswerWith(run.dist[to])

Arrive ==
    /\ over /\ answer = None /\ part = "out"
    /\ AnswerWith(run.dist[to])

Done == answer # None /\ UNCHANGED vars

Next == Settle \/ Open \/ Relax \/ EndSettle \/ EnterCore \/ LeaveCore \/ Arrive \/ Done

Spec == Init /\ [][Next]_vars /\ WF_vars(Next)

-----------------------------------------------------------------------------
Distance == DistancesTo(instance.arcs, to)[from]

NodePath == LET back == Follow(run.pred, to, from) IN [i \in 1 .. Len(back) |-> back[Len(back) + 1 - i]]

(* The way into the dead end of the target starts where the search has not *)
(* been in a dead end before: the parts do not need each other's queue.    *)
PartsAreApart ==
    variant.bcc => /\ Cardinality(instance.core) > 2
                   /\ from # OutOfCore
                   /\ from \notin DeadEnd(instance.arcs, instance.core, to)

(* Whatever an answer is, it is the length of a path, and this path is     *)
(* reported.  It is the distance if the distance is within the cap and the *)
(* parts of the search are apart: neither the nodes that are passed without*)
(* being queued nor the potentials hide a shorter path.                    *)
AnswersAreDistances ==
    answer # None =>
        /\ answer >= Distance
        /\ answer < Inf /\ from # to => /\ IsPath(instance.arcs, NodePath, from, to)
                                        /\ PathLength(instance.arcs, NodePath) = answer
        /\ Distance <= variant.cap /\ PartsAreApart => answer = Distance

(* mod.rs: a query server calculates the shortest distance from a given    *)
(* source to a given target, wherever these are.                           *)
EveryAnswerIsShortest == answer # None => answer = Distance
=============================================================================

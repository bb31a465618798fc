------------------------ MODULE BidirectionalSearch -------------------------
(***************************************************************************)
(* Two searches that run towards each other in turns:                      *)
(*   - Server of engine/src/algo/dijkstra/query/bidirectional_dijkstra.rs, *)
(*   - BiDirSkipLowDegRunner of engine/src/algo/ch_potentials/query.rs,    *)
(*     which passes nodes of low degree, for BiDirCoreServer on the core   *)
(*     and for BiDirServer on a network without the arcs into dead ends.   *)
(* A behavior is one query on one network.                                 *)
(***************************************************************************)
EXTENDS LowDegreeSearch

CONSTANTS
    Variants    \* [potential, improved, chooser, on, cap, potCap]: on the
                \* "whole" network, on its "core", or "inwards"; up to
                \* maximum_distance, and pot_cap or 2 * Inf

VARIABLES
    instance, variant,  \* what is searched, by which code
    query,      \* from and to
    pot,        \* the potential after init
    runs,       \* the searches of both sides
    prev,       \* AlternatingDirs.prev
    turn,       \* the side whose search settles a node, or None
    settled,    \* the node it settles
    bound,      \* stop_dist of this turn, for the core runner
    tentative,  \* tentative_distance
    meeting,    \* meeting_node
    answer      \* the distance, Inf for None; None before the end

fixed == <<instance, variant, query, pot>>
vars == <<fixed, runs, prev, turn, settled, bound, tentative, meeting, answer>>

LowDegree == variant.on # "whole"

Network(side) ==
    LET arcs == IF side = "fw" THEN instance.arcs ELSE Reversed(instance.arcs)
    IN  CASE variant.on = "whole" -> arcs
          [] variant.on = "core" -> CoreNetwork(arcs, instance.core)
          [] variant.on = "inwards" -> InwardNetwork(arcs, instance.core)

Keys == [side \in Sides |-> Peek(runs[side])]

StopDist == Min({tentative, variant.cap})

Init ==
    /\ instance \in Instances /\ variant \in Variants
    /\ query \in Nodes \X Nodes
    /\ variant.on = "core" => query \in instance.core \X instance.core
    /\ pot = Potential(variant.potential, variant.improved, instance.lower, query[1], query[2])
    /\ runs = [fw |-> Started(query[1]), bw |-> Started(query[2])]
    /\ prev = FALSE
    /\ turn = None /\ settled = None /\ bound = Inf
    /\ tentative = Inf /\ meeting = query[1]
    /\ answer = None

-----------------------------------------------------------------------------
(* Mutation of Chosen: the keys are compared as options, None < Some.      *)
ChosenAsOptions(alternated) ==
    IF IF variant.chooser = "alternating" THEN alternated ELSE Keys["fw"] = Inf \/ (Keys["bw"] < Inf /\ Keys["fw"] <= Keys["bw"])
    THEN "fw"
    ELSE "bw"

(* BidirChooseDir: ChooseMinKeyDir and AlternatingDirs.                    *)
Chosen(alternated) ==
    CASE Keys["fw"] = Inf /\ Keys["bw"] # Inf -> "bw"
      [] Keys["bw"] = Inf -> "fw"
      [] OTHER -> IF IF variant.chooser = "alternating" THEN alternated ELSE Keys["fw"] <= Keys["bw"]
                  THEN "fw"
                  ELSE "bw"

MayStop == variant.chooser = "alternating" => ~prev

StopCriterion == MayStop /\ Stops(pot, Keys, StopDist)

Deciding == answer = None /\ turn = None

(* The head of the while loop, and the pop of the search it chooses; with  *)
(* an empty queue nothing happens.                                         *)
Settle ==
    /\ Deciding /\ ~StopCriterion
    /\ LET alternated == ~prev
           side == Chosen(alternated)
       IN  /\ prev' = alternated
           /\ bound' = StopDist
           /\ IF Keys[side] = Inf
              THEN UNCHANGED <<runs, turn, settled>>
              ELSE /\ turn' = side
                   /\ settled' = Least(runs[side])
                   /\ runs' = [runs EXCEPT ![side] = Popped(@, Network(side))]
    /\ UNCHANGED <<fixed, tentative, meeting, answer>>

(* The next arc of the settled node.                                       *)
Open ==
    /\ turn # None
    /\ runs[turn].chain = None
    /\ \E a \in runs[turn].arcs : runs' = [runs EXCEPT ![turn] = Opened(@, a)]
    /\ UNCHANGED <<fixed, prev, turn, settled, bound, tentative, meeting, answer>>

(* The improve_callback returns false: the node keeps its distance but is  *)
(* not queued.                                                             *)
Refuses(side, x, dist) ==
    \/ pot.raw["fw"][x] + pot.raw["bw"][x] > variant.potCap
    \/ Prunes(pot, side, x, dist, Keys[Other(side)], IF LowDegree THEN bound ELSE StopDist)

(* One round of the loop over a chain, for a side.                         *)
RelaxOn(side, passed) ==
    \E outcome \in Relaxations(runs[side], Network(side), passed) :
        LET x == outcome.met
            dist == outcome.run.dist[x]
            refused == x # None /\ Refuses(side, x, dist)
            through == dist + runs[Other(side)].dist[x]
            meets == x # None /\ ~refused /\ through < tentative
            queues == outcome.endpoint /\ ~refused
        IN  /\ runs' = [runs EXCEPT ![side] =
                           IF queues THEN Queued(outcome.run, x, pot.key[side]) ELSE outcome.run]
            /\ tentative' = IF meets THEN through ELSE tentative
            /\ meeting' = IF meets THEN x ELSE meeting

Relax ==
    /\ turn # None
    /\ runs[turn].chain # None
    /\ RelaxOn(turn, Passed(instance.degree, IF LowDegree THEN {"deg2", "deg3"} ELSE {}))
    /\ UNCHANGED <<fixed, prev, turn, settled, bound, answer>>

Goal(side) == IF side = "fw" THEN query[2] ELSE query[1]

(* A search that settles its goal answers at once.                         *)
EndTurn ==
    /\ turn # None
    /\ ~Busy(runs[turn])
    /\ turn' = None /\ settled' = None
    /\ IF settled = Goal(turn)
       THEN answer' = runs[turn].dist[settled] /\ meeting' = settled
       ELSE UNCHANGED <<answer, meeting>>
    /\ UNCHANGED <<fixed, runs, prev, bound, tentative>>

(* The end of the while loop.  Passed nodes have not met the other search: *)
(* the core runner looks whether a search has come to its goal.            *)
Stop ==
    /\ Deciding /\ StopCriterion
    /\ LET fwDist == IF LowDegree THEN runs["fw"].dist[query[2]] ELSE Inf
           bwDist == IF LowDegree THEN runs["bw"].dist[query[1]] ELSE Inf
           best == Min({tentative, fwDist, bwDist})
       IN  /\ answer' = best
           /\ meeting' = CASE best = tentative -> meeting
                           [] best < tentative /\ best = fwDist -> query[2]
                           [] OTHER -> query[1]
    /\ UNCHANGED <<fixed, runs, prev, turn, settled, bound, tentative>>

Done == answer # None /\ UNCHANGED vars

Next == Settle \/ Open \/ Relax \/ EndTurn \/ Stop \/ Done

Spec == Init /\ [][Next]_vars /\ WF_vars(Next)

-----------------------------------------------------------------------------
Distance == DistancesTo(instance.arcs, query[2])[query[1]]

(* node_path: predecessors of the forward search from the meeting node back*)
(* to the origin, then those of the backward search to the target.         *)
NodePath ==
    LET there == Follow(runs["fw"].pred, meeting, query[1])
        back == Follow(runs["bw"].pred, meeting, query[2])
    IN  [i \in 1 .. Len(there) |-> there[Len(there) + 1 - i]] \o Tail(back)

(* The exception: the searches of BiDirServer do not leave the core, so    *)
(* that they have to meet if a goal is in a dead end.  If one queue runs   *)
(* empty before, the loop ends, although the other search has queued a     *)
(* node of a shortest path.                                                *)
StoppedWithPartner ==
    /\ variant.on = "inwards"
    /\ \E side \in Sides :
           /\ Keys[side] = Inf /\ Goal(side) \notin instance.core
           /\ \E x \in DOMAIN runs[Other(side)].queue :
                  LET ahead == IF side = "fw" THEN Distances(instance.arcs, query[1]) ELSE DistancesTo(instance.arcs, query[2])
                  IN  runs[Other(side)].dist[x] + ahead[x] = Distance

(* Asked for a distance below the cap, the servers answer with it, up to   *)
(* the exception above; any other answer is longer, or None.  What they    *)
(* report is a path of the network that is not longer than the answer.     *)
(* Potentials, pruning and the choice of a direction only save work.       *)
AnswersAreShortest ==
    answer # None =>
        /\ Distance < variant.cap /\ Distance <= variant.potCap => answer = Distance \/ StoppedWithPartner
        /\ answer >= Distance
        /\ answer < Inf => /\ IsPath(instance.arcs, NodePath, query[1], query[2])
                           /\ PathLength(instance.arcs, NodePath) <= answer
=============================================================================

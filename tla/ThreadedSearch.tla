--------------------------- MODULE ThreadedSearch ---------------------------
(***************************************************************************)
(* MultiThreadedBiDirSkipLowDegServer of engine/src/algo/ch_potentials/    *)
(* query.rs: the search of each side runs in a thread of its own.  They    *)
(* share the distances of both (AtomicDists), the progress of both (the    *)
(* least key of a queue) and the best distance found, all of them atomics  *)
(* that are accessed with relaxed ordering: what a thread writes reaches   *)
(* the other one some time later.                                          *)
(***************************************************************************)
EXTENDS LowDegreeSearch, SequencesExt

CONSTANTS
    Variants    \* [potential, improved, memory, cap, potCap]: P, how writes
                \* become visible to the other thread ("sequential": at once;
                \* "buffered": in their order, at the latest when the thread
                \* does a read-modify-write (x86); "relaxed": any time), and
                \* cap, and pot_cap or 2 * Inf

VARIABLES
    instance, variant, query, pot,    \* as in BidirectionalSearch
    runs,       \* the searches of both threads, with their own distances
    pc,         \* where a thread is: at the head of its loop, settling, ...
    settled,    \* the node a thread settles
    met,        \* the node of its improve_callback, with its distance
    writes,     \* what a thread has written and the other cannot see yet
    seen,       \* what the other thread can see of a thread's distances
    progress,   \* fw_progress and bw_progress
    tentative,  \* tentative_distance
    best,       \* fw_tentative_distance and bw_tentative_distance
    meeting,    \* meeting_node of each thread, or None
    answer      \* the distance, Inf for None; None before the join

fixed == <<instance, variant, query, pot>>
shared == <<seen, progress, tentative>>
vars == <<fixed, runs, pc, settled, met, writes, shared, best, meeting, answer>>

Network(side) == CoreNetwork(IF side = "fw" THEN instance.arcs ELSE Reversed(instance.arcs), instance.core)

Goal(side) == IF side = "fw" THEN query[2] ELSE query[1]

StopDist(side) == Min({best[side], variant.cap})

Start == [fw |-> Started(query[1]), bw |-> Started(query[2])]

Init ==
    /\ instance \in Instances /\ variant \in Variants
    /\ query \in instance.core \X instance.core
    /\ pot = Potential(variant.potential, variant.improved, instance.lower, query[1], query[2])
    /\ runs = Start
    /\ pc = [side \in Sides |-> "loop"]
    /\ settled = [side \in Sides |-> None]
    /\ met = [side \in Sides |-> None]
    /\ writes = [side \in Sides |-> <<>>]
    /\ seen = [side \in Sides |-> Start[side].dist]
    /\ progress = [side \in Sides |-> 0]
    /\ tentative = Inf
    /\ best = [side \in Sides |-> Inf]
    /\ meeting = [side \in Sides |-> None]
    /\ answer = None

-----------------------------------------------------------------------------
(* A write that is not visible yet, to a distance or, at None, to the      *)
(* progress.                                                               *)
Write(side, at, value) == Append(writes[side], [at |-> at, value |-> value])

(* A write becomes visible; writes to the same place do so in their order. *)
Appear(side) ==
    \E i \in DOMAIN writes[side] :
        LET w == writes[side][i]
        IN  /\ variant.memory # "relaxed" => i = 1
            /\ \A j \in 1 .. i - 1 : writes[side][j].at # w.at
            /\ writes' = [writes EXCEPT ![side] = RemoveAt(@, i)]
            /\ IF w.at = None
               THEN progress' = [progress EXCEPT ![side] = w.value] /\ UNCHANGED seen
               ELSE seen' = [seen EXCEPT ![side][w.at] = w.value] /\ UNCHANGED progress
    /\ UNCHANGED <<fixed, runs, pc, settled, met, tentative, best, meeting, answer>>

(* Between what a thread writes and what it reads next.                    *)
Ordered(side) == variant.memory = "sequential" => writes[side] = <<>>

(* stop_forward and stop_backward: only the symmetric potential looks at no*)
(* more than the own queue.                                                *)
StopsSide(side) ==
    LET key == Peek(runs[side])
    IN  IF variant.potential = "symmetric"
        THEN KeyReaches(key, StopDist(side))
        ELSE key = Inf \/ key + progress[Other(side)] >= StopDist(side) + pot.muAdd

Settle(side) ==
    /\ pc[side] = "loop" /\ Ordered(side) /\ ~StopsSide(side)
    /\ pc' = [pc EXCEPT ![side] = "settling"]
    /\ settled' = [settled EXCEPT ![side] = Least(runs[side])]
    /\ runs' = [runs EXCEPT ![side] = Popped(@, Network(side))]
    /\ UNCHANGED <<fixed, met, writes, shared, best, meeting, answer>>

Open(side) ==
    /\ pc[side] = "settling" /\ runs[side].chain = None
    /\ \E a \in runs[side].arcs : runs' = [runs EXCEPT ![side] = Opened(@, a)]
    /\ UNCHANGED <<fixed, pc, settled, met, writes, shared, best, meeting, answer>>

(* SendTopoDijkstraRun: a shorter distance is stored before the callback.  *)
Relax(side) ==
    /\ pc[side] = "settling" /\ runs[side].chain # None
    /\ \E outcome \in Relaxations(runs[side], Network(side), Passed(instance.degree, {"deg2", "deg3"})) :
          LET x == runs[side].chain[2]
              stored == outcome.run.dist[x] # runs[side].dist[x]
          IN  /\ runs' = [runs EXCEPT ![side] = outcome.run]
              /\ writes' = IF stored THEN [writes EXCEPT ![side] = Write(side, x, outcome.run.dist[x])] ELSE writes
              /\ met' = [met EXCEPT ![side] =
                            IF outcome.met = None THEN None
                            ELSE [node |-> x, dist |-> outcome.run.dist[x], endpoint |-> outcome.endpoint]]
              /\ pc' = [pc EXCEPT ![side] = IF outcome.met = None THEN "settling" ELSE "pruning"]
    /\ UNCHANGED <<fixed, settled, shared, best, meeting, answer>>

(* The callback begins with the pruning rules, which read the progress.    *)
Prune(side) ==
    /\ pc[side] = "pruning" /\ Ordered(side)
    /\ LET x == met[side].node
           refused == \/ pot.raw["fw"][x] + pot.raw["bw"][x] > variant.potCap
                      \/ Prunes(pot, side, x, met[side].dist, progress[Other(side)], StopDist(side))
       IN  pc' = [pc EXCEPT ![side] = IF refused THEN "settling" ELSE "meeting"]
    /\ UNCHANGED <<fixed, runs, settled, met, writes, shared, best, meeting, answer>>

(* It goes on with the distance of the other search.                       *)
Look(side) ==
    /\ pc[side] = "meeting" /\ Ordered(side)
    /\ LET x == met[side].node
           through == met[side].dist + seen[Other(side)][x]
       IN  best' = [best EXCEPT ![side] = Min({@, through})]
    /\ pc' = [pc EXCEPT ![side] = "claiming"]
    /\ UNCHANGED <<fixed, runs, settled, met, writes, shared, meeting, answer>>

(* fetch_min; then the node is queued.                                     *)
Claim(side) ==
    /\ pc[side] = "claiming"
    /\ variant.memory # "relaxed" => writes[side] = <<>>
    /\ LET x == met[side].node
       IN  /\ tentative' = Min({tentative, best[side]})
           /\ meeting' = [meeting EXCEPT ![side] = IF tentative > best[side] THEN x ELSE @]
           /\ runs' = [runs EXCEPT ![side] =
                          IF met[side].endpoint THEN Queued(@, x, pot.key[side]) ELSE @]
    /\ pc' = [pc EXCEPT ![side] = "settling"]
    /\ UNCHANGED <<fixed, settled, met, writes, seen, progress, best, answer>>

(* The progress is published; a thread that has settled its goal is done   *)
(* and meets the other search there.                                       *)
EndSettle(side) ==
    /\ pc[side] = "settling" /\ ~Busy(runs[side])
    /\ LET atGoal == settled[side] = Goal(side)
           progresses == <<Peek(runs[side])>> \o IF atGoal THEN <<Inf>> ELSE <<>>
       IN  /\ writes' = [writes EXCEPT ![side] = @ \o [i \in DOMAIN progresses |-> [at |-> None, value |-> progresses[i]]]]
           /\ meeting' = IF atGoal THEN [meeting EXCEPT ![side] = Goal(side)] ELSE meeting
           /\ pc' = [pc EXCEPT ![side] = IF atGoal THEN "done" ELSE "loop"]
    /\ settled' = [settled EXCEPT ![side] = None]
    /\ met' = [met EXCEPT ![side] = None]
    /\ UNCHANGED <<fixed, runs, shared, best, answer>>

(* The end of the loop.                                                    *)
Stop(side) ==
    /\ pc[side] = "loop" /\ Ordered(side) /\ StopsSide(side)
    /\ pc' = [pc EXCEPT ![side] = "done"]
    /\ meeting' = [meeting EXCEPT ![side] =
                      IF @ = None /\ runs[side].dist[Goal(side)] < Inf THEN Goal(side) ELSE @]
    /\ UNCHANGED <<fixed, runs, settled, met, writes, shared, best, answer>>

(* After the join, the better of both meetings is taken.                   *)
Through(x) == IF x = None THEN Inf ELSE runs["fw"].dist[x] + runs["bw"].dist[x]

Join ==
    /\ answer = None /\ \A side \in Sides : pc[side] = "done"
    /\ answer' = Min({Through(meeting["fw"]), Through(meeting["bw"])})
    /\ UNCHANGED <<fixed, runs, pc, settled, met, writes, shared, best, meeting>>

Thread(side) ==
    \/ Settle(side) \/ Open(side) \/ Relax(side) \/ Prune(side)
    \/ Look(side) \/ Claim(side) \/ EndSettle(side) \/ Stop(side)

Done == answer # None /\ UNCHANGED vars

Next == Join \/ Done \/ \E side \in Sides : Thread(side) \/ Appear(side)

Spec == Init /\ [][Next]_vars /\ WF_vars(Join) /\ \A side \in Sides : WF_vars(Thread(side)) /\ WF_vars(Appear(side))

-----------------------------------------------------------------------------
Distance == DistancesTo(instance.arcs, query[2])[query[1]]

NodePath ==
    LET meetingNode == IF Through(meeting["fw"]) < Through(meeting["bw"]) THEN meeting["fw"] ELSE meeting["bw"]
        there == Follow(runs["fw"].pred, meetingNode, query[1])
        back == Follow(runs["bw"].pred, meetingNode, query[2])
    IN  Reverse(there) \o Tail(back)

(* However the threads overtake each other, and whenever what they write   *)
(* becomes visible in the memory model of the variant, the answer is the   *)
(* distance if that is within the caps, and never less; the path that is   *)
(* reported is not longer.  With pruning by the key of the other queue it  *)
(* is so if writes are visible at once (memory = "sequential").            *)
AnswersAreShortest ==
    answer # None =>
        /\ Distance < variant.cap /\ Distance <= variant.potCap => answer = Distance
        /\ answer >= Distance
        /\ answer < Inf => /\ IsPath(instance.arcs, NodePath, query[1], query[2])
                           /\ PathLength(instance.arcs, NodePath) <= answer
=============================================================================

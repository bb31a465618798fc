------------------------------ MODULE CCHQuery ------------------------------
(***************************************************************************)
(* The elimination tree query of                                           *)
(* engine/src/algo/customizable_contraction_hierarchy/query.rs and         *)
(* query/stepped_elimination_tree.rs.  A server keeps the distances and    *)
(* parents of all its queries in the same four arrays.  There is no reset  *)
(* at the start of a query: the walks to the root restore the distances    *)
(* behind them, and the parents are never cleaned.                         *)
(***************************************************************************)
EXTENDS CCHMetrics

CONSTANTS
    Updates,  \* the metrics that an update may bring, among Metrics
    Queries   \* origins and targets that are asked for

ASSUME QueriesAssumption == Updates \subseteq Metrics /\ Queries \subseteq Nodes \X Nodes

VARIABLES
    fw, bw,      \* fw_distances and bw_distances
    fwParent,    \* fw_parents: the parent of each node (its edge follows)
    bwParent,    \* bw_parents
    fwNext,      \* next node of the walk from the origin to the root, or None
    bwNext,      \* next node of the walk from the target
    best,        \* tentative_distance
    meeting,     \* meeting_node
    query,       \* origin and target
    phase,       \* what the server does
    node         \* where the reconstruction of the path has come to

walkVars == <<fw, bw, fwNext, bwNext, best, meeting>>
vars == <<customized, walkVars, fwParent, bwParent, query, phase, node>>

TypeOK ==
    /\ fw \in [Nodes -> Weight] /\ bw \in [Nodes -> Weight]
    /\ fwParent \in [Nodes -> Nodes \cup {N}] /\ bwParent \in [Nodes -> Nodes \cup {N}]
    /\ fwNext \in Nodes \cup {None} /\ bwNext \in Nodes \cup {None}
    /\ best \in Weight
    /\ meeting \in Nodes /\ node \in Nodes
    /\ query \in Nodes \X Nodes
    /\ phase \in {"idle", "walking", "answered", "flipping", "unpacking", "unpacked"}

Init ==
    /\ \E m \in Metrics : customized \in {Basic(m), Perfect(m)}
    /\ fw = [v \in Nodes |-> Inf] /\ bw = [v \in Nodes |-> Inf]
    /\ fwParent = [v \in Nodes |-> N] /\ bwParent = [v \in Nodes |-> N]
    /\ fwNext = None /\ bwNext = None
    /\ best = Inf /\ meeting = 0
    /\ query = <<0, 0>>
    /\ phase = "idle"
    /\ node = 0

-----------------------------------------------------------------------------
(* The caller.  A new query or metric ends the life of an earlier result,  *)
(* whose path can be asked for more than once until then.                  *)

Free == phase \in {"idle", "answered", "unpacked"}

(* Either kind of customization may be installed.                          *)
Customizations == UNION {{Basic(m), Perfect(m)} : m \in Updates}

(* Server::update                                                          *)
Update ==
    /\ Free
    /\ customized' \in Customizations
    /\ phase' = "idle"
    /\ UNCHANGED <<walkVars, fwParent, bwParent, query, node>>

(* Server::distance up to its loop, with query_with_resetted of both walks.*)
Query ==
    /\ Free
    /\ \E q \in Queries :
           /\ query' = q
           /\ fw' = [fw EXCEPT ![q[1]] = 0] /\ fwParent' = [fwParent EXCEPT ![q[1]] = q[1]]
           /\ bw' = [bw EXCEPT ![q[2]] = 0] /\ bwParent' = [bwParent EXCEPT ![q[2]] = q[2]]
           /\ fwNext' = q[1] /\ bwNext' = q[2]
    /\ best' = Inf /\ meeting' = 0
    /\ phase' = "walking"
    /\ UNCHANGED <<customized, node>>

-----------------------------------------------------------------------------
(* The walks                                                               *)

FwRelaxed == Relaxed(fw, customized.up, customized.fw, fwNext)

BwRelaxed == Relaxed(bw, customized.down, customized.bw, bwNext)

(* The forward walk is below the backward walk, or that has ended.         *)
ForwardStep ==
    /\ phase = "walking" /\ fwNext # None /\ (bwNext = None \/ fwNext < bwNext)
    /\ fw' = [FwRelaxed EXCEPT ![fwNext] = Inf]
    /\ fwParent' = Parents(fwParent, fw, FwRelaxed, fwNext)
    /\ fwNext' = Parent[fwNext]
    /\ UNCHANGED <<customized, bw, bwParent, bwNext, best, meeting, query, phase, node>>

BackwardStep ==
    /\ phase = "walking" /\ bwNext # None /\ (fwNext = None \/ bwNext < fwNext)
    /\ bw' = [BwRelaxed EXCEPT ![bwNext] = Inf]
    /\ bwParent' = Parents(bwParent, bw, BwRelaxed, bwNext)
    /\ bwNext' = Parent[bwNext]
    /\ UNCHANGED <<customized, fw, fwParent, fwNext, best, meeting, query, phase, node>>

(* Mutations of CommonStep: a walk that cannot improve is not only not     *)
(* relaxed but also not reset; a walk is relaxed only if both distances    *)
(* together can improve; of equal paths the one found last is taken.       *)
CommonStepResettingLate ==
    LET x == fwNext
        fwSettled == IF fw[x] < best THEN [FwRelaxed EXCEPT ![x] = Inf] ELSE fw
        bwSettled == IF bw[x] < best THEN [BwRelaxed EXCEPT ![x] = Inf] ELSE bw
    IN  /\ phase = "walking" /\ x # None /\ x = bwNext
        /\ fw' = fwSettled /\ bw' = bwSettled
        /\ fwParent' = Parents(fwParent, fw, fwSettled, x) /\ bwParent' = Parents(bwParent, bw, bwSettled, x)
        /\ best' = IF fw[x] + bw[x] < best THEN fw[x] + bw[x] ELSE best
        /\ meeting' = IF fw[x] + bw[x] < best THEN x ELSE meeting
        /\ fwNext' = Parent[x] /\ bwNext' = Parent[x]
        /\ UNCHANGED <<customized, query, phase, node>>

CommonStepPruningMore ==
    LET x == fwNext
        fwSettled == IF fw[x] + bw[x] < best THEN FwRelaxed ELSE fw
        bwSettled == IF fw[x] + bw[x] < best THEN BwRelaxed ELSE bw
    IN  /\ phase = "walking" /\ x # None /\ x = bwNext
        /\ fw' = [fwSettled EXCEPT ![x] = Inf] /\ bw' = [bwSettled EXCEPT ![x] = Inf]
        /\ fwParent' = Parents(fwParent, fw, fwSettled, x) /\ bwParent' = Parents(bwParent, bw, bwSettled, x)
        /\ best' = IF fw[x] + bw[x] < best THEN fw[x] + bw[x] ELSE best
        /\ meeting' = IF fw[x] + bw[x] < best THEN x ELSE meeting
        /\ fwNext' = Parent[x] /\ bwNext' = Parent[x]
        /\ UNCHANGED <<customized, query, phase, node>>

CommonStepTakingLast ==
    LET x == fwNext
        fwSettled == IF fw[x] <= best THEN FwRelaxed ELSE fw
        bwSettled == IF bw[x] <= best THEN BwRelaxed ELSE bw
    IN  /\ phase = "walking" /\ x # None /\ x = bwNext
        /\ fw' = [fwSettled EXCEPT ![x] = Inf] /\ bw' = [bwSettled EXCEPT ![x] = Inf]
        /\ fwParent' = Parents(fwParent, fw, fwSettled, x) /\ bwParent' = Parents(bwParent, bw, bwSettled, x)
        /\ best' = IF fw[x] + bw[x] <= best THEN fw[x] + bw[x] ELSE best
        /\ meeting' = IF fw[x] + bw[x] <= best THEN x ELSE meeting
        /\ fwNext' = Parent[x] /\ bwNext' = Parent[x]
        /\ UNCHANGED <<customized, query, phase, node>>

(* Both walks are at the same node: edges of a walk are relaxed only if it *)
(* is shorter than the best path so far; the node may be a better meeting. *)
CommonStep ==
    LET x == fwNext
        fwSettled == IF fw[x] < best THEN FwRelaxed ELSE fw
        bwSettled == IF bw[x] < best THEN BwRelaxed ELSE bw
    IN  /\ phase = "walking" /\ x # None /\ x = bwNext
        /\ fw' = [fwSettled EXCEPT ![x] = Inf] /\ bw' = [bwSettled EXCEPT ![x] = Inf]
        /\ fwParent' = Parents(fwParent, fw, fwSettled, x) /\ bwParent' = Parents(bwParent, bw, bwSettled, x)
        /\ best' = IF fw[x] + bw[x] < best THEN fw[x] + bw[x] ELSE best
        /\ meeting' = IF fw[x] + bw[x] < best THEN x ELSE meeting
        /\ fwNext' = Parent[x] /\ bwNext' = Parent[x]
        /\ UNCHANGED <<customized, query, phase, node>>

Answer ==
    /\ phase = "walking" /\ fwNext = None /\ bwNext = None
    /\ phase' = "answered"
    /\ UNCHANGED <<customized, walkVars, fwParent, bwParent, query, node>>

-----------------------------------------------------------------------------
(* The path                                                                *)

(* Server::path is called: QueryResult allows it if there is a distance.   *)
AskForPath ==
    /\ phase \in {"answered", "unpacked"} /\ best < Inf
    /\ node' = meeting
    /\ phase' = "flipping"
    /\ UNCHANGED <<customized, walkVars, fwParent, bwParent, query>>

(* The first loop of path: pointers from the meeting node to the origin    *)
(* are turned around; then unpack_path starts at the origin.               *)
Flip ==
    /\ phase = "flipping"
    /\ \/ /\ node # query[1]
          /\ bwParent' = [bwParent EXCEPT ![fwParent[node]] = node]
          /\ node' = fwParent[node]
          /\ UNCHANGED phase
       \/ /\ node = query[1]
          /\ phase' = "unpacking"
          /\ UNCHANGED <<bwParent, node>>
    /\ UNCHANGED <<customized, walkVars, fwParent, query>>

(* One round of the loop in unpack_path: either the edge is replaced by    *)
(* two edges or the loop goes on at the other end of the edge.             *)
Unpack ==
    /\ phase = "unpacking" /\ node # query[2]
    /\ LET next == bwParent[node]
           middle == Middle(customized, node, next)
       IN  \/ /\ middle # None
              /\ bwParent' = [bwParent EXCEPT ![node] = middle, ![middle] = next]
              /\ UNCHANGED node
           \/ /\ middle = None
              /\ node' = next
              /\ UNCHANGED bwParent
    /\ UNCHANGED <<customized, walkVars, fwParent, query, phase>>

FinishPath ==
    /\ phase = "unpacking" /\ node = query[2]
    /\ phase' = "unpacked"
    /\ UNCHANGED <<customized, walkVars, fwParent, bwParent, query, node>>

-----------------------------------------------------------------------------
Server == ForwardStep \/ BackwardStep \/ CommonStep \/ Answer \/ Flip \/ Unpack \/ FinishPath

Next == Update \/ Query \/ AskForPath \/ Server

Spec == Init /\ [][Next]_vars /\ WF_vars(Server)

-----------------------------------------------------------------------------
(* Between queries all distances are INFINITY, as the next query assumes;  *)
(* query_with_resetted asserts it in debug builds for the two tree paths.  *)
DistancesReset ==
    phase # "walking" => \A v \in Nodes : fw[v] = Inf /\ bw[v] = Inf

(* The answer is the distance in the metric of the last update, whatever   *)
(* was asked before.                                                       *)
AnswersAreDistances == phase = "answered" => best = customized.dist[query]

(* The parents lead from the origin to the target in less than N steps.    *)
Follow(parents, from) == LET at[k \in 0 .. N] == IF k = 0 THEN from ELSE parents[at[k - 1]] IN at

(* The path returned leads over arcs of the metric, and their weights add  *)
(* up to the distance.                                                     *)
PathsAreShortest ==
    phase = "unpacked" =>
        LET at == Follow(bwParent, query[1])
            arcs(k) == customized.metric[<<at[k], at[k + 1]>>]
            length[k \in 0 .. N] == IF k = 0 THEN 0 ELSE length[k - 1] + Lowest(arcs(k - 1))
        IN  \E k \in 0 .. N - 1 :
                /\ at[k] = query[2]
                /\ \A i \in 0 .. k - 1 : at[i] \in Nodes /\ at[i] # query[2] /\ arcs(i) # {}
                /\ length[k] = best

(* The reconstruction of a path ends, also on roads of weight 0.           *)
PathsEnd == phase = "flipping" ~> phase = "unpacked"
=============================================================================

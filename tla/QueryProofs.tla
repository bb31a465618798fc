----------------------------- MODULE QueryProofs ----------------------------
(***************************************************************************)
(* For every chordal graph, all metrics and any sequence of queries and    *)
(* updates: a query leaves no distance behind, it never reads one of an    *)
(* earlier query, and it answers the distance in the metric it was asked   *)
(* for.  The path it returns is a shortest one in that metric.  Potentials *)
(* that are computed when they are asked for are distances, and the paths  *)
(* that are unpacked with them are shortest ones.                          *)
(***************************************************************************)
EXTENDS CCHQuery, LazyPotential, CCHWeightsProofs, FiniteSetTheorems, SequenceTheorems, TLAPS

(* What a walk has not reset yet is at its next node or at the neighbors   *)
(* of that node.                                                           *)
Ahead(dist, next) ==
    /\ next \in Nodes \cup {None}
    /\ dist = [v \in Nodes |-> dist[v]]
    /\ \A v \in Nodes : dist[v] # Inf => next \in Nodes /\ (v = next \/ v \in Graph[next])

Inv ==
    /\ customized.fw \subseteq Edges /\ customized.bw \subseteq Edges
    /\ Ahead(fw, fwNext) /\ Ahead(bw, bwNext)
    /\ phase # "walking" => fwNext = None /\ bwNext = None

(* What is ahead of a node is ahead of its parent once the node is reset:  *)
(* the other neighbors of the node are neighbors of the lowest.            *)
LEMMA NeighborsStayAhead ==
    ASSUME NEW x \in Nodes, NEW dist,
           dist = [v \in Nodes |-> dist[v]],
           \A v \in Nodes : dist[v] # Inf => v \in Graph[x]
    PROVE  Ahead(dist, Parent[x])
<1>1. Graph[x] \subseteq Nodes
  BY GraphAssumption DEF Graphs
<1>2. CASE Graph[x] = {}
  <2>1. Parent[x] = None
    BY <1>2 DEF Parent, EliminationTree
  <2> QED
    BY <1>2, <2>1 DEF Ahead
<1>3. CASE Graph[x] # {}
  <2> DEFINE p == Lowest(Graph[x])
  <2>1. Parent[x] = p
    BY <1>3 DEF Parent, EliminationTree
  <2>2. Graph[x] \subseteq Int
    BY <1>1, NAssumption DEF Nodes
  <2>3. p \in Graph[x] /\ \A y \in Graph[x] : p <= y
    BY <1>1, <1>3, LowestIsLeast, NodesAreNat
  <2>4. \A v \in Graph[x] : v = p \/ v \in Graph[p]
    BY <2>2, <2>3, GraphAssumption DEF Chordal
  <2> QED
    BY <1>1, <2>1, <2>3, <2>4 DEF Ahead
<1> QED
  BY <1>2, <1>3

(* A walk that settles its next node, or skips it, and resets it.          *)
LEMMA StepKeepsAhead ==
    ASSUME NEW dist, NEW next, Ahead(dist, next), next # None,
           NEW weight, NEW edges, edges \subseteq Edges
    PROVE  /\ Ahead([Relaxed(dist, weight, edges, next) EXCEPT ![next] = Inf], Parent[next])
           /\ Ahead([dist EXCEPT ![next] = Inf], Parent[next])
<1>1. next \in Nodes
  BY DEF Ahead
<1>2. dist = [v \in Nodes |-> dist[v]]
  BY DEF Ahead
<1>3. \A v \in Nodes : v # next /\ dist[v] # Inf => v \in Graph[next]
  BY DEF Ahead
<1>4. Ahead([Relaxed(dist, weight, edges, next) EXCEPT ![next] = Inf], Parent[next])
  <2> DEFINE settled == [Relaxed(dist, weight, edges, next) EXCEPT ![next] = Inf]
  <2>1. settled = [v \in Nodes |-> settled[v]]
    BY DEF Relaxed
  <2>2. ASSUME NEW v \in Nodes, settled[v] # Inf PROVE v \in Graph[next]
    <3>1. v # next
      BY <2>2, <1>1 DEF Relaxed
    <3>2. CASE <<next, v>> \in edges
      BY <3>2 DEF Edges
    <3>3. CASE <<next, v>> \notin edges
      BY <3>1, <3>3, <2>2, <1>1, <1>3 DEF Relaxed
    <3> QED
      BY <3>2, <3>3
  <2> HIDE DEF settled
  <2>3. Ahead(settled, Parent[next])
    BY <1>1, <2>1, <2>2, NeighborsStayAhead
  <2> QED
    BY <2>3 DEF settled
<1>5. Ahead([dist EXCEPT ![next] = Inf], Parent[next])
  <2> DEFINE skipped == [dist EXCEPT ![next] = Inf]
  <2>1. skipped = [v \in Nodes |-> skipped[v]]
    BY <1>2
  <2>2. ASSUME NEW v \in Nodes, skipped[v] # Inf PROVE v \in Graph[next]
    BY <2>2, <1>1, <1>2, <1>3
  <2> HIDE DEF skipped
  <2>3. Ahead(skipped, Parent[next])
    BY <1>1, <2>1, <2>2, NeighborsStayAhead
  <2> QED
    BY <2>3 DEF skipped
<1> QED
  BY <1>4, <1>5

(* Both kinds of customization keep edges of the contracted graph only.    *)
LEMMA CustomizedEdges ==
    ASSUME NEW m, NEW c \in {Basic(m), Perfect(m)}
    PROVE  c.fw \subseteq Edges /\ c.bw \subseteq Edges
<1>1. Basic(m).fw = Edges /\ Basic(m).bw = Edges
  BY DEF Basic
<1>2. Perfect(m).fw \subseteq Edges /\ Perfect(m).bw \subseteq Edges
  BY DEF Perfect, Basic
<1> QED
  BY <1>1, <1>2

LEMMA InitInv == Init => Inv
<1> SUFFICES ASSUME Init PROVE Inv
  OBVIOUS
<1>1. customized.fw \subseteq Edges /\ customized.bw \subseteq Edges
  BY CustomizedEdges DEF Init
<1> QED
  BY <1>1 DEF Init, Inv, Ahead

LEMMA StepInv == Inv /\ [Next]_vars => Inv'
<1> SUFFICES ASSUME Inv, [Next]_vars PROVE Inv'
  OBVIOUS
<1> USE DEF Inv
<1>1. CASE Update
  <2>1. customized'.fw \subseteq Edges /\ customized'.bw \subseteq Edges
    BY <1>1, CustomizedEdges DEF Update, Customizations
  <2> QED
    BY <1>1, <2>1 DEF Update, Free, walkVars, Ahead
<1>2. CASE Query
  <2>1. fwNext = None /\ bwNext = None
    BY <1>2 DEF Query, Free
  <2>2. None \notin Nodes
    BY NAssumption DEF None, Nodes
  <2>3. PICK q \in Queries :
            /\ fw' = [fw EXCEPT ![q[1]] = 0] /\ bw' = [bw EXCEPT ![q[2]] = 0]
            /\ fwNext' = q[1] /\ bwNext' = q[2]
    BY <1>2 DEF Query
  <2>4. q[1] \in Nodes /\ q[2] \in Nodes
    BY QueriesAssumption
  <2>5. Ahead(fw, fwNext)'
    BY <2>1, <2>2, <2>3, <2>4 DEF Ahead
  <2>6. Ahead(bw, bwNext)'
    BY <2>1, <2>2, <2>3, <2>4 DEF Ahead
  <2> QED
    BY <1>2, <2>5, <2>6 DEF Query
<1>3. CASE ForwardStep
  <2>1. Ahead([FwRelaxed EXCEPT ![fwNext] = Inf], Parent[fwNext])
    BY <1>3, StepKeepsAhead DEF ForwardStep, FwRelaxed
  <2>2. Ahead(fw, fwNext)'
    BY <1>3, <2>1 DEF ForwardStep, Ahead
  <2> QED
    BY <1>3, <2>2 DEF ForwardStep, Ahead
<1>4. CASE BackwardStep
  <2>1. Ahead([BwRelaxed EXCEPT ![bwNext] = Inf], Parent[bwNext])
    BY <1>4, StepKeepsAhead DEF BackwardStep, BwRelaxed
  <2>2. Ahead(bw, bwNext)'
    BY <1>4, <2>1 DEF BackwardStep, Ahead
  <2> QED
    BY <1>4, <2>2 DEF BackwardStep, Ahead
<1>5. CASE CommonStep
  <2>1. Ahead([FwRelaxed EXCEPT ![fwNext] = Inf], Parent[fwNext]) /\ Ahead([fw EXCEPT ![fwNext] = Inf], Parent[fwNext])
    BY <1>5, StepKeepsAhead DEF CommonStep, FwRelaxed
  <2>2. Ahead([BwRelaxed EXCEPT ![bwNext] = Inf], Parent[bwNext]) /\ Ahead([bw EXCEPT ![bwNext] = Inf], Parent[bwNext])
    BY <1>5, StepKeepsAhead DEF CommonStep, BwRelaxed
  <2>3. Ahead(fw, fwNext)'
    BY <1>5, <2>1 DEF CommonStep, Ahead
  <2>4. Ahead(bw, bwNext)'
    BY <1>5, <2>2 DEF CommonStep, Ahead
  <2> QED
    BY <1>5, <2>3, <2>4 DEF CommonStep
<1>6. CASE Answer
  BY <1>6 DEF Answer, walkVars, Ahead
<1>7. CASE AskForPath \/ Flip \/ Unpack \/ FinishPath
  BY <1>7 DEF AskForPath, Flip, Unpack, FinishPath, walkVars, Ahead
<1>8. CASE UNCHANGED vars
  BY <1>8 DEF vars, walkVars, Ahead
<1> QED
  BY <1>1, <1>2, <1>3, <1>4, <1>5, <1>6, <1>7, <1>8 DEF Next, Server

(* Whatever the graph, the metrics, the queries and their order: between   *)
(* queries all distances of both walks are INFINITY.                       *)
THEOREM NothingLeftBehind == Spec => []DistancesReset
<1>1. Inv => DistancesReset
  BY NAssumption DEF Inv, DistancesReset, Ahead, None, Nodes
<1> QED
  BY <1>1, InitInv, StepInv, PTL DEF Spec

-----------------------------------------------------------------------------
(* What the walks need of a customization.                                 *)
Usable(c) == Exact(c.dist, c.up, c.fw) /\ Exact(Back(c.dist), c.down, c.bw)

(* Both kinds of customization give walks what they need.                  *)
LEMMA CustomizationsAreUsable ==
    ASSUME NEW m \in Metrics, NEW c \in {Basic(m), Perfect(m)}
    PROVE  Usable(c)
<1>1. /\ c.dist = Distances(m) /\ c.up = BasicUp(m) /\ c.down = BasicDown(m)
      /\ c.fw = Edges \/ c.fw = Kept(BasicUp(m), Distances(m))
      /\ c.bw = Edges \/ c.bw = Kept(BasicDown(m), Back(Distances(m)))
  <2>1. CASE c = Basic(m)
    BY <2>1 DEF Basic
  <2>2. CASE c = Perfect(m)
    <3>1. /\ c.dist = Distances(m) /\ c.up = BasicUp(m) /\ c.down = BasicDown(m)
          /\ c.fw = Kept(BasicUp(m), Distances(m))
          /\ c.bw = {e \in Edges : BasicDown(m)[e] = Distances(m)[<<e[2], e[1]>>]}
      BY <2>2 DEF Perfect, Basic, Kept
    <3>2. \A e \in Edges : Back(Distances(m))[e] = Distances(m)[<<e[2], e[1]>>]
      BY DEF Back, Edges
    <3>3. c.bw = Kept(BasicDown(m), Back(Distances(m)))
      BY <3>1, <3>2 DEF Kept
    <3> QED BY <3>1, <3>3
  <2> QED BY <2>1, <2>2
<1> QED BY <1>1, UpIsExact, DownIsExact DEF Usable

(* Distances of a walk are not below those in the metric.                  *)
Above(d, s, dist) == \A v \in Nodes : d[<<s, v>>] <= dist[v]

(* A shortest path that goes up from x is still there when x is settled:   *)
(* it goes on from one of the neighbors.                                   *)
Settled(dist, weight, edges, x) == [Relaxed(dist, weight, edges, x) EXCEPT ![x] = Inf]

GoesOn(d, dist, settled, x) ==
    \A b \in Nodes : x < b /\ dist[x] + d[<<x, b>>] < Inf =>
        \E y \in Nodes : settled[y] + d[<<y, b>>] <= dist[x] + d[<<x, b>>]

LEMMA SettledFacts ==
    ASSUME NEW d, NEW weight, NEW edges, Exact(d, weight, edges),
           NEW dist \in [Nodes -> Weight], NEW x \in Nodes
    PROVE  LET settled == Settled(dist, weight, edges, x)
           IN  /\ settled \in [Nodes -> Weight]
               /\ \A v \in Nodes : v # x => settled[v] <= dist[v]
               /\ \A s \in Nodes : Above(d, s, dist) => Above(d, s, settled)
               /\ GoesOn(d, dist, settled, x)
<1> DEFINE settled == Settled(dist, weight, edges, x)
<1> USE DEF Weight
<1>1. /\ Inf \in Nat
      /\ \A a, b \in Nodes : d[<<a, b>>] \in Nat /\ d[<<a, b>>] <= Inf
      /\ \A v \in Nodes : dist[v] \in Nat /\ dist[v] <= Inf
      /\ \A v \in Nodes : <<x, v>> \in edges =>
             /\ <<x, v>> \in Edges /\ v \in Graph[x] /\ x < v
             /\ weight[<<x, v>>] \in Nat /\ d[<<x, v>>] <= weight[<<x, v>>]
  <2>1. edges \subseteq Edges /\ \A e \in Edges : weight[e] \in Nat /\ d[e] <= weight[e]
    BY DEF Exact
  <2>2. \A v \in Nodes : <<x, v>> \in Edges => v \in Graph[x] /\ x < v
    BY GraphAssumption DEF Edges
  <2>3. ASSUME NEW a \in Nodes, NEW b \in Nodes PROVE d[<<a, b>>] \in Nat /\ d[<<a, b>>] <= Inf
    <3>1. d[<<a, b>>] \in Weight
      BY DEF Exact
    <3> QED BY <3>1, InfAssumption
  <2>4. ASSUME NEW v \in Nodes PROVE dist[v] \in Nat /\ dist[v] <= Inf
    <3>1. dist[v] \in 0 .. Inf
      OBVIOUS
    <3> QED BY <3>1, InfAssumption
  <2> QED BY <2>1, <2>2, <2>3, <2>4, InfAssumption
<1>2. /\ settled[x] = Inf
      /\ \A v \in Nodes : v # x => settled[v] = IF <<x, v>> \in edges /\ dist[x] + weight[<<x, v>>] < dist[v]
                                               THEN dist[x] + weight[<<x, v>>] ELSE dist[v]
      /\ settled = [v \in Nodes |-> settled[v]]
  BY DEF Settled, Relaxed
<1> HIDE DEF settled
<1>3. ASSUME NEW v \in Nodes, v # x
      PROVE  /\ settled[v] \in Nat /\ settled[v] <= dist[v]
             /\ <<x, v>> \in edges => settled[v] <= dist[x] + weight[<<x, v>>]
  <2>1. dist[v] \in Nat /\ dist[x] \in Nat
    BY <1>1
  <2>2. CASE <<x, v>> \in edges
    <3>1. weight[<<x, v>>] \in Nat
      BY <1>1, <2>2
    <3>2. settled[v] = IF dist[x] + weight[<<x, v>>] < dist[v] THEN dist[x] + weight[<<x, v>>] ELSE dist[v]
      BY <1>2, <1>3, <2>2
    <3> QED BY <2>1, <3>1, <3>2
  <2>3. CASE <<x, v>> \notin edges
    BY <1>2, <1>3, <2>1, <2>3
  <2> QED BY <2>2, <2>3
<1>4. settled \in [Nodes -> Weight]
  <2>1. ASSUME NEW v \in Nodes PROVE settled[v] \in 0 .. Inf
    <3>1. CASE v = x
      BY <1>1, <1>2, <3>1
    <3>2. CASE v # x
      <4>1. settled[v] \in Nat /\ settled[v] <= dist[v] /\ dist[v] \in Nat /\ dist[v] <= Inf
        BY <1>1, <1>3, <3>2
      <4> QED BY <1>1, <4>1
    <3> QED BY <3>1, <3>2
  <2> QED BY <1>2, <2>1
<1>5. ASSUME NEW s \in Nodes, Above(d, s, dist), NEW v \in Nodes
      PROVE  d[<<s, v>>] <= settled[v]
  <2>1. CASE v = x
    BY <1>1, <1>2, <2>1
  <2>2. CASE v # x /\ <<x, v>> \in edges /\ dist[x] + weight[<<x, v>>] < dist[v]
    <3>1. settled[v] = dist[x] + weight[<<x, v>>]
      BY <1>2, <2>2
    <3>2. d[<<s, x>>] <= dist[x] /\ d[<<s, v>>] <= d[<<s, x>>] + d[<<x, v>>] /\ d[<<x, v>>] <= weight[<<x, v>>]
      <4>1. d[<<s, v>>] <= d[<<s, x>>] + d[<<x, v>>]
        BY DEF Exact
      <4> QED BY <1>1, <1>5, <2>2, <4>1 DEF Above
    <3>3. /\ d[<<s, x>>] \in Nat /\ dist[x] \in Nat /\ d[<<s, v>>] \in Nat /\ d[<<x, v>>] \in Nat
          /\ weight[<<x, v>>] \in Nat
      BY <1>1, <2>2
    <3> QED BY <3>1, <3>2, <3>3
  <2>3. CASE v # x /\ ~(<<x, v>> \in edges /\ dist[x] + weight[<<x, v>>] < dist[v])
    <3>1. settled[v] = dist[v]
      BY <1>2, <2>3
    <3> QED BY <1>5, <3>1 DEF Above
  <2> QED BY <2>1, <2>2, <2>3
<1>6. ASSUME NEW b \in Nodes, x < b, dist[x] + d[<<x, b>>] < Inf
      PROVE  \E y \in Nodes : settled[y] + d[<<y, b>>] <= dist[x] + d[<<x, b>>]
  <2>1. d[<<x, b>>] < Inf
    <3>1. dist[x] \in Nat /\ d[<<x, b>>] \in Nat
      BY <1>1
    <3> QED BY <1>1, <1>6, <3>1
  <2>2. PICK y \in Graph[x] : <<x, y>> \in edges /\ weight[<<x, y>>] + d[<<y, b>>] <= d[<<x, b>>]
    BY <1>6, <2>1 DEF Exact
  <2>3. y \in Nodes /\ y # x
    <3>1. y \in Nodes /\ x < y
      BY GraphAssumption DEF Graphs
    <3> QED BY <3>1, NodesAreNat
  <2>4. settled[y] <= dist[x] + weight[<<x, y>>] /\ settled[y] \in Nat
    BY <1>3, <2>2, <2>3
  <2>5. dist[x] \in Nat /\ weight[<<x, y>>] \in Nat /\ d[<<y, b>>] \in Nat /\ d[<<x, b>>] \in Nat
    BY <1>1, <2>2, <2>3
  <2>6. settled[y] + d[<<y, b>>] <= dist[x] + d[<<x, b>>]
    BY <2>2, <2>4, <2>5
  <2> QED BY <2>3, <2>6
<1>7. \A s \in Nodes : Above(d, s, dist) => Above(d, s, settled)
  BY <1>5 DEF Above
<1>8. GoesOn(d, dist, settled, x)
  BY <1>6 DEF GoesOn
<1>9. \A v \in Nodes : v # x => settled[v] <= dist[v]
  BY <1>3
<1> QED BY <1>4, <1>7, <1>8, <1>9 DEF settled

(* A walk at x goes on, or cannot be part of a path shorter than least.    *)
Advances(d, dist, settled, x, least) ==
    /\ settled \in [Nodes -> Weight]
    /\ \A v \in Nodes : v # x => settled[v] <= dist[v]
    /\ \A s \in Nodes : Above(d, s, dist) => Above(d, s, settled)
    /\ least <= dist[x] \/ GoesOn(d, dist, settled, x)

LEMMA SettlingAdvances ==
    ASSUME NEW d, NEW weight, NEW edges, Exact(d, weight, edges),
           NEW dist \in [Nodes -> Weight], NEW x \in Nodes, NEW least
    PROVE  Advances(d, dist, Settled(dist, weight, edges, x), x, least)
BY SettledFacts DEF Advances

LEMMA SkippingAdvances ==
    ASSUME NEW d, NEW weight, NEW edges, Exact(d, weight, edges),
           NEW dist \in [Nodes -> Weight], NEW x \in Nodes, NEW least, least <= dist[x]
    PROVE  Advances(d, dist, [dist EXCEPT ![x] = Inf], x, least)
<1> DEFINE skipped == [dist EXCEPT ![x] = Inf]
<1>1. skipped \in [Nodes -> Weight] /\ skipped[x] = Inf /\ \A v \in Nodes : v # x => skipped[v] = dist[v]
  BY InfAssumption DEF Weight
<1>2. \A v \in Nodes : dist[v] \in Nat
  BY InfAssumption DEF Weight
<1>3. ASSUME NEW a \in Nodes, NEW b \in Nodes
      PROVE  d[<<a, b>>] \in Nat /\ d[<<a, b>>] <= Inf
  <2>1. d[<<a, b>>] \in Weight
    BY DEF Exact
  <2> QED BY <2>1, InfAssumption DEF Weight
<1> HIDE DEF skipped
<1>4. \A s \in Nodes : Above(d, s, dist) => Above(d, s, skipped)
  BY <1>1, <1>3 DEF Above
<1>5. \A v \in Nodes : v # x => skipped[v] <= dist[v]
  BY <1>1, <1>2
<1>6. Advances(d, dist, skipped, x, least)
  BY <1>1, <1>4, <1>5 DEF Advances
<1> QED BY <1>6 DEF skipped

-----------------------------------------------------------------------------
(* As long as both walks are on their way, the best path so far is a       *)
(* shortest one or some shortest path is still ahead of them: from a node  *)
(* that the forward walk reached to one that the backward walk reached.    *)
Found(f, b, least, d, length) ==
    least <= length \/ \E v, w \in Nodes : f[v] + d[<<v, w>>] + b[w] <= length

Walks(f, b, least, d, q) ==
    /\ Above(d, q[1], f) /\ Above(Back(d), q[2], b) /\ d[q] <= least
    /\ d[q] < Inf => Found(f, b, least, d, d[q])

AnswerInv ==
    /\ fw \in [Nodes -> Weight] /\ bw \in [Nodes -> Weight] /\ best \in Weight
    /\ Usable(customized)
    /\ phase = "walking" => query \in Nodes \X Nodes /\ Walks(fw, bw, best, customized.dist, query)
    /\ AnswersAreDistances

(* What is said of the two walks is symmetric.                             *)
LEMMA WalksBack ==
    ASSUME NEW d \in [Nodes \X Nodes -> Weight], NEW f \in [Nodes -> Weight], NEW b \in [Nodes -> Weight],
           NEW least, NEW q \in Nodes \X Nodes
    PROVE  Walks(f, b, least, d, q) <=> Walks(b, f, least, Back(d), <<q[2], q[1]>>)
<1> DEFINE p == <<q[2], q[1]>>
<1>1. /\ p \in Nodes \X Nodes /\ p[1] = q[2] /\ p[2] = q[1] /\ q = <<q[1], q[2]>>
      /\ q[1] \in Nodes /\ q[2] \in Nodes
  OBVIOUS
<1>2. Back(d)[p] = d[q] /\ \A v, w \in Nodes : Back(d)[<<v, w>>] = d[<<w, v>>]
  BY <1>1 DEF Back
<1>3. Back(Back(d)) = d
  <2>1. \A e \in Nodes \X Nodes : Back(Back(d))[e] = d[e]
    BY <1>2 DEF Back
  <2> QED BY <2>1 DEF Back
<1>4. ASSUME NEW v \in Nodes, NEW w \in Nodes
      PROVE  f[v] + d[<<v, w>>] + b[w] = b[w] + Back(d)[<<w, v>>] + f[v]
  <2>1. f[v] \in Nat /\ b[w] \in Nat /\ d[<<v, w>>] \in Nat
    <3>1. f[v] \in Weight /\ b[w] \in Weight /\ d[<<v, w>>] \in Weight
      OBVIOUS
    <3> QED BY <3>1, InfAssumption DEF Weight
  <2> QED BY <1>2, <2>1
<1>5. Found(f, b, least, d, d[q]) <=> Found(b, f, least, Back(d), d[q])
  <2>1. CASE least <= d[q]
    BY <2>1 DEF Found
  <2>2. CASE ~(least <= d[q])
    <3>1. ASSUME NEW v \in Nodes, NEW w \in Nodes, f[v] + d[<<v, w>>] + b[w] <= d[q]
          PROVE  Found(b, f, least, Back(d), d[q])
      <4>1. b[w] + Back(d)[<<w, v>>] + f[v] <= d[q]
        BY <1>4, <3>1
      <4> QED BY <4>1 DEF Found
    <3>2. ASSUME NEW v \in Nodes, NEW w \in Nodes, b[w] + Back(d)[<<w, v>>] + f[v] <= d[q]
          PROVE  Found(f, b, least, d, d[q])
      <4>1. f[v] + d[<<v, w>>] + b[w] <= d[q]
        BY <1>4, <3>2
      <4> QED BY <4>1 DEF Found
    <3> QED BY <2>2, <3>1, <3>2 DEF Found
  <2> QED BY <2>1, <2>2
<1> QED BY <1>1, <1>2, <1>3, <1>5 DEF Walks

Higher(dist, x) == \A v \in Nodes : dist[v] # Inf => x < v

(* The forward walk advances below all that the backward walk reached.     *)
LEMMA ForwardWalks ==
    ASSUME NEW d \in [Nodes \X Nodes -> Weight], NEW f \in [Nodes -> Weight], NEW b \in [Nodes -> Weight],
           NEW least \in Weight, NEW q \in Nodes \X Nodes, NEW x \in Nodes, NEW g,
           Walks(f, b, least, d, q), Advances(d, f, g, x, least),
           Higher(b, x)
    PROVE  Walks(g, b, least, d, q)
<1>1. q[1] \in Nodes /\ q[2] \in Nodes
  OBVIOUS
<1>2. Above(d, q[1], g) /\ Above(Back(d), q[2], b) /\ d[q] <= least
  BY <1>1 DEF Walks, Advances
<1>3. ASSUME d[q] < Inf PROVE Found(g, b, least, d, d[q])
  <2>1. CASE least <= d[q]
    BY <2>1 DEF Found
  <2>2. CASE ~(least <= d[q])
    <3>1. PICK v \in Nodes, w \in Nodes : f[v] + d[<<v, w>>] + b[w] <= d[q]
      BY <1>3, <2>2 DEF Walks, Found
    <3>2. /\ f[v] \in Nat /\ g[v] \in Nat /\ b[w] \in Nat /\ d[<<v, w>>] \in Nat /\ d[q] \in Nat /\ least \in Nat
          /\ b[w] <= Inf /\ Inf \in Nat
      <4>1. /\ f[v] \in Weight /\ g[v] \in Weight /\ b[w] \in Weight /\ d[<<v, w>>] \in Weight /\ d[q] \in Weight
            /\ least \in Weight
        BY DEF Advances
      <4> QED BY <4>1, InfAssumption DEF Weight
    <3>3. CASE v # x
      <4>1. g[v] <= f[v]
        BY <3>3 DEF Advances
      <4>2. g[v] + d[<<v, w>>] + b[w] <= d[q]
        BY <3>1, <3>2, <4>1
      <4> QED BY <4>2 DEF Found
    <3>4. CASE v = x
      <4>1. b[w] # Inf
        BY <1>3, <3>1, <3>2
      <4>2. x < w /\ f[x] + d[<<x, w>>] < Inf /\ ~(least <= f[x])
        BY <1>3, <2>2, <3>1, <3>2, <3>4, <4>1 DEF Higher
      <4>3. PICK y \in Nodes : g[y] + d[<<y, w>>] <= f[x] + d[<<x, w>>]
        BY <4>2 DEF Advances, GoesOn
      <4>4. g[y] \in Nat /\ d[<<y, w>>] \in Nat
        <5>1. g[y] \in Weight /\ d[<<y, w>>] \in Weight
          BY DEF Advances
        <5> QED BY <5>1, InfAssumption DEF Weight
      <4>5. g[y] + d[<<y, w>>] + b[w] <= d[q]
        BY <3>1, <3>2, <3>4, <4>3, <4>4
      <4> QED BY <4>5 DEF Found
    <3> QED BY <3>3, <3>4
  <2> QED BY <2>1, <2>2
<1> QED BY <1>2, <1>3 DEF Walks

(* Both walks advance at x, where they may have met on a shorter path.     *)
LEMMA CommonWalks ==
    ASSUME NEW d \in [Nodes \X Nodes -> Weight], NEW f \in [Nodes -> Weight], NEW b \in [Nodes -> Weight],
           NEW least \in Weight, NEW q \in Nodes \X Nodes, NEW x \in Nodes, NEW g, NEW c,
           \A u, v, w \in Nodes : d[<<u, w>>] <= d[<<u, v>>] + d[<<v, w>>], \A v \in Nodes : d[<<v, v>>] = 0,
           Walks(f, b, least, d, q), Advances(d, f, g, x, least), Advances(Back(d), b, c, x, least),
           \A v \in Nodes : f[v] # Inf => x <= v, \A v \in Nodes : b[v] # Inf => x <= v
    PROVE  LET shorter == IF f[x] + b[x] < least THEN f[x] + b[x] ELSE least
           IN  shorter \in Weight /\ Walks(g, c, shorter, d, q)
<1> DEFINE shorter == IF f[x] + b[x] < least THEN f[x] + b[x] ELSE least
<1>1. q[1] \in Nodes /\ q[2] \in Nodes /\ q = <<q[1], q[2]>> /\ Nodes \subseteq Nat
  BY NodesAreNat
<1>2. ASSUME NEW v \in Nodes, NEW w \in Nodes
      PROVE  /\ f[v] \in Nat /\ g[v] \in Nat /\ b[v] \in Nat /\ c[v] \in Nat /\ d[<<v, w>>] \in Nat
             /\ f[v] <= Inf /\ b[v] <= Inf
  <2>1. /\ f[v] \in Weight /\ g[v] \in Weight /\ b[v] \in Weight /\ c[v] \in Weight
        /\ d[<<v, w>>] \in Weight
    BY DEF Advances
  <2> QED BY <2>1, InfAssumption DEF Weight
<1>3. least \in Nat /\ least <= Inf /\ Inf \in Nat /\ d[q] \in Nat
  <2>1. d[q] \in Weight
    OBVIOUS
  <2> QED BY <2>1, InfAssumption DEF Weight
<1>4. shorter \in Nat /\ shorter <= least /\ shorter <= f[x] + b[x]
  <2>1. f[x] \in Nat /\ b[x] \in Nat
    BY <1>2
  <2>2. CASE f[x] + b[x] < least
    BY <1>3, <2>1, <2>2
  <2>3. CASE ~(f[x] + b[x] < least)
    BY <1>3, <2>1, <2>3
  <2> QED BY <2>2, <2>3
<1>5. shorter \in Weight
  BY <1>3, <1>4 DEF Weight
<1>6. d[q] <= shorter
  <2>1. d[<<q[1], x>>] <= f[x]
    BY <1>1 DEF Walks, Above
  <2>2. d[<<x, q[2]>>] <= b[x]
    <3>1. Back(d)[<<q[2], x>>] = d[<<x, q[2]>>]
      BY <1>1 DEF Back
    <3> QED BY <1>1, <3>1 DEF Walks, Above
  <2>3. d[q] <= d[<<q[1], x>>] + d[<<x, q[2]>>] /\ d[<<q[1], x>>] \in Nat /\ d[<<x, q[2]>>] \in Nat
    BY <1>1, <1>2
  <2>4. d[q] <= f[x] + b[x]
    BY <1>2, <1>3, <2>1, <2>2, <2>3
  <2> QED BY <2>4 DEF Walks
<1> HIDE DEF shorter
<1>7. Above(d, q[1], g) /\ Above(Back(d), q[2], c)
  BY <1>1 DEF Walks, Advances
<1>8. ASSUME d[q] < Inf PROVE Found(g, c, shorter, d, d[q])
  <2>1. CASE shorter <= d[q]
    BY <2>1 DEF Found
  <2>2. CASE ~(shorter <= d[q])
    <3>1. ~(least <= d[q])
      BY <1>3, <1>4, <2>2
    <3>2. PICK v \in Nodes, w \in Nodes : f[v] + d[<<v, w>>] + b[w] <= d[q]
      BY <1>8, <3>1 DEF Walks, Found
    <3>3. /\ f[v] \in Nat /\ g[v] \in Nat /\ b[v] \in Nat /\ f[w] \in Nat /\ b[w] \in Nat /\ c[w] \in Nat
          /\ d[<<v, w>>] \in Nat /\ f[v] <= Inf /\ b[w] <= Inf /\ v \in Nat /\ w \in Nat /\ x \in Nat
      BY <1>1, <1>2
    <3>4. f[v] # Inf /\ b[w] # Inf
      BY <1>3, <1>8, <3>2, <3>3
    <3>5. x <= v /\ x <= w
      BY <3>4
    <3>6. ~(least <= f[v]) /\ ~(least <= b[w]) /\ f[v] + d[<<v, w>>] < Inf /\ b[w] + d[<<v, w>>] < Inf
      BY <1>3, <1>8, <3>1, <3>2, <3>3
    <3>7. CASE v = x /\ w = x
      <4>1. d[<<v, w>>] = 0
        BY <3>7
      <4>2. f[x] + b[x] <= d[q]
        BY <3>2, <3>3, <3>7, <4>1
      <4>3. f[x] \in Nat /\ b[x] \in Nat
        BY <1>2
      <4> QED BY <1>3, <1>4, <2>2, <4>2, <4>3
    <3>8. CASE v = x /\ w # x
      <4>1. x < w
        BY <3>3, <3>5, <3>8
      <4>2. PICK y \in Nodes : g[y] + d[<<y, w>>] <= f[x] + d[<<x, w>>]
        BY <3>6, <3>8, <4>1 DEF Advances, GoesOn
      <4>3. c[w] <= b[w]
        BY <3>8 DEF Advances
      <4>4. g[y] \in Nat /\ d[<<y, w>>] \in Nat
        BY <1>2
      <4>5. g[y] + d[<<y, w>>] + c[w] <= d[q]
        BY <1>3, <3>2, <3>3, <3>8, <4>2, <4>3, <4>4
      <4> QED BY <4>5 DEF Found
    <3>9. CASE v # x /\ w = x
      <4>1. x < v
        BY <3>3, <3>5, <3>9
      <4>2. \A y \in Nodes : Back(d)[<<y, v>>] = d[<<v, y>>]
        BY DEF Back
      <4>3. PICK y \in Nodes : c[y] + Back(d)[<<y, v>>] <= b[x] + Back(d)[<<x, v>>]
        BY <3>6, <3>9, <4>1, <4>2 DEF Advances, GoesOn
      <4>4. g[v] <= f[v]
        BY <3>9 DEF Advances
      <4>5. c[y] \in Nat /\ d[<<v, y>>] \in Nat
        BY <1>2
      <4>6. g[v] + d[<<v, y>>] + c[y] <= d[q]
        BY <1>3, <3>2, <3>3, <3>9, <4>2, <4>3, <4>4, <4>5
      <4> QED BY <4>6 DEF Found
    <3>10. CASE v # x /\ w # x
      <4>1. g[v] <= f[v] /\ c[w] <= b[w]
        BY <3>10 DEF Advances
      <4>2. g[v] + d[<<v, w>>] + c[w] <= d[q]
        BY <1>3, <3>2, <3>3, <4>1
      <4> QED BY <4>2 DEF Found
    <3> QED BY <3>7, <3>8, <3>9, <3>10
  <2> QED BY <2>1, <2>2
<1>9. shorter \in Weight /\ Walks(g, c, shorter, d, q)
  BY <1>5, <1>6, <1>7, <1>8 DEF Walks
<1> QED BY <1>9 DEF shorter

LEMMA InitAnswer == Init => AnswerInv
<1> SUFFICES ASSUME Init PROVE AnswerInv
  OBVIOUS
<1>1. PICK m \in Metrics : customized \in {Basic(m), Perfect(m)}
  BY DEF Init
<1>2. Usable(customized)
  BY <1>1, CustomizationsAreUsable
<1>3. Inf \in Weight
  BY InfAssumption DEF Weight
<1> QED BY <1>2, <1>3 DEF Init, AnswerInv, AnswersAreDistances

(* A query starts with both of its ends and a path between them.           *)
LEMMA QueryAnswer == ASSUME Inv, AnswerInv, Query PROVE AnswerInv'
<1> DEFINE d == customized.dist
<1>1. PICK q \in Queries :
          /\ query' = q /\ fw' = [fw EXCEPT ![q[1]] = 0] /\ bw' = [bw EXCEPT ![q[2]] = 0]
          /\ best' = Inf /\ phase' = "walking" /\ customized' = customized
  BY DEF Query
<1>2. q \in Nodes \X Nodes /\ q[1] \in Nodes /\ q[2] \in Nodes /\ q = <<q[1], q[2]>>
  BY QueriesAssumption
<1>3. 0 \in Weight /\ Inf \in Weight /\ Inf \in Nat
  BY InfAssumption DEF Weight
<1>4. fw' \in [Nodes -> Weight] /\ bw' \in [Nodes -> Weight] /\ best' \in Weight
  BY <1>1, <1>2, <1>3 DEF AnswerInv
<1>5. \A v \in Nodes : fw[v] = Inf /\ bw[v] = Inf
  BY DEF Inv, Ahead, Query, Free, None, Nodes
<1>6. /\ fw'[q[1]] = 0 /\ \A v \in Nodes : v # q[1] => fw'[v] = Inf
      /\ bw'[q[2]] = 0 /\ \A v \in Nodes : v # q[2] => bw'[v] = Inf
  BY <1>1, <1>2, <1>5 DEF AnswerInv
<1>7. Exact(d, customized.up, customized.fw) /\ Usable(customized)
  BY DEF AnswerInv, Usable
<1> HIDE DEF d
<1>8. d \in [Nodes \X Nodes -> Weight] /\ \A v \in Nodes : d[<<v, v>>] = 0
  BY <1>7 DEF Exact
<1>9. ASSUME NEW v \in Nodes, NEW w \in Nodes PROVE d[<<v, w>>] \in Nat /\ d[<<v, w>>] <= Inf
  <2>1. d[<<v, w>>] \in Weight
    BY <1>8
  <2> QED BY <2>1, InfAssumption DEF Weight
<1>10. Above(d, q[1], fw')
  <2>1. ASSUME NEW v \in Nodes PROVE d[<<q[1], v>>] <= fw'[v]
    <3>1. CASE v = q[1]
      BY <1>6, <1>8, <3>1
    <3>2. CASE v # q[1]
      BY <1>2, <1>6, <1>9, <3>2
    <3> QED BY <3>1, <3>2
  <2> QED BY <2>1 DEF Above
<1>11. Above(Back(d), q[2], bw')
  <2>1. ASSUME NEW v \in Nodes PROVE Back(d)[<<q[2], v>>] <= bw'[v]
    <3>1. Back(d)[<<q[2], v>>] = d[<<v, q[2]>>]
      BY <1>2 DEF Back
    <3>2. CASE v = q[2]
      BY <1>6, <1>8, <3>1, <3>2
    <3>3. CASE v # q[2]
      BY <1>2, <1>6, <1>9, <3>1, <3>3
    <3> QED BY <3>2, <3>3
  <2> QED BY <2>1 DEF Above
<1>12. Found(fw', bw', best', d, d[q])
  <2>1. d[q] \in Nat /\ d[q] = d[<<q[1], q[2]>>]
    BY <1>2, <1>9
  <2>2. fw'[q[1]] + d[<<q[1], q[2]>>] + bw'[q[2]] <= d[q]
    BY <1>6, <2>1
  <2> QED BY <1>2, <2>2 DEF Found
<1>13. d[q] <= best'
  BY <1>1, <1>2, <1>9
<1>14. Walks(fw', bw', best', d, q)
  BY <1>10, <1>11, <1>12, <1>13 DEF Walks
<1> QED BY <1>1, <1>2, <1>4, <1>7, <1>14 DEF AnswerInv, AnswersAreDistances, d

(* What is above the next node of a walk.                                  *)
LEMMA NotBehind ==
    ASSUME NEW dist, NEW next \in Nodes, Ahead(dist, next)
    PROVE  \A v \in Nodes : dist[v] # Inf => next <= v
<1> SUFFICES ASSUME NEW v \in Nodes, dist[v] # Inf PROVE next <= v
  OBVIOUS
<1>1. v = next \/ v \in Graph[next]
  BY DEF Ahead
<1>2. v = next \/ next < v
  BY <1>1, GraphAssumption
<1> QED BY <1>2, NodesAreNat

LEMMA NoneIsNoNode == None \notin Nodes
BY NAssumption DEF None, Nodes

LEMMA ForwardAnswer == ASSUME Inv, AnswerInv, ForwardStep PROVE AnswerInv'
<1> DEFINE d == customized.dist
           x == fwNext
<1>1. /\ x \in Nodes /\ fw' = Settled(fw, customized.up, customized.fw, x)
      /\ customized' = customized /\ bw' = bw /\ best' = best /\ query' = query /\ phase' = "walking"
      /\ Walks(fw, bw, best, d, query) /\ Exact(d, customized.up, customized.fw)
      /\ fw \in [Nodes -> Weight] /\ bw \in [Nodes -> Weight] /\ best \in Weight /\ query \in Nodes \X Nodes
  BY DEF ForwardStep, FwRelaxed, Settled, Inv, Ahead, AnswerInv, Usable
<1>2. Higher(bw, x)
  <2> SUFFICES ASSUME NEW v \in Nodes, bw[v] # Inf PROVE x < v
    BY DEF Higher
  <2>1. bwNext \in Nodes /\ Ahead(bw, bwNext)
    BY DEF Inv, Ahead
  <2>2. x < bwNext /\ bwNext <= v
    BY <2>1, NotBehind, NoneIsNoNode DEF ForwardStep
  <2> QED BY <1>1, <2>1, <2>2, NodesAreNat
<1> HIDE DEF d, x
<1>3. Advances(d, fw, fw', x, best)
  BY <1>1, SettlingAdvances
<1>4. d \in [Nodes \X Nodes -> Weight]
  BY <1>1 DEF Exact
<1>5. Walks(fw', bw, best, d, query)
  <2>1. /\ fw \in [Nodes -> Weight] /\ bw \in [Nodes -> Weight] /\ best \in Weight /\ query \in Nodes \X Nodes
        /\ x \in Nodes /\ Walks(fw, bw, best, d, query)
    BY <1>1
  <2> QED BY <1>2, <1>3, <1>4, <2>1, ForwardWalks
<1>6. fw' \in [Nodes -> Weight]
  BY <1>3 DEF Advances
<1> QED BY <1>1, <1>5, <1>6 DEF AnswerInv, AnswersAreDistances, d

LEMMA BackwardAnswer == ASSUME Inv, AnswerInv, BackwardStep PROVE AnswerInv'
<1> DEFINE d == customized.dist
           r == Back(d)
           p == <<query[2], query[1]>>
           x == bwNext
<1>1. /\ x \in Nodes /\ bw' = Settled(bw, customized.down, customized.bw, x)
      /\ customized' = customized /\ fw' = fw /\ best' = best /\ query' = query /\ phase' = "walking"
      /\ Walks(fw, bw, best, d, query) /\ Exact(d, customized.up, customized.fw)
      /\ Exact(r, customized.down, customized.bw)
      /\ fw \in [Nodes -> Weight] /\ bw \in [Nodes -> Weight] /\ best \in Weight /\ query \in Nodes \X Nodes
  BY DEF BackwardStep, BwRelaxed, Settled, Inv, Ahead, AnswerInv, Usable
<1>2. Higher(fw, x)
  <2> SUFFICES ASSUME NEW v \in Nodes, fw[v] # Inf PROVE x < v
    BY DEF Higher
  <2>1. fwNext \in Nodes /\ Ahead(fw, fwNext)
    BY DEF Inv, Ahead
  <2>2. x < fwNext /\ fwNext <= v
    BY <2>1, NotBehind, NoneIsNoNode DEF BackwardStep
  <2> QED BY <1>1, <2>1, <2>2, NodesAreNat
<1>3. p \in Nodes \X Nodes
  BY <1>1
<1> HIDE DEF d, x, p, r
<1>4. Advances(r, bw, bw', x, best)
  BY <1>1, SettlingAdvances
<1>5. d \in [Nodes \X Nodes -> Weight] /\ r \in [Nodes \X Nodes -> Weight]
  BY <1>1 DEF Exact
<1>6. bw' \in [Nodes -> Weight]
  BY <1>4 DEF Advances
<1>7. Walks(bw, fw, best, r, p)
  BY <1>1, <1>5, WalksBack DEF r, p
<1>8. Walks(bw', fw, best, r, p)
  <2>1. /\ fw \in [Nodes -> Weight] /\ bw \in [Nodes -> Weight] /\ best \in Weight /\ x \in Nodes
    BY <1>1
  <2> QED BY <1>2, <1>3, <1>4, <1>5, <1>7, <2>1, ForwardWalks
<1>9. Walks(fw, bw', best, d, query)
  BY <1>1, <1>5, <1>6, <1>8, WalksBack DEF r, p
<1> QED BY <1>1, <1>6, <1>9 DEF AnswerInv, AnswersAreDistances, d

LEMMA CommonAnswer == ASSUME Inv, AnswerInv, CommonStep PROVE AnswerInv'
<1> DEFINE d == customized.dist
           x == fwNext
<1>1. /\ x \in Nodes /\ bwNext = x
      /\ customized' = customized /\ query' = query /\ phase' = "walking"
      /\ best' = IF fw[x] + bw[x] < best THEN fw[x] + bw[x] ELSE best
      /\ Walks(fw, bw, best, d, query) /\ Exact(d, customized.up, customized.fw)
      /\ Exact(Back(d), customized.down, customized.bw) /\ Usable(customized)
      /\ fw \in [Nodes -> Weight] /\ bw \in [Nodes -> Weight] /\ best \in Weight /\ query \in Nodes \X Nodes
  BY DEF CommonStep, Inv, Ahead, AnswerInv, Usable
<1>2. /\ fw[x] < best => fw' = Settled(fw, customized.up, customized.fw, x)
      /\ ~(fw[x] < best) => fw' = [fw EXCEPT ![x] = Inf]
      /\ bw[x] < best => bw' = Settled(bw, customized.down, customized.bw, x)
      /\ ~(bw[x] < best) => bw' = [bw EXCEPT ![x] = Inf]
  BY DEF CommonStep, FwRelaxed, BwRelaxed, Settled
<1>3. (\A v \in Nodes : fw[v] # Inf => x <= v) /\ (\A v \in Nodes : bw[v] # Inf => x <= v)
  BY <1>1, NotBehind DEF Inv
<1> HIDE DEF d, x
<1>4. fw[x] \in Nat /\ bw[x] \in Nat /\ best \in Nat
  <2>1. fw[x] \in Weight /\ bw[x] \in Weight
    BY <1>1
  <2> QED BY <1>1, <2>1, InfAssumption DEF Weight
<1>5. Advances(d, fw, fw', x, best)
  <2>1. CASE fw[x] < best
    BY <1>1, <1>2, <2>1, SettlingAdvances
  <2>2. CASE ~(fw[x] < best)
    <3>1. best <= fw[x]
      BY <1>4, <2>2
    <3> QED BY <1>1, <1>2, <2>2, <3>1, SkippingAdvances
  <2> QED BY <2>1, <2>2
<1>6. Advances(Back(d), bw, bw', x, best)
  <2>1. CASE bw[x] < best
    BY <1>1, <1>2, <2>1, SettlingAdvances
  <2>2. CASE ~(bw[x] < best)
    <3>1. best <= bw[x]
      BY <1>4, <2>2
    <3> QED BY <1>1, <1>2, <2>2, <3>1, SkippingAdvances
  <2> QED BY <2>1, <2>2
<1>7. /\ d \in [Nodes \X Nodes -> Weight] /\ \A v \in Nodes : d[<<v, v>>] = 0
      /\ \A u, v, w \in Nodes : d[<<u, w>>] <= d[<<u, v>>] + d[<<v, w>>]
  BY <1>1 DEF Exact
<1>8. best' \in Weight /\ Walks(fw', bw', best', d, query)
  BY <1>1, <1>3, <1>5, <1>6, <1>7, CommonWalks
<1>9. fw' \in [Nodes -> Weight] /\ bw' \in [Nodes -> Weight]
  BY <1>5, <1>6 DEF Advances
<1> QED BY <1>1, <1>8, <1>9 DEF AnswerInv, AnswersAreDistances, d

(* At the end nothing is ahead of the walks.                               *)
LEMMA AnswerAnswer == ASSUME Inv, AnswerInv, Answer PROVE AnswerInv'
<1> DEFINE d == customized.dist
<1>1. /\ customized' = customized /\ fw' = fw /\ bw' = bw /\ best' = best /\ query' = query /\ phase' = "answered"
      /\ Walks(fw, bw, best, d, query) /\ Exact(d, customized.up, customized.fw)
      /\ fw \in [Nodes -> Weight] /\ bw \in [Nodes -> Weight] /\ best \in Weight /\ query \in Nodes \X Nodes
  BY DEF Answer, walkVars, AnswerInv, Usable
<1>2. \A v \in Nodes : fw[v] = Inf /\ bw[v] = Inf
  BY NoneIsNoNode DEF Answer, Inv, Ahead
<1> HIDE DEF d
<1>3. d \in [Nodes \X Nodes -> Weight]
  BY <1>1 DEF Exact
<1>4. d[query] \in Nat /\ best \in Nat /\ best <= Inf /\ Inf \in Nat /\ d[query] <= best
  <2>1. d[query] \in Weight
    BY <1>1, <1>3
  <2> QED BY <1>1, <2>1, InfAssumption DEF Weight, Walks
<1>5. best = d[query]
  <2>1. CASE d[query] < Inf
    <3>1. ASSUME NEW v \in Nodes, NEW w \in Nodes, fw[v] + d[<<v, w>>] + bw[w] <= d[query] PROVE FALSE
      <4>1. d[<<v, w>>] \in Weight
        BY <1>3
      <4>2. d[<<v, w>>] \in Nat /\ fw[v] = Inf /\ bw[w] = Inf
        BY <1>2, <4>1, InfAssumption DEF Weight
      <4> QED BY <1>4, <2>1, <3>1, <4>2
    <3>2. best <= d[query]
      BY <1>1, <2>1, <3>1 DEF Walks, Found
    <3> QED BY <1>4, <3>2
  <2>2. CASE ~(d[query] < Inf)
    BY <1>4, <2>2
  <2> QED BY <2>1, <2>2
<1> QED BY <1>1, <1>5 DEF AnswerInv, AnswersAreDistances, d

LEMMA StepAnswer == Inv /\ AnswerInv /\ [Next]_vars => AnswerInv'
<1> SUFFICES ASSUME Inv, AnswerInv, [Next]_vars PROVE AnswerInv'
  OBVIOUS
<1>1. CASE Update
  <2>1. PICK m \in Updates : customized' \in {Basic(m), Perfect(m)}
    BY <1>1 DEF Update, Customizations
  <2>2. Usable(customized')
    BY <2>1, QueriesAssumption, CustomizationsAreUsable
  <2> QED BY <1>1, <2>2 DEF Update, walkVars, AnswerInv, AnswersAreDistances, Usable
<1>2. CASE AskForPath \/ Flip \/ Unpack \/ FinishPath
  BY <1>2 DEF AskForPath, Flip, Unpack, FinishPath, walkVars, AnswerInv, AnswersAreDistances, Usable
<1>3. CASE UNCHANGED vars
  BY <1>3 DEF vars, walkVars, AnswerInv, AnswersAreDistances, Usable
<1> QED BY <1>1, <1>2, <1>3, QueryAnswer, ForwardAnswer, BackwardAnswer, CommonAnswer, AnswerAnswer
        DEF Next, Server

(* Whatever was asked before, and after either kind of customization: the  *)
(* answer to a query is the distance in the metric of the last update.     *)
THEOREM QueriesAreExact == Spec => []AnswersAreDistances
<1>1. AnswerInv => AnswersAreDistances
  BY DEF AnswerInv
<1> QED BY <1>1, InitInv, StepInv, InitAnswer, StepAnswer, PTL DEF Spec

-----------------------------------------------------------------------------
(* Tight paths: shortest, no piece can be left out, and of any three nodes *)
(* the one between the others is needed to avoid going higher. This is     *)
(* what the path of a query is from its answer to its end.                 *)

(* Two nodes are a piece of a path if the edge between them has their      *)
(* distance as its weight.                                                 *)
Piece(D, a, b) ==
    /\ a \in Nodes /\ b \in Nodes /\ Adjacent(Graph, a, b)
    /\ D[N][<<a, b>>] < Inf
    /\ D[IF a < b THEN a ELSE b][<<a, b>>] = D[N][<<a, b>>]

(* A shortest path from a to c leads over b, and none avoids all nodes     *)
(* that are not lower than b.                                              *)
Between(D, a, b, c) ==
    /\ D[N][<<a, c>>] = D[N][<<a, b>>] + D[N][<<b, c>>]
    /\ D[N][<<a, c>>] < D[b][<<a, c>>]

(* A shortest path on which nothing can be left out: this is what keeps    *)
(* its nodes apart where roads have weight 0.                              *)
Tight(D, P, k) ==
    /\ k \in Nat /\ P \in [0 .. k -> Nodes]
    /\ \A i \in 0 .. k - 1 : Piece(D, P[i], P[i + 1])
    /\ \A i, l, j \in 0 .. k : i < l /\ l < j => Between(D, P[i], P[l], P[j])

(* What the proofs below need of lengths.                                  *)
LEMMA LengthLaws ==
    ASSUME NEW D, Lengths(D, Inf)
    PROVE  /\ \A h \in 0 .. N : \A a, b \in Nodes : D[h][<<a, b>>] \in Nat /\ D[h][<<a, b>>] <= Inf
           /\ \A h \in 0 .. N : \A a \in Nodes : D[h][<<a, a>>] = 0
           /\ \A h \in 0 .. N : \A z \in 0 .. h : \A a, b \in Nodes : D[h][<<a, b>>] <= D[z][<<a, b>>]
           /\ \A h \in 0 .. N : \A a, b \in Nodes : D[N][<<a, b>>] <= D[h][<<a, b>>]
           /\ \A h \in 0 .. N : \A b \in 0 .. h - 1 : \A a, c \in Nodes : D[h][<<a, c>>] <= D[h][<<a, b>>] + D[h][<<b, c>>]
           /\ \A a, b, c \in Nodes : D[N][<<a, c>>] <= D[N][<<a, b>>] + D[N][<<b, c>>]
<1>1. N \in Nat /\ N \in 0 .. N /\ Nodes = 0 .. N - 1 /\ \A h \in 0 .. N : h \in 0 .. N /\ Inf \in Nat
  BY NAssumption, InfAssumption DEF Nodes
<1>2. \A h \in 0 .. N : \A b \in 0 .. h - 1 : \A a, c \in Nodes : D[h][<<a, c>>] <= D[h][<<a, b>>] + D[h][<<b, c>>]
  BY InfAssumption, TriangleInequality
<1>3. \A a, b, c \in Nodes : D[N][<<a, c>>] <= D[N][<<a, b>>] + D[N][<<b, c>>]
  BY <1>1, <1>2
<1>4. \A h \in 0 .. N : \A z \in 0 .. h : \A a, b \in Nodes : D[h][<<a, b>>] <= D[z][<<a, b>>]
  BY InfAssumption, LengthsFacts
<1>5. \A h \in 0 .. N : \A a, b \in Nodes : D[N][<<a, b>>] <= D[h][<<a, b>>]
  BY <1>1, <1>4
<1> QED BY <1>2, <1>3, <1>4, <1>5, LengthsFacts, InfAssumption

(* Nodes are numbers, and D[k] is about inner nodes lower than the node k. *)
LEMMA NodesAreLevels == Nodes \subseteq 0 .. N /\ N \in 0 .. N /\ Nodes = 0 .. N - 1 /\ N \in Nat /\ Nodes \subseteq Nat
BY NAssumption DEF Nodes

(* Against the direction of the arcs, a path is a path as well.            *)
LEMMA PiecesReversed ==
    ASSUME NEW D, Lengths(D, Inf), NEW a \in Nodes, NEW b \in Nodes, NEW c \in Nodes
    PROVE  /\ Piece(Reversed(D), a, b) <=> Piece(D, b, a)
           /\ Between(Reversed(D), a, b, c) <=> Between(D, c, b, a)
<1> DEFINE R == Reversed(D)
<1>1. Lengths(R, Inf) /\ \A h \in 0 .. N : \A v, w \in Nodes : R[h][<<v, w>>] = D[h][<<w, v>>]
  BY ReversedLengths, InfAssumption
<1>2. a \in 0 .. N /\ b \in 0 .. N /\ N \in 0 .. N /\ a \in Nat /\ b \in Nat
  BY NodesAreLevels
<1> HIDE DEF R
<1>3. R[N][<<a, b>>] = D[N][<<b, a>>] /\ R[a][<<a, b>>] = D[a][<<b, a>>] /\ R[b][<<a, b>>] = D[b][<<b, a>>]
  BY <1>1, <1>2
<1>4. Piece(R, a, b) <=> Piece(D, b, a)
  <2>1. CASE a < b
    BY <1>2, <1>3, <2>1 DEF Piece, Adjacent
  <2>2. CASE b < a
    BY <1>2, <1>3, <2>2 DEF Piece, Adjacent
  <2>3. CASE a = b
    BY <1>2, <1>3, <2>3 DEF Piece, Adjacent
  <2> QED BY <1>2, <2>1, <2>2, <2>3
<1>5. /\ R[N][<<a, c>>] = D[N][<<c, a>>] /\ R[N][<<a, b>>] = D[N][<<b, a>>] /\ R[N][<<b, c>>] = D[N][<<c, b>>]
      /\ R[b][<<a, c>>] = D[b][<<c, a>>]
  BY <1>1, <1>2
<1>6. D[N][<<b, a>>] \in Nat /\ D[N][<<c, b>>] \in Nat
  BY <1>2, LengthLaws
<1>7. Between(R, a, b, c) <=> Between(D, c, b, a)
  BY <1>5, <1>6 DEF Between
<1> QED BY <1>4, <1>7 DEF R

(* A piece that leads over a lower node instead, the lowest possible.      *)
Splits(D, p, z, r) ==
    /\ p \in Nodes /\ z \in Nodes /\ r \in Nodes /\ z < p /\ z < r
    /\ Adjacent(Graph, p, z) /\ Adjacent(Graph, z, r)
    /\ D[N][<<p, r>>] = D[z][<<p, z>>] + D[z][<<z, r>>]
    /\ D[N][<<p, r>>] < D[z][<<p, r>>]

(* What splits a piece splits it in the other direction as well.           *)
LEMMA SplitsReversed ==
    ASSUME NEW D, Lengths(D, Inf), NEW p, NEW z, NEW r, Splits(D, p, z, r)
    PROVE  Splits(Reversed(D), r, z, p)
<1> DEFINE R == Reversed(D)
<1>1. Lengths(R, Inf) /\ \A h \in 0 .. N : \A v, w \in Nodes : R[h][<<v, w>>] = D[h][<<w, v>>]
  BY ReversedLengths, InfAssumption
<1>2. p \in Nodes /\ r \in Nodes /\ z \in Nodes /\ z \in 0 .. N /\ N \in 0 .. N
  BY NodesAreLevels DEF Splits
<1> HIDE DEF R
<1>3. /\ R[N][<<r, p>>] = D[N][<<p, r>>] /\ R[z][<<r, z>>] = D[z][<<z, r>>] /\ R[z][<<z, p>>] = D[z][<<p, z>>]
      /\ R[z][<<r, p>>] = D[z][<<p, r>>]
  BY <1>1, <1>2
<1>4. D[z][<<p, z>>] \in Nat /\ D[z][<<z, r>>] \in Nat
  BY <1>2, LengthLaws
<1> QED BY <1>3, <1>4 DEF Splits, Adjacent, R

(* Both parts of a piece that is split are pieces, and their lengths add   *)
(* up.                                                                     *)
LEMMA SplitPieces ==
    ASSUME NEW D, Lengths(D, Inf), NEW p, NEW z, NEW r, Splits(D, p, z, r)
    PROVE  /\ Piece(D, p, z) /\ Piece(D, z, r) /\ Between(D, p, z, r)
           /\ D[N][<<p, z>>] = D[z][<<p, z>>] /\ D[N][<<z, r>>] = D[z][<<z, r>>]
<1>1. /\ p \in Nodes /\ r \in Nodes /\ z \in Nodes /\ z \in 0 .. N /\ N \in 0 .. N
      /\ p \in Nat /\ r \in Nat /\ z \in Nat /\ z < p /\ z < r
  BY NodesAreLevels DEF Splits
<1>2. /\ D[z][<<p, z>>] \in Nat /\ D[z][<<z, r>>] \in Nat /\ D[N][<<p, z>>] \in Nat /\ D[N][<<z, r>>] \in Nat
      /\ D[N][<<p, r>>] \in Nat /\ D[z][<<p, r>>] \in Nat /\ D[z][<<p, r>>] <= Inf
  BY <1>1, LengthLaws
<1>3. D[N][<<p, z>>] <= D[z][<<p, z>>] /\ D[N][<<z, r>>] <= D[z][<<z, r>>]
  BY <1>1, LengthLaws
<1>4. D[N][<<p, r>>] <= D[N][<<p, z>>] + D[N][<<z, r>>]
  BY <1>1, LengthLaws
<1>5. D[N][<<p, z>>] = D[z][<<p, z>>] /\ D[N][<<z, r>>] = D[z][<<z, r>>] /\ D[N][<<p, z>>] < Inf /\ D[N][<<z, r>>] < Inf
  BY <1>2, <1>3, <1>4, InfAssumption DEF Splits
<1> QED BY <1>1, <1>5 DEF Splits, Piece, Between

(* Paths that reach the piece, and go on to its lower node.                *)
LEMMA SplitBefore ==
    ASSUME NEW D, Lengths(D, Inf), NEW p, NEW z, NEW r, Splits(D, p, z, r), NEW a \in Nodes, Between(D, a, p, r)
    PROVE  /\ D[N][<<a, z>>] = D[N][<<a, p>>] + D[N][<<p, z>>]
           /\ D[N][<<a, r>>] = D[N][<<a, z>>] + D[N][<<z, r>>]
           /\ Between(D, a, p, z) /\ Between(D, a, z, r)
           /\ \A b \in Nodes : D[N][<<a, p>>] = D[N][<<a, b>>] + D[N][<<b, p>>] /\ Between(D, a, b, r) /\ Between(D, b, p, r)
                  => Between(D, a, b, z)
<1>1. /\ p \in Nodes /\ r \in Nodes /\ z \in Nodes /\ z \in 0 .. N /\ N \in 0 .. N /\ p \in 0 .. N
      /\ p \in Nat /\ r \in Nat /\ z \in Nat /\ z < p /\ z < r
  BY NodesAreLevels DEF Splits
<1>6. D[N][<<p, z>>] = D[z][<<p, z>>] /\ D[N][<<z, r>>] = D[z][<<z, r>>]
  BY SplitPieces
<1> DEFINE d == D[N]
<1>2. d[<<p, r>>] = d[<<p, z>>] + d[<<z, r>>]
  BY <1>6 DEF Splits
<1>3. d[<<a, r>>] = d[<<a, p>>] + d[<<p, r>>]
  BY DEF Between
<1>4. \A v, w \in Nodes : d[<<v, w>>] \in Nat
  BY <1>1, LengthLaws
<1>5. \A u, v, w \in Nodes : d[<<u, w>>] <= d[<<u, v>>] + d[<<v, w>>]
  BY LengthLaws
<1> HIDE DEF d
<1>7. /\ d[<<a, z>>] <= d[<<a, p>>] + d[<<p, z>>] /\ d[<<a, r>>] <= d[<<a, z>>] + d[<<z, r>>]
      /\ d[<<a, z>>] \in Nat /\ d[<<a, p>>] \in Nat /\ d[<<p, z>>] \in Nat /\ d[<<z, r>>] \in Nat /\ d[<<a, r>>] \in Nat
      /\ d[<<p, r>>] \in Nat
  BY <1>1, <1>4, <1>5
<1>8. d[<<a, z>>] = d[<<a, p>>] + d[<<p, z>>] /\ d[<<a, r>>] = d[<<a, z>>] + d[<<z, r>>]
  BY <1>2, <1>3, <1>7
<1>9. ASSUME NEW h \in 0 .. N, z < h, D[h][<<a, z>>] = d[<<a, z>>] PROVE D[h][<<a, r>>] <= d[<<a, r>>]
  <2>1. z \in 0 .. h - 1 /\ z \in 0 .. h
    BY <1>1, <1>9
  <2>2. D[h][<<a, r>>] <= D[h][<<a, z>>] + D[h][<<z, r>>] /\ D[h][<<z, r>>] <= D[z][<<z, r>>]
    BY <1>1, <2>1, LengthLaws
  <2>3. D[h][<<a, r>>] \in Nat /\ D[h][<<z, r>>] \in Nat /\ D[z][<<z, r>>] \in Nat
    BY <1>1, LengthLaws
  <2> QED BY <1>1, <1>6, <1>7, <1>8, <1>9, <2>2, <2>3 DEF d
<1>10. \A h \in 0 .. N : /\ D[h][<<a, z>>] \in Nat /\ d[<<a, z>>] <= D[h][<<a, z>>]
                         /\ D[h][<<a, r>>] \in Nat /\ d[<<a, r>>] <= D[h][<<a, r>>]
  BY <1>1, LengthLaws DEF d
<1>11. d[<<a, r>>] < D[p][<<a, r>>]
  BY DEF Between, d
<1>12. d[<<a, z>>] < D[p][<<a, z>>]
  <2>1. D[p][<<a, z>>] # d[<<a, z>>]
    BY <1>1, <1>7, <1>9, <1>10, <1>11
  <2> QED BY <1>1, <1>7, <1>10, <2>1
<1>13. d[<<a, r>>] < D[z][<<a, r>>]
  <2>1. D[p][<<a, r>>] <= D[z][<<a, r>>]
    <3>1. z \in 0 .. p
      BY <1>1
    <3> QED BY <1>1, <3>1, LengthLaws
  <2> QED BY <1>1, <1>7, <1>10, <1>11, <2>1
<1>14. ASSUME NEW b \in Nodes, d[<<a, p>>] = d[<<a, b>>] + d[<<b, p>>], Between(D, a, b, r), Between(D, b, p, r)
       PROVE  Between(D, a, b, z)
  <2>1. d[<<a, r>>] < D[b][<<a, r>>] /\ d[<<b, r>>] = d[<<b, p>>] + d[<<p, r>>] /\ d[<<a, r>>] = d[<<a, b>>] + d[<<b, r>>]
    BY <1>14 DEF Between, d
  <2>2. /\ d[<<b, z>>] <= d[<<b, p>>] + d[<<p, z>>] /\ d[<<a, z>>] <= d[<<a, b>>] + d[<<b, z>>]
        /\ d[<<b, z>>] \in Nat /\ d[<<a, b>>] \in Nat /\ d[<<b, p>>] \in Nat /\ d[<<b, r>>] \in Nat
    BY <1>1, <1>4, <1>5
  <2>3. d[<<a, z>>] = d[<<a, b>>] + d[<<b, z>>]
    BY <1>7, <1>8, <1>14, <2>2
  <2>4. b \in 0 .. N /\ b \in Nat
    BY NodesAreLevels
  <2>5. D[b][<<a, z>>] # d[<<a, z>>]
    <3> SUFFICES ASSUME D[b][<<a, z>>] = d[<<a, z>>] PROVE FALSE
      OBVIOUS
    <3>1. CASE z < b
      <4>1. D[b][<<a, r>>] <= d[<<a, r>>]
        BY <1>9, <2>4, <3>1
      <4> QED BY <1>7, <1>10, <2>1, <2>4, <4>1
    <3>2. CASE ~(z < b)
      <4>1. b \in 0 .. p
        BY <1>1, <2>4, <3>2
      <4>2. D[p][<<a, z>>] <= D[b][<<a, z>>]
        BY <1>1, <4>1, LengthLaws
      <4> QED BY <1>1, <1>7, <1>10, <1>12, <2>4, <4>2
    <3> QED BY <3>1, <3>2
  <2>6. d[<<a, z>>] < D[b][<<a, z>>]
    BY <1>7, <1>10, <2>4, <2>5
  <2> QED BY <2>3, <2>6 DEF Between, d
<1> QED BY <1>8, <1>12, <1>13, <1>14 DEF Between, d

(* The same after the piece.                                               *)
LEMMA SplitAfter ==
    ASSUME NEW D, Lengths(D, Inf), NEW p, NEW z, NEW r, Splits(D, p, z, r), NEW c \in Nodes, Between(D, p, r, c)
    PROVE  /\ Between(D, z, r, c) /\ Between(D, p, z, c)
           /\ \A b \in Nodes : D[N][<<r, c>>] = D[N][<<r, b>>] + D[N][<<b, c>>] /\ Between(D, p, b, c) /\ Between(D, p, r, b)
                  => Between(D, z, b, c)
<1> DEFINE R == Reversed(D)
<1>1. Lengths(R, Inf) /\ \A h \in 0 .. N : \A v, w \in Nodes : R[h][<<v, w>>] = D[h][<<w, v>>]
  BY ReversedLengths, InfAssumption
<1>2. p \in Nodes /\ r \in Nodes /\ z \in Nodes /\ N \in 0 .. N
  BY NodesAreLevels DEF Splits
<1>3. \A u, v, w \in Nodes : Between(R, u, v, w) <=> Between(D, w, v, u)
  BY PiecesReversed
<1>4. Splits(R, r, z, p)
  BY SplitsReversed
<1> HIDE DEF R
<1>5. Between(R, c, r, p)
  BY <1>2, <1>3
<1>6. /\ Between(R, c, r, z) /\ Between(R, c, z, p)
      /\ \A b \in Nodes : R[N][<<c, r>>] = R[N][<<c, b>>] + R[N][<<b, r>>] /\ Between(R, c, b, p) /\ Between(R, b, r, p)
             => Between(R, c, b, z)
  BY <1>1, <1>4, <1>5, SplitBefore
<1>7. ASSUME NEW b \in Nodes, D[N][<<r, c>>] = D[N][<<r, b>>] + D[N][<<b, c>>], Between(D, p, b, c), Between(D, p, r, b)
      PROVE  Between(D, z, b, c)
  <2>1. D[N][<<r, b>>] \in Nat /\ D[N][<<b, c>>] \in Nat
    BY <1>2, LengthLaws
  <2>2. R[N][<<c, r>>] = R[N][<<c, b>>] + R[N][<<b, r>>]
    BY <1>1, <1>2, <1>7, <2>1
  <2>3. Between(R, c, b, p) /\ Between(R, b, r, p)
    BY <1>2, <1>3, <1>7
  <2> QED BY <1>2, <1>3, <1>6, <2>2, <2>3
<1> QED BY <1>2, <1>3, <1>6, <1>7

(* A node that is lower than all between which it is put.                  *)
LEMMA SplitWithin ==
    ASSUME NEW D, Lengths(D, Inf), NEW p, NEW z, NEW r, Splits(D, p, z, r), NEW a \in Nodes, NEW c \in Nodes,
           Between(D, a, p, r), Between(D, p, r, c), Between(D, a, p, c)
    PROVE  Between(D, a, z, c)
<1>1. /\ p \in Nodes /\ r \in Nodes /\ z \in Nodes /\ z \in 0 .. N /\ N \in 0 .. N /\ p \in 0 .. N
      /\ p \in Nat /\ z \in Nat /\ z < p /\ z \in 0 .. p
  BY NodesAreLevels DEF Splits
<1>2. Between(D, a, p, z)
  BY SplitBefore
<1>3. Between(D, p, z, c)
  BY SplitAfter
<1>4. D[p][<<a, c>>] <= D[z][<<a, c>>]
  BY <1>1, LengthLaws
<1>5. /\ D[N][<<a, p>>] \in Nat /\ D[N][<<p, z>>] \in Nat /\ D[N][<<z, c>>] \in Nat /\ D[N][<<a, c>>] \in Nat
      /\ D[p][<<a, c>>] \in Nat /\ D[z][<<a, c>>] \in Nat
  BY <1>1, LengthLaws
<1>6. D[N][<<a, c>>] = D[N][<<a, z>>] + D[N][<<z, c>>]
  BY <1>1, <1>2, <1>3, <1>5 DEF Between
<1>7. D[N][<<a, c>>] < D[z][<<a, c>>]
  BY <1>4, <1>5 DEF Between
<1> QED BY <1>6, <1>7 DEF Between

(* A path with a node put in after the index i.                            *)
Insert(P, k, i, z) == [n \in 0 .. k + 1 |-> IF n <= i THEN P[n] ELSE IF n = i + 1 THEN z ELSE P[n - 1]]

(* The lower node of the triangle of a piece can be put between its ends:  *)
(* where the path was tight it is so again.                                *)
LEMMA InsertKeepsTight ==
    ASSUME NEW D, Lengths(D, Inf), NEW P, NEW k, Tight(D, P, k), NEW i \in 0 .. k - 1, NEW z, Splits(D, P[i], z, P[i + 1])
    PROVE  Tight(D, Insert(P, k, i, z), k + 1)
<1> DEFINE Q == Insert(P, k, i, z)
           p == P[i]
           r == P[i + 1]
<1>1. k \in Nat /\ P \in [0 .. k -> Nodes] /\ i \in 0 .. k /\ i + 1 \in 0 .. k /\ i \in Nat
  BY DEF Tight
<1>2. p \in Nodes /\ r \in Nodes /\ z \in Nodes
  BY DEF Splits
<1>3. ASSUME NEW n \in 0 .. k + 1
      PROVE  /\ n <= i => n \in 0 .. k /\ Q[n] = P[n]
             /\ n = i + 1 => Q[n] = z
             /\ i + 1 < n => n - 1 \in 0 .. k /\ Q[n] = P[n - 1] /\ i < n - 1
  BY <1>1 DEF Insert
<1>4. Q \in [0 .. k + 1 -> Nodes]
  <2>1. \A n \in 0 .. k + 1 : Q[n] \in Nodes
    <3> SUFFICES ASSUME NEW n \in 0 .. k + 1 PROVE Q[n] \in Nodes
      OBVIOUS
    <3> HIDE DEF Q
    <3>1. n <= i \/ n = i + 1 \/ i + 1 < n
      BY <1>1
    <3> QED BY <1>1, <1>2, <1>3, <3>1
  <2>2. DOMAIN Q = 0 .. k + 1 /\ Q = [n \in 0 .. k + 1 |-> Q[n]]
    BY DEF Insert
  <2> HIDE DEF Q
  <2> QED BY <2>1, <2>2
<1>5. \A a, b, c \in 0 .. k : a < b /\ b < c => Between(D, P[a], P[b], P[c])
  BY DEF Tight
<1>6. Piece(D, p, z) /\ Piece(D, z, r) /\ Between(D, p, z, r) /\ Splits(D, p, z, r)
  BY SplitPieces
<1>7. \A n \in 0 .. k - 1 : Piece(D, P[n], P[n + 1])
  BY DEF Tight
<1> HIDE DEF Q, p, r
<1>8. ASSUME NEW n \in 0 .. (k + 1) - 1 PROVE Piece(D, Q[n], Q[n + 1])
  <2>1. n \in 0 .. k + 1 /\ n + 1 \in 0 .. k + 1
    BY <1>1
  <2>2. CASE n < i
    <3>1. n + 1 <= i /\ n \in 0 .. k - 1 /\ n <= i
      BY <1>1, <2>2
    <3> QED BY <1>3, <1>7, <2>1, <3>1
  <2>3. CASE n = i
    BY <1>1, <1>3, <1>6, <2>1, <2>3 DEF p
  <2>4. CASE n = i + 1
    <3>1. i + 1 < n + 1 /\ (n + 1) - 1 = i + 1
      BY <1>1, <2>4
    <3>2. Q[n + 1] = P[(n + 1) - 1] /\ Q[n] = z
      BY <1>3, <2>1, <2>4, <3>1
    <3> QED BY <1>6, <3>1, <3>2 DEF r
  <2>5. CASE i + 1 < n
    <3>1. i + 1 < n + 1 /\ (n + 1) - 1 = (n - 1) + 1 /\ n - 1 \in 0 .. k - 1
      BY <1>1, <2>5
    <3>2. Q[n + 1] = P[(n + 1) - 1] /\ Q[n] = P[n - 1]
      BY <1>3, <2>1, <2>5, <3>1
    <3> QED BY <1>7, <3>1, <3>2
  <2> QED BY <1>1, <2>1, <2>2, <2>3, <2>4, <2>5
<1> DEFINE old == [n \in 0 .. k + 1 |-> IF n <= i THEN n ELSE n - 1]
<1>9. ASSUME NEW n \in 0 .. k + 1, n # i + 1
      PROVE  /\ old[n] \in 0 .. k /\ Q[n] = P[old[n]]
             /\ n <= i => old[n] <= i
             /\ i + 1 < n => i + 1 <= old[n]
  BY <1>1, <1>3, <1>9
<1>10. ASSUME NEW a \in 0 .. k + 1, NEW b \in 0 .. k + 1, a < b, a # i + 1, b # i + 1
       PROVE  old[a] < old[b]
  BY <1>1, <1>10
<1> HIDE DEF old
<1>11. ASSUME NEW a \in 0 .. k, a < i PROVE Between(D, P[a], p, r)
  <2>1. i < i + 1
    BY <1>1
  <2> QED BY <1>1, <1>5, <1>11, <2>1 DEF p, r
<1>12. ASSUME NEW c \in 0 .. k, i + 1 < c PROVE Between(D, p, r, P[c])
  <2>1. i < i + 1
    BY <1>1
  <2> QED BY <1>1, <1>5, <1>12, <2>1 DEF p, r
<1>13. ASSUME NEW a \in 0 .. i, NEW c \in i + 1 .. k PROVE Between(D, P[a], z, P[c])
  <2>1. a \in 0 .. k /\ c \in 0 .. k /\ P[a] \in Nodes /\ P[c] \in Nodes
    BY <1>1
  <2>2. CASE a = i /\ c = i + 1
    BY <1>6, <2>2 DEF p, r
  <2>3. CASE a < i /\ c = i + 1
    <3>1. Between(D, P[a], p, r)
      BY <1>11, <2>1, <2>3
    <3> QED BY <1>6, <2>1, <2>3, <3>1, SplitBefore DEF r
  <2>4. CASE a = i /\ i + 1 < c
    <3>1. Between(D, p, r, P[c])
      BY <1>12, <2>1, <2>4
    <3> QED BY <1>6, <2>1, <2>4, <3>1, SplitAfter DEF p
  <2>5. CASE a < i /\ i + 1 < c
    <3>1. Between(D, P[a], p, r) /\ Between(D, p, r, P[c])
      BY <1>11, <1>12, <2>1, <2>5
    <3>2. Between(D, P[a], p, P[c])
      <4>1. i < c
        BY <1>1, <2>5
      <4> QED BY <1>1, <1>5, <2>1, <2>5, <4>1 DEF p
    <3> QED BY <1>6, <2>1, <3>1, <3>2, SplitWithin
  <2> QED BY <1>1, <2>2, <2>3, <2>4, <2>5
<1>14. ASSUME NEW a \in 0 .. i, NEW b \in 0 .. i, a < b PROVE Between(D, P[a], P[b], z)
  <2>1. a \in 0 .. k /\ b \in 0 .. k /\ P[a] \in Nodes /\ P[b] \in Nodes /\ a < i
    BY <1>1, <1>14
  <2>2. Between(D, P[a], p, r)
    BY <1>11, <2>1
  <2>3. CASE b = i
    BY <1>6, <2>1, <2>2, <2>3, SplitBefore DEF p
  <2>4. CASE b < i
    <3>1. Between(D, P[b], p, r)
      BY <1>11, <2>1, <2>4
    <3>2. Between(D, P[a], P[b], r) /\ Between(D, P[a], P[b], p)
      <4>1. b < i + 1
        BY <1>1, <2>4
      <4> QED BY <1>1, <1>5, <1>14, <2>1, <2>4, <4>1 DEF p, r
    <3>3. D[N][<<P[a], p>>] = D[N][<<P[a], P[b]>>] + D[N][<<P[b], p>>]
      BY <3>2 DEF Between
    <3>4. \A x \in Nodes : D[N][<<P[a], p>>] = D[N][<<P[a], x>>] + D[N][<<x, p>>] /\ Between(D, P[a], x, r) /\ Between(D, x, p, r)
                            => Between(D, P[a], x, z)
      BY <1>6, <2>1, <2>2, SplitBefore
    <3> QED BY <2>1, <3>1, <3>2, <3>3, <3>4
  <2> QED BY <1>1, <2>3, <2>4
<1>15. ASSUME NEW b \in i + 1 .. k, NEW c \in i + 1 .. k, b < c PROVE Between(D, z, P[b], P[c])
  <2>1. b \in 0 .. k /\ c \in 0 .. k /\ P[b] \in Nodes /\ P[c] \in Nodes /\ i + 1 < c
    BY <1>1, <1>15
  <2>2. Between(D, p, r, P[c])
    BY <1>12, <2>1
  <2>3. CASE b = i + 1
    BY <1>6, <2>1, <2>2, <2>3, SplitAfter DEF r
  <2>4. CASE i + 1 < b
    <3>1. Between(D, p, r, P[b])
      BY <1>12, <2>1, <2>4
    <3>2. Between(D, p, P[b], P[c]) /\ Between(D, r, P[b], P[c])
      <4>1. i < b
        BY <1>1, <2>4
      <4> QED BY <1>1, <1>5, <1>15, <2>1, <2>4, <4>1 DEF p, r
    <3>3. D[N][<<r, P[c]>>] = D[N][<<r, P[b]>>] + D[N][<<P[b], P[c]>>]
      BY <3>2 DEF Between
    <3>4. \A x \in Nodes : D[N][<<r, P[c]>>] = D[N][<<r, x>>] + D[N][<<x, P[c]>>] /\ Between(D, p, x, P[c]) /\ Between(D, p, r, x)
                            => Between(D, z, x, P[c])
      BY <1>6, <2>1, <2>2, SplitAfter
    <3> QED BY <2>1, <3>1, <3>2, <3>3, <3>4
  <2> QED BY <1>1, <2>1, <2>3, <2>4
<1>16. ASSUME NEW a \in 0 .. k + 1, NEW b \in 0 .. k + 1, NEW c \in 0 .. k + 1, a < b, b < c
       PROVE  Between(D, Q[a], Q[b], Q[c])
  <2>1. CASE a # i + 1 /\ b # i + 1 /\ c # i + 1
    BY <1>5, <1>9, <1>10, <1>16, <2>1
  <2>2. CASE b = i + 1
    <3>1. a # i + 1 /\ c # i + 1 /\ a <= i /\ i + 1 < c
      BY <1>1, <1>16, <2>2
    <3>2. old[a] \in 0 .. i /\ old[c] \in i + 1 .. k
      BY <1>1, <1>9, <3>1
    <3> QED BY <1>3, <1>9, <1>13, <2>2, <3>1, <3>2
  <2>3. CASE c = i + 1
    <3>1. a # i + 1 /\ b # i + 1 /\ a <= i /\ b <= i
      BY <1>1, <1>16, <2>3
    <3>2. old[a] \in 0 .. i /\ old[b] \in 0 .. i
      BY <1>1, <1>9, <3>1
    <3> QED BY <1>3, <1>9, <1>10, <1>14, <1>16, <2>3, <3>1, <3>2
  <2>4. CASE a = i + 1
    <3>1. b # i + 1 /\ c # i + 1 /\ i + 1 < b /\ i + 1 < c
      BY <1>1, <1>16, <2>4
    <3>2. old[b] \in i + 1 .. k /\ old[c] \in i + 1 .. k
      BY <1>1, <1>9, <3>1
    <3> QED BY <1>3, <1>9, <1>10, <1>15, <1>16, <2>4, <3>1, <3>2
  <2> QED BY <2>1, <2>2, <2>3, <2>4
<1>17. k + 1 \in Nat
  BY <1>1
<1>18. Tight(D, Q, k + 1)
  BY <1>4, <1>8, <1>16, <1>17 DEF Tight
<1> QED BY <1>18 DEF Q

(* The nodes of a path are different.                                      *)
LEMMA TightIsSimple ==
    ASSUME NEW D, Lengths(D, Inf), NEW P, NEW k, Tight(D, P, k)
    PROVE  \A i, j \in 0 .. k : i < j => P[i] # P[j]
<1> SUFFICES ASSUME NEW i \in 0 .. k, NEW j \in 0 .. k, i < j, P[i] = P[j] PROVE FALSE
  OBVIOUS
<1>1. k \in Nat /\ P \in [0 .. k -> Nodes] /\ i + 1 \in 0 .. k /\ i \in 0 .. k - 1 /\ i < i + 1
  BY DEF Tight
<1>2. CASE j = i + 1
  <2>1. Piece(D, P[i], P[i + 1])
    BY <1>1 DEF Tight
  <2>2. P[i] \in Graph[P[i]]
    BY <1>2, <2>1 DEF Piece, Adjacent
  <2>3. P[i] \in Nodes
    BY <1>1
  <2>4. P[i] < P[i] /\ P[i] \in Nat
    BY <2>2, <2>3, NodesAreNat, GraphAssumption
  <2> QED BY <2>4
<1>3. CASE i + 1 < j
  <2>1. Between(D, P[i], P[i + 1], P[j])
    BY <1>1, <1>3 DEF Tight
  <2>2. P[i] \in Nodes /\ P[i + 1] \in 0 .. N /\ N \in 0 .. N
    BY <1>1, NodesAreLevels
  <2>3. D[N][<<P[i], P[i]>>] = 0 /\ D[P[i + 1]][<<P[i], P[i]>>] = 0
    BY <2>2, LengthLaws
  <2> QED BY <2>1, <2>3 DEF Between
<1> QED BY <1>1, <1>2, <1>3

(* A tight path is tight in the other direction.                           *)
LEMMA TightReversed ==
    ASSUME NEW D, Lengths(D, Inf), NEW P, NEW k, Tight(Reversed(D), P, k)
    PROVE  Tight(D, [n \in 0 .. k |-> P[k - n]], k)
<1> DEFINE R == Reversed(D)
           Q == [n \in 0 .. k |-> P[k - n]]
<1>1. k \in Nat /\ P \in [0 .. k -> Nodes] /\ \A n \in 0 .. k : k - n \in 0 .. k
  BY DEF Tight
<1>2. \A a, b, c \in Nodes : (Piece(R, a, b) <=> Piece(D, b, a)) /\ (Between(R, a, b, c) <=> Between(D, c, b, a))
  BY PiecesReversed
<1> HIDE DEF R
<1>3. Q \in [0 .. k -> Nodes]
  BY <1>1
<1>4. ASSUME NEW n \in 0 .. k - 1 PROVE Piece(D, Q[n], Q[n + 1])
  <2>1. /\ k - (n + 1) \in 0 .. k - 1 /\ (k - (n + 1)) + 1 = k - n /\ k - (n + 1) \in 0 .. k
        /\ n \in 0 .. k /\ n + 1 \in 0 .. k
    BY <1>1
  <2>2. Piece(R, P[k - (n + 1)], P[k - n])
    BY <2>1 DEF Tight, R
  <2> QED BY <1>1, <1>2, <2>1, <2>2
<1>5. ASSUME NEW a \in 0 .. k, NEW b \in 0 .. k, NEW c \in 0 .. k, a < b, b < c PROVE Between(D, Q[a], Q[b], Q[c])
  <2>1. k - c < k - b /\ k - b < k - a
    BY <1>1, <1>5
  <2>2. Between(R, P[k - c], P[k - b], P[k - a])
    BY <1>1, <2>1 DEF Tight, R
  <2> QED BY <1>1, <1>2, <2>2
<1> HIDE DEF Q
<1>6. Tight(D, Q, k)
  BY <1>1, <1>3, <1>4, <1>5 DEF Tight
<1> QED BY <1>6 DEF Q

-----------------------------------------------------------------------------
(* What an edge unpacks to is an arc of the metric or splits its piece.    *)

(* The lowest triangle over which an edge has its weight.                  *)
Alternatives(D, x, v) ==
    {z \in Nodes : x \in Graph[z] /\ v \in Graph[z] /\ D[z][<<x, z>>] + D[z][<<z, v>>] = D[x][<<x, v>>]}

(* The lowest of the alternatives is one of them, and no other is lower.   *)
LEMMA LowestAlternative ==
    ASSUME NEW D, Lengths(D, Inf), OnEdges(Graph, D, Inf), NEW x \in Nodes, NEW v \in Graph[x],
           D[x][<<x, v>>] < Inf, D[x][<<x, v>>] # D[0][<<x, v>>]
    PROVE  LET z == Lowest(Alternatives(D, x, v))
           IN  z \in Alternatives(D, x, v) /\ D[x][<<x, v>>] < D[z][<<x, v>>]
<1> DEFINE S == Alternatives(D, x, v)
           z == Lowest(S)
<1>1. v \in Nodes /\ x < v /\ x \in 0 .. N /\ x \in Nat /\ v \in Nat /\ Inf \in Nat
  BY NodesAreLevels, GraphAssumption, InfAssumption DEF Graphs
<1>2. S # {}
  <2>1. LeastOver(D, Graph, x, v)
    BY <1>1, OverTriangles, GraphUpwards
  <2>2. PICK y \in Nodes : x \in Graph[y] /\ v \in Graph[y] /\ D[x][<<x, v>>] = D[y][<<x, y>>] + D[y][<<y, v>>]
    BY <2>1 DEF LeastOver
  <2> QED BY <2>2 DEF Alternatives
<1>3. S \in SUBSET Nat
  BY NodesAreLevels DEF Alternatives
<1>4. z \in S /\ \A y \in S : z <= y
  <2> HIDE DEF S
  <2> QED BY <1>2, <1>3, LowestIsLeast
<1> HIDE DEF z
<1>5. z \in Nodes /\ x \in Graph[z] /\ z < x /\ z < v /\ z \in 0 .. N /\ z \in 0 .. x /\ z \in Nat
  <2>1. z \in Nodes /\ x \in Graph[z]
    BY <1>4 DEF Alternatives
  <2>2. z < x /\ z \in Nat
    BY <2>1, GraphAssumption, NodesAreLevels
  <2> QED BY <1>1, <2>1, <2>2, NodesAreLevels
<1>6. D[x][<<x, v>>] \in Nat /\ D[z][<<x, v>>] \in Nat /\ D[x][<<x, v>>] <= D[z][<<x, v>>]
  BY <1>1, <1>5, LengthLaws
<1>7. D[z][<<x, v>>] # D[x][<<x, v>>]
  <2> SUFFICES ASSUME D[z][<<x, v>>] = D[x][<<x, v>>] PROVE FALSE
    OBVIOUS
  <2>1. PICK y \in 0 .. z - 1 : D[z][<<x, v>>] = D[y][<<x, y>>] + D[y][<<y, v>>]
    <3>1. D[z][<<x, v>>] = D[0][<<x, v>>] \/ Over(D, z, x, v)
      BY <1>1, <1>5, Composed
    <3> QED BY <3>1 DEF Over
  <2>2. y \in Nodes /\ y \in Nat /\ y < z /\ y \in 0 .. N /\ y < x /\ y < v
    BY <1>1, <1>5, NodesAreLevels
  <2>3. D[y][<<x, y>>] \in Nat /\ D[y][<<y, v>>] \in Nat
    BY <1>1, <2>2, LengthLaws
  <2>4. D[y][<<x, y>>] < Inf /\ D[y][<<y, v>>] < Inf
    BY <1>1, <1>6, <2>1, <2>3
  <2>5. Adjacent(Graph, x, y) /\ Adjacent(Graph, y, v)
    <3>1. \A a, b \in Nodes : y <= a /\ y <= b /\ a # b /\ D[y][<<a, b>>] < Inf => Adjacent(Graph, a, b)
      BY <1>1, <2>2, EndsAreAdjacent, GraphUpwards
    <3> QED BY <1>1, <2>2, <2>4, <3>1
  <2>6. x \in Graph[y] /\ v \in Graph[y]
    BY <1>1, <2>2, <2>5, GraphAssumption DEF Adjacent
  <2>7. y \in S
    BY <2>1, <2>2, <2>6 DEF Alternatives
  <2> QED BY <1>4, <1>5, <2>2, <2>7
<1>8. z \in S /\ D[x][<<x, v>>] < D[z][<<x, v>>]
  BY <1>4, <1>6, <1>7
<1> QED BY <1>8 DEF z

(* The lightest arc between two nodes has their distance as its weight.    *)
HasArc(m, D, a, b) == m[<<a, b>>] # {} /\ Lowest(m[<<a, b>>]) = D[N][<<a, b>>]

(* A length that is that of the lightest arc or INFINITY, and is not       *)
(* INFINITY, has such an arc.                                              *)
LEMMA LightestArc ==
    ASSUME NEW m \in Metrics, NEW a \in Nodes, NEW b \in Nodes, NEW D,
           D[N][<<a, b>>] = Lowest(m[<<a, b>>] \cup {Inf}), D[N][<<a, b>>] < Inf
    PROVE  HasArc(m, D, a, b)
<1> DEFINE S == m[<<a, b>>]
<1>1. S \in SUBSET Nat /\ Inf \in Nat
  BY MetricsAssumption, InfAssumption DEF Metric, Weight
<1> HIDE DEF S
<1> DEFINE least == Lowest(S \cup {Inf})
<1>2. least \in S \cup {Inf} /\ \A x \in S \cup {Inf} : least <= x
  <2>1. S \cup {Inf} \in SUBSET Nat /\ S \cup {Inf} # {}
    BY <1>1
  <2> QED BY <2>1, LowestIsLeast
<1>3. least < Inf /\ least = D[N][<<a, b>>]
  BY DEF S
<1> HIDE DEF least
<1>4. least \in S /\ \A x \in S : least <= x
  BY <1>1, <1>2, <1>3
<1>5. Lowest(S) \in S /\ \A x \in S : Lowest(S) <= x
  BY <1>1, <1>4, LowestIsLeast
<1>6. Lowest(S) = least
  <2>1. Lowest(S) <= least /\ least <= Lowest(S) /\ least \in Nat /\ Lowest(S) \in Nat
    BY <1>1, <1>4, <1>5
  <2> QED BY <2>1
<1> QED BY <1>3, <1>4, <1>6 DEF HasArc, S

(* unpack_outgoing and unpack_incoming: an arc, or the lowest triangle.    *)
LEMMA MiddleSplits ==
    ASSUME NEW m \in Metrics, NEW c \in {Basic(m), Perfect(m)}, NEW a, NEW b, Piece(DistancesBelow(m), a, b)
    PROVE  LET z == Middle(c, a, b)
           IN  IF z = None THEN HasArc(m, DistancesBelow(m), a, b) ELSE Splits(DistancesBelow(m), a, z, b)
<1> DEFINE D == DistancesBelow(m)
           R == Reversed(D)
           z == Middle(c, a, b)
<1>1. /\ Lengths(D, Inf) /\ OnEdges(Graph, D, Inf)
      /\ \A v, w \in Nodes : v # w => D[0][<<v, w>>] = Lowest(m[<<v, w>>] \cup {Inf})
  BY DistancesAreLengths
<1>2. Lengths(R, Inf) /\ \A h \in 0 .. N : \A v, w \in Nodes : R[h][<<v, w>>] = D[h][<<w, v>>]
  BY <1>1, ReversedLengths, InfAssumption
<1>3. OnEdges(Graph, R, Inf)
  BY <1>1, ReversedOnEdges, InfAssumption
<1>4. c.upVia = BasicUpVia(m) /\ c.downVia = BasicDownVia(m)
  <2>1. Basic(m).upVia = BasicUpVia(m) /\ Basic(m).downVia = BasicDownVia(m)
    BY DEF Basic
  <2>2. Perfect(m).upVia = Basic(m).upVia /\ Perfect(m).downVia = Basic(m).downVia
    BY DEF Basic, Perfect
  <2> QED BY <2>1, <2>2
<1>5. \A e \in Edges : BasicUp(m)[e] = D[e[1]][e] /\ BasicDown(m)[e] = D[e[1]][<<e[2], e[1]>>]
  BY DEF BasicUp, BasicDown
<1>6. /\ \A e \in Edges : RespectUp(m)[e] = Lowest(m[e] \cup {Inf}) /\ RespectDown(m)[e] = Lowest(m[<<e[2], e[1]>>] \cup {Inf})
      /\ \A e \in Edges : BasicUpVia(m)[e] =
             IF BasicUp(m)[e] = RespectUp(m)[e] THEN None
             ELSE Lowest({y \in Triangles(e) : BasicDown(m)[<<y, e[1]>>] + BasicUp(m)[<<y, e[2]>>] = BasicUp(m)[e]})
      /\ \A e \in Edges : BasicDownVia(m)[e] =
             IF BasicDown(m)[e] = RespectDown(m)[e] THEN None
             ELSE Lowest({y \in Triangles(e) : BasicDown(m)[<<y, e[2]>>] + BasicUp(m)[<<y, e[1]>>] = BasicDown(m)[e]})
  BY DEF RespectUp, RespectDown, BasicUpVia, BasicDownVia
<1>7. /\ a \in Nodes /\ b \in Nodes /\ Adjacent(Graph, a, b) /\ D[N][<<a, b>>] < Inf
      /\ D[IF a < b THEN a ELSE b][<<a, b>>] = D[N][<<a, b>>] /\ a \in Nat /\ b \in Nat
  BY NodesAreNat DEF Piece
<1>8. Nodes \subseteq 0 .. N /\ Nodes \subseteq Nat /\ 0 \in 0 .. N /\ N \in 0 .. N /\ None \notin Nodes
  BY NodesAreLevels, NoneIsNoNode
<1>9. \A x, v \in Nodes : v \in Graph[x] => <<x, v>> \in Edges /\ x < v
  BY GraphAssumption DEF Edges
<1>10. ASSUME NEW x \in Nodes, NEW v \in Graph[x], NEW y \in Nodes
       PROVE  /\ (y \in Triangles(<<x, v>>) <=> x \in Graph[y] /\ v \in Graph[y])
              /\ y \in Triangles(<<x, v>>) =>
                     /\ BasicUp(m)[<<y, x>>] = D[y][<<y, x>>] /\ BasicUp(m)[<<y, v>>] = D[y][<<y, v>>]
                     /\ BasicDown(m)[<<y, x>>] = D[y][<<x, y>>] /\ BasicDown(m)[<<y, v>>] = D[y][<<v, y>>]
  <2>1. v \in Nodes
    BY GraphAssumption DEF Graphs
  <2>2. y \in Triangles(<<x, v>>) <=> x \in Graph[y] /\ v \in Graph[y]
    BY DEF Triangles, Below
  <2>3. y \in Triangles(<<x, v>>) => <<y, x>> \in Edges /\ <<y, v>> \in Edges
    BY <2>1, <2>2 DEF Edges
  <2> QED BY <1>5, <2>1, <2>2, <2>3
<1> HIDE DEF D, R
<1>11. CASE a < b
  <2>1. b \in Graph[a] /\ <<a, b>> \in Edges /\ a # b
    <3>1. a # b /\ ~(b < a)
      BY <1>7, <1>11
    <3>2. b \in Graph[a]
      BY <1>7, <1>9, <3>1 DEF Adjacent
    <3> QED BY <1>7, <1>9, <3>1, <3>2
  <2>2. D[a][<<a, b>>] = D[N][<<a, b>>] /\ BasicUp(m)[<<a, b>>] = D[a][<<a, b>>] /\ RespectUp(m)[<<a, b>>] = D[0][<<a, b>>]
    BY <1>1, <1>5, <1>6, <1>7, <1>11, <2>1
  <2>3. z = BasicUpVia(m)[<<a, b>>]
    BY <1>4, <1>11 DEF Middle
  <2>4. CASE D[a][<<a, b>>] = D[0][<<a, b>>]
    <3>1. z = None
      BY <1>6, <2>1, <2>2, <2>3, <2>4
    <3>2. D[N][<<a, b>>] = Lowest(m[<<a, b>>] \cup {Inf})
      BY <1>1, <1>7, <2>1, <2>2, <2>4
    <3>3. HasArc(m, D, a, b)
      BY <1>7, <3>2, LightestArc
    <3> QED BY <3>1, <3>3 DEF D
  <2>5. CASE D[a][<<a, b>>] # D[0][<<a, b>>]
    <3>1. z = Lowest({y \in Triangles(<<a, b>>) : BasicDown(m)[<<y, a>>] + BasicUp(m)[<<y, b>>] = BasicUp(m)[<<a, b>>]})
      BY <1>6, <2>1, <2>2, <2>3, <2>5
    <3>2. {y \in Triangles(<<a, b>>) : BasicDown(m)[<<y, a>>] + BasicUp(m)[<<y, b>>] = BasicUp(m)[<<a, b>>]}
              = Alternatives(D, a, b)
      <4>1. Triangles(<<a, b>>) \subseteq Nodes
        BY DEF Triangles, Below
      <4>2. ASSUME NEW y \in Nodes, a \in Graph[y], b \in Graph[y]
            PROVE  BasicDown(m)[<<y, a>>] + BasicUp(m)[<<y, b>>] = D[y][<<a, y>>] + D[y][<<y, b>>]
        <5>1. y \in Triangles(<<a, b>>)
          BY <1>7, <1>10, <2>1, <4>2
        <5> QED BY <1>7, <1>10, <2>1, <5>1
      <4>3. \A y \in Nodes : (y \in Triangles(<<a, b>>) <=> a \in Graph[y] /\ b \in Graph[y])
        BY <1>7, <1>10, <2>1
      <4> QED BY <2>2, <4>1, <4>2, <4>3 DEF Alternatives
    <3>3. z \in Alternatives(D, a, b) /\ D[a][<<a, b>>] < D[z][<<a, b>>]
      <4>1. D[a][<<a, b>>] < Inf
        BY <1>7, <2>2
      <4>2. LET y == Lowest(Alternatives(D, a, b)) IN y \in Alternatives(D, a, b) /\ D[a][<<a, b>>] < D[y][<<a, b>>]
        BY <1>1, <1>7, <2>1, <2>5, <4>1, LowestAlternative
      <4> QED BY <3>1, <3>2, <4>2
    <3>4. z \in Nodes /\ a \in Graph[z] /\ b \in Graph[z] /\ D[z][<<a, z>>] + D[z][<<z, b>>] = D[a][<<a, b>>]
      BY <3>3 DEF Alternatives
    <3> HIDE DEF z
    <3>5. z < a /\ z < b
      BY <1>7, <1>9, <3>4
    <3>6. Splits(D, a, z, b)
      BY <1>7, <2>2, <3>3, <3>4, <3>5 DEF Splits, Adjacent
    <3>7. z # None
      BY <1>8, <3>4
    <3> QED BY <3>6, <3>7 DEF D, z
  <2> QED BY <2>4, <2>5
<1>12. CASE ~(a < b)
  <2>1. a \in Graph[b] /\ <<b, a>> \in Edges /\ a # b
    BY <1>7, <1>8, <1>9, <1>12 DEF Adjacent
  <2>2. /\ D[b][<<a, b>>] = D[N][<<a, b>>] /\ BasicDown(m)[<<b, a>>] = D[b][<<a, b>>] /\ RespectDown(m)[<<b, a>>] = D[0][<<a, b>>]
        /\ R[b][<<b, a>>] = D[b][<<a, b>>] /\ R[0][<<b, a>>] = D[0][<<a, b>>]
    <3>1. D[b][<<a, b>>] = D[N][<<a, b>>] /\ BasicDown(m)[<<b, a>>] = D[b][<<a, b>>]
      BY <1>5, <1>7, <1>12, <2>1
    <3>2. RespectDown(m)[<<b, a>>] = D[0][<<a, b>>]
      BY <1>1, <1>6, <1>7, <2>1
    <3>3. R[b][<<b, a>>] = D[b][<<a, b>>] /\ R[0][<<b, a>>] = D[0][<<a, b>>]
      BY <1>2, <1>7, <1>8
    <3> QED BY <3>1, <3>2, <3>3
  <2>3. z = BasicDownVia(m)[<<b, a>>]
    BY <1>4, <1>12 DEF Middle
  <2>4. CASE D[b][<<a, b>>] = D[0][<<a, b>>]
    <3>1. z = None
      BY <1>6, <2>1, <2>2, <2>3, <2>4
    <3>2. D[N][<<a, b>>] = Lowest(m[<<a, b>>] \cup {Inf})
      BY <1>1, <1>7, <2>1, <2>2, <2>4
    <3>3. HasArc(m, D, a, b)
      BY <1>7, <3>2, LightestArc
    <3> QED BY <3>1, <3>3 DEF D
  <2>5. CASE D[b][<<a, b>>] # D[0][<<a, b>>]
    <3>1. z = Lowest({y \in Triangles(<<b, a>>) : BasicDown(m)[<<y, a>>] + BasicUp(m)[<<y, b>>] = BasicDown(m)[<<b, a>>]})
      BY <1>6, <2>1, <2>2, <2>3, <2>5
    <3>2. {y \in Triangles(<<b, a>>) : BasicDown(m)[<<y, a>>] + BasicUp(m)[<<y, b>>] = BasicDown(m)[<<b, a>>]}
              = Alternatives(R, b, a)
      <4>1. Triangles(<<b, a>>) \subseteq Nodes
        BY DEF Triangles, Below
      <4>2. ASSUME NEW y \in Nodes, b \in Graph[y], a \in Graph[y]
            PROVE  BasicDown(m)[<<y, a>>] + BasicUp(m)[<<y, b>>] = R[y][<<b, y>>] + R[y][<<y, a>>]
        <5>1. BasicUp(m)[<<y, b>>] = D[y][<<y, b>>] /\ BasicDown(m)[<<y, a>>] = D[y][<<a, y>>]
          <6>1. y \in Triangles(<<b, a>>)
            BY <1>7, <1>10, <2>1, <4>2
          <6> QED BY <1>7, <1>10, <2>1, <6>1
        <5>2. R[y][<<b, y>>] = D[y][<<y, b>>] /\ R[y][<<y, a>>] = D[y][<<a, y>>]
          BY <1>2, <1>7, <1>8
        <5>3. D[y][<<y, b>>] \in Nat /\ D[y][<<a, y>>] \in Nat
          BY <1>1, <1>7, <1>8, LengthLaws
        <5> QED BY <5>1, <5>2, <5>3
      <4>3. \A y \in Nodes : y \in Triangles(<<b, a>>) <=> b \in Graph[y] /\ a \in Graph[y]
        BY <1>7, <1>10, <2>1
      <4> QED BY <2>2, <4>1, <4>2, <4>3 DEF Alternatives
    <3>3. z \in Alternatives(R, b, a) /\ R[b][<<b, a>>] < R[z][<<b, a>>]
      <4>1. R[b][<<b, a>>] < Inf /\ R[b][<<b, a>>] # R[0][<<b, a>>]
        BY <1>7, <2>2, <2>5
      <4>2. LET y == Lowest(Alternatives(R, b, a)) IN y \in Alternatives(R, b, a) /\ R[b][<<b, a>>] < R[y][<<b, a>>]
        BY <1>2, <1>3, <1>7, <2>1, <4>1, LowestAlternative
      <4> QED BY <3>1, <3>2, <4>2
    <3>4. z \in Nodes /\ a \in Graph[z] /\ b \in Graph[z] /\ R[z][<<b, z>>] + R[z][<<z, a>>] = R[b][<<b, a>>]
      BY <3>3 DEF Alternatives
    <3> HIDE DEF z
    <3>5. z < a /\ z < b /\ z \in 0 .. N
      BY <1>7, <1>8, <1>9, <3>4
    <3>6. /\ R[z][<<b, z>>] = D[z][<<z, b>>] /\ R[z][<<z, a>>] = D[z][<<a, z>>] /\ R[z][<<b, a>>] = D[z][<<a, b>>]
          /\ D[z][<<z, b>>] \in Nat /\ D[z][<<a, z>>] \in Nat
      BY <1>1, <1>2, <1>7, <3>4, <3>5, LengthLaws
    <3>7. Splits(D, a, z, b)
      BY <1>7, <2>2, <3>3, <3>4, <3>5, <3>6 DEF Splits, Adjacent
    <3>8. z # None
      BY <1>8, <3>4
    <3> QED BY <3>7, <3>8 DEF D, z
  <2> QED BY <2>4, <2>5
<1> QED BY <1>11, <1>12

-----------------------------------------------------------------------------
(* One walk of a query. As it goes on it resets the nodes behind it; the   *)
(* proof follows the distances that it found, which parents go with.       *)

(* A walk has passed a node.                                               *)
Behind(v, next) == next = None \/ v < next

(* One of the two walks of a query: a record with the lengths in its       *)
(* direction, the weights and edges it uses, where it comes from, its      *)
(* arrays, its next node, and in tent the tentative distances of all nodes,*)
(* those that it has reset included.                                       *)
Far(W, v) == W.lengths[N][<<W.from, v>>]

(* The length of the shortest paths to v whose inner nodes are below h.    *)
Low(W, h, v) == W.lengths[h][<<W.from, v>>]

(* The fields of a walk belong together: its weights and edges are those   *)
(* of a customization, and it has not started below its origin.            *)
WellFormed(W) ==
    /\ Lengths(W.lengths, Inf) /\ OnEdges(Graph, W.lengths, Inf)
    /\ W.weight = EdgeLengths(W.lengths) /\ (W.edges = Edges \/ W.edges = Kept(W.weight, W.lengths[N]))
    /\ W.from \in Nodes /\ W.next \in Nodes \cup {None} /\ (W.next = None \/ W.from <= W.next)
    /\ W.tent \in [Nodes -> Weight]

(* Parents and tentative distances go together.  Where the distance itself *)
(* is found, no path below the parent has it: it would have been found     *)
(* before, unless it is no shorter than the best answer so far.            *)
Led(W, v) ==
    LET p == W.parents[v]
    IN  /\ p \in Nodes /\ W.from <= p /\ p < v /\ Behind(p, W.next)
        /\ <<p, v>> \in W.edges /\ W.tent[v] = W.tent[p] + W.weight[<<p, v>>]

(* The parents form a tree with the origin at its root.                    *)
Tree(W, least) ==
    /\ W.tent[W.from] = 0 /\ W.parents[W.from] = W.from
    /\ \A v \in Nodes : Low(W, v, v) <= W.tent[v]
    /\ \A v \in Nodes : W.tent[v] < Inf /\ v # W.from => Led(W, v)
    /\ \A v \in Nodes : W.tent[v] < Inf /\ v # W.from /\ W.parents[v] # W.from /\ W.tent[v] = Far(W, v)
           => Far(W, v) < Low(W, W.parents[v], v) \/ least <= W.tent[v]

(* A shortest path with the highest inner node z is found.                 *)
Through(W, least, z) ==
    \A v \in Nodes : z < v /\ Far(W, v) < Inf /\ Low(W, z, z) + W.lengths[z][<<z, v>>] = Far(W, v)
        => W.tent[v] = Far(W, v) \/ least <= Far(W, v)

(* This is so for each node that the walk has passed.                      *)
Complete(W, least) == \A z \in Nodes : W.from <= z /\ Behind(z, W.next) => Through(W, least, z)

(* What holds of a walk from its start to its end.                         *)
IsWalk(W, least) ==
    /\ WellFormed(W) /\ Tree(W, least) /\ Complete(W, least)
    /\ Ahead(W.dist, W.next)
    /\ \A v \in Nodes : ~Behind(v, W.next) => W.dist[v] = W.tent[v]

(* Lengths and tentative distances of a walk are numbers that obey the     *)
(* laws of lengths.                                                        *)
LEMMA WalkFacts ==
    ASSUME NEW W, WellFormed(W)
    PROVE  /\ \A h \in 0 .. N : \A v \in Nodes : Low(W, h, v) \in Nat /\ Low(W, h, v) <= Inf /\ Far(W, v) <= Low(W, h, v)
           /\ \A v \in Nodes : Far(W, v) \in Nat /\ W.tent[v] \in Nat /\ W.tent[v] <= Inf
           /\ \A h \in 0 .. N : \A a, b \in Nodes : W.lengths[h][<<a, b>>] \in Nat /\ W.lengths[N][<<a, b>>] <= W.lengths[h][<<a, b>>]
           /\ \A a, b \in Nodes : Far(W, b) <= Far(W, a) + W.lengths[N][<<a, b>>]
           /\ \A h \in 0 .. N : Low(W, h, W.from) = 0
           /\ Far(W, W.from) = 0
<1>1. Lengths(W.lengths, Inf) /\ W.from \in Nodes /\ W.tent \in [Nodes -> Weight] /\ N \in 0 .. N
  BY NodesAreLevels DEF WellFormed
<1>2. \A v \in Nodes : W.tent[v] \in Nat /\ W.tent[v] <= Inf
  <2>1. \A v \in Nodes : W.tent[v] \in Weight
    BY <1>1
  <2> QED BY <2>1, InfAssumption DEF Weight
<1> DEFINE D == W.lengths
<1> HIDE DEF D
<1>3. Lengths(D, Inf)
  BY <1>1 DEF D
<1>4. /\ \A h \in 0 .. N : \A a, b \in Nodes : D[h][<<a, b>>] \in Nat /\ D[h][<<a, b>>] <= Inf
      /\ \A h \in 0 .. N : \A a \in Nodes : D[h][<<a, a>>] = 0
      /\ \A h \in 0 .. N : \A a, b \in Nodes : D[N][<<a, b>>] <= D[h][<<a, b>>]
      /\ \A a, b, c \in Nodes : D[N][<<a, c>>] <= D[N][<<a, b>>] + D[N][<<b, c>>]
  BY <1>3, LengthLaws
<1> QED BY <1>1, <1>2, <1>4 DEF D, Far, Low

(* A distance is found once all paths below its node are.                  *)
LEMMA PassedIsFound ==
    ASSUME NEW W, WellFormed(W), NEW least, NEW h \in Nodes, NEW v \in Nodes, W.from < h, h <= v,
           \A z \in Nodes : W.from <= z /\ z < h => Through(W, least, z),
           Low(W, h, v) = Far(W, v), Far(W, v) < Inf
    PROVE  W.tent[v] = Far(W, v) \/ least <= Far(W, v)
<1> DEFINE s == W.from
           D == W.lengths
<1>1. /\ s \in Nodes /\ s < v /\ Lengths(D, Inf) /\ Nodes \subseteq Nat /\ Nodes \subseteq 0 .. N /\ Nodes = 0 .. N - 1
      /\ h \in 0 .. N /\ s \in 0 .. N /\ h \in Nat /\ v \in Nat /\ s \in Nat /\ N \in Nat
  BY NodesAreLevels DEF WellFormed
<1>2. D[h][<<s, v>>] = D[0][<<s, v>>] \/ Over(D, h, s, v)
  BY <1>1, Composed, InfAssumption
<1>3. CASE D[s][<<s, v>>] = Far(W, v)
  <2>1. D[s][<<s, s>>] = 0 /\ D[s][<<s, v>>] \in Nat
    BY <1>1, LengthLaws
  <2>2. Through(W, least, s)
    BY <1>1
  <2>3. Low(W, s, s) + D[s][<<s, v>>] = Far(W, v)
    BY <1>3, <2>1 DEF Low
  <2> QED BY <1>1, <2>2, <2>3 DEF Through
<1>4. D[s][<<s, v>>] \in Nat /\ Far(W, v) <= D[s][<<s, v>>] /\ Far(W, v) \in Nat
  BY <1>1, WalkFacts DEF Low
<1>5. CASE D[h][<<s, v>>] = D[0][<<s, v>>]
  <2>1. D[s][<<s, v>>] <= D[0][<<s, v>>]
    BY <1>1, Composed, InfAssumption
  <2>2. D[s][<<s, v>>] <= Far(W, v)
    BY <1>5, <2>1 DEF Low
  <2> QED BY <1>3, <1>4, <2>2
<1>6. CASE Over(D, h, s, v)
  <2>1. PICK z \in 0 .. h - 1 : D[h][<<s, v>>] = D[z][<<s, z>>] + D[z][<<z, v>>]
    BY <1>6 DEF Over
  <2>2. z \in Nodes /\ z < h /\ z \in Nat /\ z < v
    BY <1>1
  <2>3. CASE z < s
    <3>1. z \in 0 .. s - 1
      BY <1>1, <2>2, <2>3
    <3>2. D[s][<<s, v>>] <= D[z][<<s, z>>] + D[z][<<z, v>>]
      BY <1>1, <3>1, Composed, InfAssumption
    <3>3. D[s][<<s, v>>] <= Far(W, v)
      BY <2>1, <3>2 DEF Low
    <3> QED BY <1>3, <1>4, <3>3
  <2>4. CASE ~(z < s)
    <3>1. Through(W, least, z) /\ s <= z
      BY <1>1, <2>2, <2>4
    <3>2. Low(W, z, z) + D[z][<<z, v>>] = Far(W, v)
      BY <2>1 DEF Low
    <3> QED BY <2>2, <3>1, <3>2 DEF Through
  <2> QED BY <2>3, <2>4
<1> QED BY <1>2, <1>5, <1>6

(* The same where the distance is that of the origin itself.               *)
LEMMA Arrived ==
    ASSUME NEW W, WellFormed(W), W.tent[W.from] = 0, NEW least, NEW v \in Nodes, W.from <= v,
           \A z \in Nodes : W.from <= z /\ z < v => Through(W, least, z),
           Low(W, v, v) = Far(W, v), Far(W, v) < Inf
    PROVE  W.tent[v] = Far(W, v) \/ least <= Far(W, v)
<1>1. W.from \in Nodes /\ W.from \in Nat /\ v \in Nat
  BY NodesAreLevels DEF WellFormed
<1>2. CASE W.from = v
  BY <1>2, WalkFacts
<1>3. CASE W.from < v
  <2>1. v <= v
    BY <1>1
  <2> QED BY <1>3, <2>1, PassedIsFound
<1> QED BY <1>1, <1>2, <1>3

(* A step of a walk from W to X: its next node is settled, or it is too    *)
(* far away for that.                                                      *)
Relaxes(W, X, v) ==
    LET x == W.next
        over == W.tent[x] + W.weight[<<x, v>>]
    IN  IF <<x, v>> \in W.edges /\ over < W.tent[v]
        THEN X.tent[v] = over /\ X.parents[v] = x
        ELSE X.tent[v] = W.tent[v] /\ X.parents[v] = W.parents[v]

(* Nothing changes for a node.                                             *)
Keeps(W, X, v) == X.tent[v] = W.tent[v] /\ X.parents[v] = W.parents[v]

(* The step as a whole: the next node is settled unless it is no closer    *)
(* than the best answer, and what is ahead is not reset.                   *)
Steps(W, X, least) ==
    /\ W.next \in Nodes /\ X.next = Parent[W.next]
    /\ X.lengths = W.lengths /\ X.weight = W.weight /\ X.edges = W.edges /\ X.from = W.from
    /\ X.tent = [v \in Nodes |-> X.tent[v]]
    /\ \/ \A v \in Nodes : Relaxes(W, X, v)
       \/ least <= W.tent[W.next] /\ \A v \in Nodes : Keeps(W, X, v)
    /\ Ahead(X.dist, X.next)
    /\ \A v \in Nodes : W.next < v => X.dist[v] = X.tent[v]

(* The parent in the elimination tree is higher, so the nodes behind a     *)
(* node and the node itself are behind its parent.                         *)
LEMMA ParentIsHigher ==
    ASSUME NEW x \in Nodes
    PROVE  /\ Parent[x] = None \/ (Parent[x] \in Nodes /\ x < Parent[x])
           /\ \A v \in Nodes : Behind(v, x) \/ v = x => Behind(v, Parent[x])
<1>1. Graph[x] \subseteq Nodes /\ (\A y \in Graph[x] : x < y) /\ Nodes \subseteq Nat
  BY GraphAssumption, NodesAreLevels DEF Graphs
<1>2. Parent[x] = IF Graph[x] = {} THEN None ELSE Lowest(Graph[x])
  BY DEF Parent, EliminationTree
<1>3. Graph[x] # {} => Lowest(Graph[x]) \in Graph[x]
  BY <1>1, LowestIsLeast
<1>4. Parent[x] = None \/ (Parent[x] \in Nodes /\ x < Parent[x])
  BY <1>1, <1>2, <1>3
<1>5. ASSUME NEW v \in Nodes, Behind(v, x) \/ v = x PROVE Behind(v, Parent[x])
  <2>1. x # None /\ v \in Nat /\ x \in Nat
    BY <1>1, NoneIsNoNode
  <2>2. v <= x
    BY <1>5, <2>1 DEF Behind
  <2>3. CASE Parent[x] = None
    BY <2>3 DEF Behind
  <2>4. CASE Parent[x] \in Nodes /\ x < Parent[x]
    <3>1. Parent[x] \in Nat
      BY <1>1, <2>4
    <3>2. v < Parent[x]
      BY <2>1, <2>2, <2>4, <3>1
    <3> QED BY <3>2 DEF Behind
  <2> QED BY <1>4, <2>3, <2>4
<1> QED BY <1>4, <1>5

(* Settling the next node makes the tentative distance of v shorter.       *)
Improves(W, X, v) ==
    LET x == W.next
    IN  /\ <<x, v>> \in W.edges /\ X.tent[v] = W.tent[x] + W.weight[<<x, v>>] /\ X.tent[v] < W.tent[v]
        /\ X.parents[v] = x

(* What a step does to a node.                                             *)
LEMMA StepFacts ==
    ASSUME NEW W, NEW least, IsWalk(W, least), NEW X, Steps(W, X, least), NEW v \in Nodes
    PROVE  /\ Keeps(W, X, v) \/ Improves(W, X, v)
           /\ Improves(W, X, v) => W.next < v /\ <<W.next, v>> \in Edges /\ v \in Graph[W.next]
           /\ <<W.next, v>> \in W.edges =>
                  /\ W.weight[<<W.next, v>>] = W.lengths[W.next][<<W.next, v>>]
                  /\ W.weight[<<W.next, v>>] \in Nat /\ W.tent[W.next] \in Nat
           /\ v <= W.next => Keeps(W, X, v)
           /\ X.tent[v] \in Nat /\ X.tent[v] <= W.tent[v]
           /\ Low(W, v, v) <= X.tent[v]
<1> DEFINE x == W.next
<1>1. /\ x \in Nodes /\ WellFormed(W) /\ Tree(W, least)
      /\ W.tent[x] \in Nat /\ W.tent[v] \in Nat /\ v \in Nat /\ x \in Nat
      /\ W.edges \subseteq Edges /\ W.weight = [e \in Edges |-> W.lengths[e[1]][e]]
  <2>1. x \in Nodes /\ WellFormed(W) /\ Tree(W, least)
    BY DEF Steps, IsWalk
  <2>2. W.edges \subseteq Edges /\ W.weight = [e \in Edges |-> W.lengths[e[1]][e]]
    BY <2>1 DEF WellFormed, EdgeLengths, Kept
  <2> QED BY <2>1, <2>2, WalkFacts, NodesAreLevels
<1>2. ASSUME <<x, v>> \in W.edges
      PROVE  /\ W.weight[<<x, v>>] = W.lengths[x][<<x, v>>] /\ W.weight[<<x, v>>] \in Nat
             /\ x < v /\ <<x, v>> \in Edges /\ v \in Graph[x]
  <2>1. <<x, v>> \in Edges /\ v \in Graph[x] /\ x < v
    BY <1>1, <1>2, GraphAssumption DEF Edges
  <2>2. W.weight[<<x, v>>] = W.lengths[x][<<x, v>>]
    BY <1>1, <2>1
  <2>3. x \in 0 .. N
    BY <1>1, NodesAreLevels
  <2>4. W.lengths[x][<<x, v>>] \in Nat
    BY <1>1, <2>3, WalkFacts
  <2> QED BY <2>1, <2>2, <2>4
<1>3. Keeps(W, X, v) \/ Improves(W, X, v)
  <2>1. Relaxes(W, X, v) \/ Keeps(W, X, v)
    BY DEF Steps
  <2> QED BY <2>1 DEF Relaxes, Keeps, Improves
<1>4. Improves(W, X, v) => x < v /\ <<x, v>> \in Edges /\ v \in Graph[x]
  BY <1>2 DEF Improves
<1>5. v <= x => Keeps(W, X, v)
  BY <1>1, <1>3, <1>4
<1>6. Low(W, v, v) <= W.tent[v]
  BY <1>1 DEF Tree
<1>7. CASE Keeps(W, X, v)
  BY <1>1, <1>2, <1>4, <1>5, <1>6, <1>7 DEF Keeps
<1>8. CASE Improves(W, X, v)
  <2> DEFINE w == W.weight[<<x, v>>]
  <2>1. X.tent[v] = W.tent[x] + w /\ w = W.lengths[x][<<x, v>>] /\ w \in Nat /\ X.tent[v] < W.tent[v] /\ x < v
    BY <1>2, <1>8 DEF Improves
  <2>2. Low(W, v, v) <= Low(W, x, x) + W.lengths[x][<<x, v>>]
    <3>1. x \in 0 .. v - 1 /\ v \in 0 .. N /\ W.from \in Nodes /\ Lengths(W.lengths, Inf)
      BY <1>1, <2>1, NodesAreLevels DEF WellFormed
    <3> QED BY <3>1, Composed, InfAssumption DEF Low
  <2>3. Low(W, x, x) <= W.tent[x] /\ Low(W, x, x) \in Nat /\ Low(W, v, v) \in Nat
    <3>1. Low(W, x, x) <= W.tent[x] /\ x \in 0 .. N /\ v \in 0 .. N
      BY <1>1, NodesAreLevels DEF Tree
    <3> QED BY <1>1, <3>1, WalkFacts
  <2>4. X.tent[v] \in Nat /\ X.tent[v] <= W.tent[v] /\ Low(W, v, v) <= X.tent[v]
    BY <1>1, <2>1, <2>2, <2>3
  <2> QED BY <1>1, <1>2, <1>4, <1>5, <1>8, <2>4
<1> QED BY <1>3, <1>7, <1>8

(* The nodes between the next node and the one after it are not reached.   *)
LEMMA GapIsInf ==
    ASSUME NEW W, NEW X, NEW least, Steps(W, X, least), NEW v \in Nodes, W.next < v, Behind(v, X.next)
    PROVE  X.tent[v] = Inf
<1>1. X.dist[v] = X.tent[v] /\ Ahead(X.dist, X.next)
  BY DEF Steps
<1> SUFFICES ASSUME X.dist[v] # Inf PROVE FALSE
  BY <1>1
<1>2. X.next \in Nodes /\ (v = X.next \/ v \in Graph[X.next])
  BY <1>1 DEF Ahead
<1>3. X.next <= v /\ X.next \in Nat /\ v \in Nat
  BY <1>2, NodesAreLevels, GraphAssumption
<1> QED BY <1>2, <1>3, NoneIsNoNode DEF Behind

(* The parents are still a tree after a step.                              *)
LEMMA StepTree ==
    ASSUME NEW W, NEW least \in Nat, IsWalk(W, least), NEW X, Steps(W, X, least), NEW less \in Nat, less <= least
    PROVE  WellFormed(X) /\ Tree(X, less)
<1> DEFINE x == W.next
           s == W.from
<1>1. /\ x \in Nodes /\ s \in Nodes /\ s <= x /\ x \in Nat /\ s \in Nat /\ WellFormed(W) /\ Tree(W, least) /\ Complete(W, least)
      /\ X.lengths = W.lengths /\ X.weight = W.weight /\ X.edges = W.edges /\ X.from = s /\ X.next = Parent[x]
  BY NodesAreLevels, NoneIsNoNode DEF Steps, IsWalk, WellFormed
<1>2. /\ Parent[x] = None \/ (Parent[x] \in Nodes /\ x < Parent[x])
      /\ \A v \in Nodes : Behind(v, x) \/ v = x => Behind(v, Parent[x])
  BY <1>1, ParentIsHigher
<1>3. WellFormed(X)
  <2>1. \A v \in Nodes : X.tent[v] \in Weight
    <3> SUFFICES ASSUME NEW v \in Nodes PROVE X.tent[v] \in Weight
      OBVIOUS
    <3>1. X.tent[v] \in Nat /\ X.tent[v] <= W.tent[v]
      BY StepFacts
    <3>2. W.tent[v] \in Nat /\ W.tent[v] <= Inf
      BY <1>1, WalkFacts
    <3> QED BY <3>1, <3>2, InfAssumption DEF Weight
  <2>2. X.tent \in [Nodes -> Weight]
    BY <2>1 DEF Steps
  <2>3. X.next = None \/ s <= X.next
    <3>1. CASE Parent[x] \in Nodes /\ x < Parent[x]
      <4>1. Parent[x] \in Nat
        BY <3>1, NodesAreLevels
      <4> QED BY <1>1, <3>1, <4>1
    <3> QED BY <1>1, <1>2, <3>1
  <2> QED BY <1>1, <1>2, <2>2, <2>3 DEF WellFormed
<1>4. \A v \in Nodes : Low(X, v, v) = Low(W, v, v) /\ Far(X, v) = Far(W, v)
  BY <1>1 DEF Low, Far
<1>5. \A v \in Nodes : Low(X, v, v) <= X.tent[v]
  BY <1>4, StepFacts
<1>6. Keeps(W, X, s)
  BY <1>1, StepFacts
<1>7. X.tent[s] = 0 /\ X.parents[s] = s
  BY <1>1, <1>6 DEF Keeps, Tree
<1>8. ASSUME NEW v \in Nodes, X.tent[v] < Inf, v # s PROVE Led(X, v)
  <2>1. CASE Keeps(W, X, v)
    <3>1. Led(W, v)
      BY <1>1, <1>8, <2>1 DEF Keeps, Tree
    <3> DEFINE p == W.parents[v]
    <3>2. p \in Nodes /\ Behind(p, x) /\ p \in Nat
      BY <3>1, NodesAreLevels DEF Led
    <3>3. p <= x
      BY <1>1, <3>2, NoneIsNoNode DEF Behind
    <3>4. Keeps(W, X, p)
      BY <3>2, <3>3, StepFacts
    <3>5. Behind(p, X.next)
      BY <1>1, <1>2, <3>2
    <3> QED BY <1>1, <2>1, <3>1, <3>4, <3>5 DEF Led, Keeps
  <2>2. CASE Improves(W, X, v)
    <3>1. x < v /\ Keeps(W, X, x)
      <4>1. x < v
        BY <2>2, StepFacts
      <4>2. x <= x
        BY <1>1
      <4> QED BY <1>1, <4>1, <4>2, StepFacts
    <3>2. Behind(x, X.next)
      BY <1>1, <1>2
    <3> QED BY <1>1, <2>2, <3>1, <3>2 DEF Led, Keeps, Improves
  <2> QED BY <2>1, <2>2, StepFacts
<1>9. ASSUME NEW v \in Nodes, X.tent[v] < Inf, v # s, X.parents[v] # s, X.tent[v] = Far(X, v)
      PROVE  Far(X, v) < Low(X, X.parents[v], v) \/ less <= X.tent[v]
  <2>1. X.tent[v] \in Nat /\ Far(W, v) \in Nat /\ Far(W, v) = Far(X, v)
    BY <1>1, <1>4, StepFacts, WalkFacts
  <2>2. CASE Keeps(W, X, v)
    <3>1. Far(W, v) < Low(W, W.parents[v], v) \/ least <= W.tent[v]
      BY <1>1, <1>9, <2>1, <2>2 DEF Keeps, Tree
    <3> QED BY <1>1, <2>1, <2>2, <3>1 DEF Keeps, Low
  <2>3. CASE Improves(W, X, v)
    <3>1. X.parents[v] = x /\ X.tent[v] < W.tent[v] /\ x < v /\ x # s /\ v \in Nat /\ W.tent[v] \in Nat
      <4>1. x < v
        BY <2>3, StepFacts
      <4> QED BY <1>1, <1>9, <2>3, <4>1, NodesAreLevels, WalkFacts DEF Improves
    <3>2. ASSUME Low(W, x, v) = Far(W, v) PROVE less <= X.tent[v]
      <4>1. \A z \in Nodes : s <= z /\ z < x => Through(W, least, z)
        BY <1>1 DEF Complete, Behind
      <4>2. W.tent[v] = Far(W, v) \/ least <= Far(W, v)
        <5>1. s < x /\ x <= v
          BY <1>1, <3>1
        <5> QED BY <1>1, <1>9, <2>1, <3>2, <4>1, <5>1, PassedIsFound
      <4> QED BY <1>9, <2>1, <3>1, <4>2
    <3>3. Low(W, x, v) \in Nat /\ Far(W, v) <= Low(W, x, v) /\ Low(X, x, v) = Low(W, x, v)
      <4>1. x \in 0 .. N
        BY <1>1, NodesAreLevels
      <4> QED BY <1>1, <4>1, WalkFacts DEF Low
    <3> QED BY <1>9, <2>1, <3>1, <3>2, <3>3
  <2> QED BY <2>2, <2>3, StepFacts
<1>10. Tree(X, less)
  BY <1>1, <1>5, <1>7, <1>8, <1>9 DEF Tree
<1> QED BY <1>3, <1>10

(* What was found stays found; the edges of the next node are used.        *)
LEMMA StepThrough ==
    ASSUME NEW W, NEW least \in Nat, IsWalk(W, least), NEW X, Steps(W, X, least), NEW less \in Nat, less <= least,
           NEW z \in Nodes, W.from <= z, z <= W.next
    PROVE  Through(X, less, z)
<1> DEFINE x == W.next
           s == W.from
           D == W.lengths
<1>1. /\ x \in Nodes /\ s \in Nodes /\ x \in Nat /\ s \in Nat /\ z \in Nat /\ x \in 0 .. N /\ z \in 0 .. N /\ WellFormed(W)
      /\ Tree(W, least) /\ Complete(W, least) /\ X.lengths = D /\ X.from = s
  BY NodesAreLevels, NoneIsNoNode DEF Steps, IsWalk, WellFormed
<1> SUFFICES ASSUME NEW v \in Nodes, z < v, Far(X, v) < Inf, Low(X, z, z) + X.lengths[z][<<z, v>>] = Far(X, v),
                    ~(less <= Far(X, v))
             PROVE  X.tent[v] = Far(X, v)
  BY DEF Through
<1>2. /\ Far(X, v) = Far(W, v) /\ Low(X, z, z) = Low(W, z, z) /\ Far(W, v) \in Nat /\ v \in Nat
      /\ Low(W, z, z) \in Nat /\ D[z][<<z, v>>] \in Nat /\ X.tent[v] \in Nat /\ X.tent[v] <= W.tent[v]
      /\ W.tent[v] \in Nat /\ v \in 0 .. N
  BY <1>1, StepFacts, WalkFacts, NodesAreLevels DEF Far, Low
<1>3. Far(W, v) <= X.tent[v]
  <2>1. Far(W, v) <= Low(W, v, v) /\ Low(W, v, v) \in Nat
    BY <1>1, <1>2, WalkFacts
  <2>2. Low(W, v, v) <= X.tent[v]
    BY StepFacts
  <2> QED BY <1>2, <2>1, <2>2
<1>4. CASE z < x
  <2>1. Through(W, least, z)
    BY <1>1, <1>4 DEF Complete, Behind
  <2>2. W.tent[v] = Far(W, v) \/ least <= Far(W, v)
    BY <1>1, <1>2, <2>1 DEF Through
  <2> QED BY <1>2, <1>3, <2>2
<1>5. CASE z = x
  <2>1. Far(W, x) <= Low(W, x, x) /\ D[N][<<x, v>>] <= D[x][<<x, v>>] /\ Far(W, v) <= Far(W, x) + D[N][<<x, v>>]
    BY <1>1, WalkFacts
  <2>2. Far(W, x) \in Nat /\ D[N][<<x, v>>] \in Nat /\ W.tent[x] \in Nat
    BY <1>1, WalkFacts, NodesAreLevels
  <2>3. Low(W, x, x) = Far(W, x) /\ D[x][<<x, v>>] = D[N][<<x, v>>] /\ Far(W, x) + D[x][<<x, v>>] = Far(W, v)
        /\ Far(W, x) < Inf /\ D[x][<<x, v>>] < Inf /\ ~(least <= Far(W, x))
    BY <1>1, <1>2, <1>5, <2>1, <2>2, InfAssumption
  <2>4. W.tent[x] = Far(W, x)
    <3>1. \A y \in Nodes : s <= y /\ y < x => Through(W, least, y)
      BY <1>1 DEF Complete, Behind
    <3>2. W.tent[s] = 0
      BY <1>1 DEF Tree
    <3> QED BY <1>1, <1>5, <2>3, <3>1, <3>2, Arrived
  <2>5. Relaxes(W, X, v)
    BY <2>3, <2>4 DEF Steps
  <2>6. v \in Graph[x]
    <3>1. Lengths(D, Inf) /\ OnEdges(Graph, D, Inf)
      BY <1>1 DEF WellFormed
    <3>2. \A a, b \in Nodes : x <= a /\ x <= b /\ a # b /\ D[x][<<a, b>>] < Inf => Adjacent(Graph, a, b)
      BY <1>1, <3>1, EndsAreAdjacent, GraphUpwards, InfAssumption
    <3>3. Adjacent(Graph, x, v)
      BY <1>1, <1>2, <1>5, <2>3, <3>2
    <3> QED BY <1>1, <1>2, <1>5, <3>3, GraphAssumption DEF Adjacent
  <2>7. <<x, v>> \in W.edges /\ W.weight[<<x, v>>] = D[x][<<x, v>>]
    <3>1. <<x, v>> \in Edges
      BY <1>1, <2>6 DEF Edges
    <3>2. W.weight[<<x, v>>] = D[x][<<x, v>>]
      BY <1>1, <3>1 DEF WellFormed, EdgeLengths
    <3> QED BY <1>1, <2>3, <3>1, <3>2 DEF WellFormed, Kept
  <2>8. X.tent[v] <= W.tent[x] + W.weight[<<x, v>>]
    <3> DEFINE over == W.tent[x] + W.weight[<<x, v>>]
    <3>1. over \in Nat
      BY <1>2, <1>5, <2>2, <2>7
    <3>2. IF over < W.tent[v] THEN X.tent[v] = over ELSE X.tent[v] = W.tent[v]
      BY <2>5, <2>7 DEF Relaxes
    <3> HIDE DEF over
    <3>3. X.tent[v] <= over
      BY <1>2, <3>1, <3>2
    <3> QED BY <3>3 DEF over
  <2> QED BY <1>2, <1>3, <2>3, <2>4, <2>7, <2>8
<1> QED BY <1>1, <1>4, <1>5

(* After a step the shortest paths over the node it settled are found too. *)
LEMMA StepComplete ==
    ASSUME NEW W, NEW least \in Nat, IsWalk(W, least), NEW X, Steps(W, X, least), NEW less \in Nat, less <= least
    PROVE  Complete(X, less)
<1> DEFINE x == W.next
           s == W.from
           S == {z \in Nodes : s <= z /\ x < z /\ Behind(z, X.next) /\ ~Through(X, less, z)}
<1>1. x \in Nodes /\ s \in Nodes /\ X.from = s /\ X.lengths = W.lengths /\ x \in Nat /\ WellFormed(X) /\ Tree(X, less)
  <2>1. x \in Nodes /\ s \in Nodes /\ X.from = s /\ X.lengths = W.lengths /\ x \in Nat
    BY NodesAreLevels DEF Steps, IsWalk, WellFormed
  <2> QED BY <2>1, StepTree
<1>2. ASSUME S # {} PROVE FALSE
  <2>1. S \in SUBSET Nat
    BY NodesAreLevels
  <2>2. PICK z \in S : \A y \in S : z <= y
    <3> HIDE DEF S
    <3> QED BY <1>2, <2>1, LeastElement
  <2>3. z \in Nodes /\ z \in Nat /\ s <= z /\ x < z /\ Behind(z, X.next) /\ ~Through(X, less, z) /\ z \in 0 .. N
    BY NodesAreLevels
  <2>4. ASSUME NEW y \in Nodes, s <= y, y < z PROVE Through(X, less, y)
    <3>1. y \in Nat
      BY NodesAreLevels
    <3>2. CASE y <= x
      BY <2>4, <3>2, StepThrough
    <3>3. CASE x < y
      <4>1. Behind(y, X.next)
        <5>1. X.next = None \/ X.next \in Nat
          BY <1>1, NodesAreLevels DEF WellFormed
        <5> QED BY <2>3, <2>4, <3>1, <5>1 DEF Behind
      <4>2. y \notin S
        BY <2>2, <2>3, <2>4, <3>1
      <4> QED BY <2>4, <3>3, <4>1, <4>2
    <3> QED BY <1>1, <3>1, <3>2, <3>3
  <2>5. PICK v \in Nodes : /\ z < v /\ Far(X, v) < Inf /\ Low(X, z, z) + X.lengths[z][<<z, v>>] = Far(X, v)
                           /\ ~(less <= Far(X, v))
    BY <2>3 DEF Through
  <2>6. /\ Far(X, z) <= Low(X, z, z) /\ X.lengths[N][<<z, v>>] <= X.lengths[z][<<z, v>>]
        /\ Far(X, v) <= Far(X, z) + X.lengths[N][<<z, v>>]
        /\ Far(X, z) \in Nat /\ Low(X, z, z) \in Nat /\ X.lengths[N][<<z, v>>] \in Nat /\ X.lengths[z][<<z, v>>] \in Nat
        /\ Far(X, v) \in Nat
    BY <1>1, <2>3, WalkFacts, NodesAreLevels
  <2>7. Low(X, z, z) = Far(X, z) /\ Far(X, z) < Inf /\ ~(less <= Far(X, z))
    BY <2>5, <2>6, InfAssumption
  <2>8. X.tent[z] = Far(X, z)
    <3>1. X.tent[X.from] = 0
      BY <1>1 DEF Tree
    <3> QED BY <1>1, <2>3, <2>4, <2>7, <3>1, Arrived
  <2>9. X.tent[z] = Inf
    BY <2>3, GapIsInf
  <2> QED BY <2>6, <2>7, <2>8, <2>9, InfAssumption
<1>3. ASSUME NEW z \in Nodes, s <= z, Behind(z, X.next) PROVE Through(X, less, z)
  <2>1. z \in Nat
    BY NodesAreLevels
  <2>2. CASE z <= x
    BY <1>3, <2>2, StepThrough
  <2>3. CASE x < z
    BY <1>2, <1>3, <2>3
  <2> QED BY <1>1, <2>1, <2>2, <2>3
<1> QED BY <1>1, <1>3 DEF Complete

(* Steps keep walks.                                                       *)
LEMMA StepWalk ==
    ASSUME NEW W, NEW least \in Nat, IsWalk(W, least), NEW X, Steps(W, X, least), NEW less \in Nat, less <= least
    PROVE  IsWalk(X, less)
<1>1. WellFormed(X) /\ Tree(X, less) /\ Complete(X, less) /\ Ahead(X.dist, X.next)
  BY StepTree, StepComplete DEF Steps
<1>2. ASSUME NEW v \in Nodes, ~Behind(v, X.next) PROVE X.dist[v] = X.tent[v]
  <2>1. W.next \in Nodes /\ X.next = Parent[W.next]
    BY DEF Steps
  <2>2. ~(Behind(v, W.next) \/ v = W.next)
    BY <1>2, <2>1, ParentIsHigher
  <2>3. W.next < v
    BY <2>1, <2>2, NodesAreLevels DEF Behind
  <2> QED BY <2>3 DEF Steps
<1> QED BY <1>1, <1>2 DEF IsWalk

-----------------------------------------------------------------------------
(* Both walks, and the node where the answer joins them.                   *)

(* Both walks of a query: W from its origin, and V from its target in the  *)
(* opposite direction.                                                     *)
Opposite(D, R) == \A h \in 0 .. N : \A a, b \in Nodes : R[h][<<a, b>>] = D[h][<<b, a>>]

(* What one walk has reached behind it is behind the other as well.        *)
Crossed(W, V) == \A v \in Nodes : W.tent[v] < Inf /\ Behind(v, W.next) => Behind(v, V.next)

(* A shortest path whose highest node both walks have passed is found.     *)
Meets(W, V, least) ==
    \A z \in Nodes :
        /\ Behind(z, W.next) /\ Behind(z, V.next) /\ W.from <= z /\ V.from <= z
        /\ Low(W, z, z) + Low(V, z, z) = Far(W, V.from) /\ Far(W, V.from) < Inf
        => least <= Far(W, V.from)

(* No shortest path from where a walk comes to a node on its way to m uses *)
(* only nodes that are lower than the parent of that node.                 *)
Strict(W, m) ==
    \A v \in Nodes : /\ v <= m /\ W.tent[v] <= W.tent[m] /\ W.tent[v] < Inf
                     /\ v # W.from /\ W.parents[v] # W.from /\ W.tent[v] = Far(W, v)
                     => Far(W, v) < Low(W, W.parents[v], v)

(* The best answer so far is that of the paths of both walks at m. If it   *)
(* is the distance and m is not an end, no shortest path avoids m and what *)
(* is above it.                                                            *)
MetAt(W, V, least, m) ==
    /\ m \in Nodes /\ Behind(m, W.next) /\ Behind(m, V.next) /\ W.from <= m /\ V.from <= m
    /\ W.tent[m] + V.tent[m] = least
    /\ Strict(W, m) /\ Strict(V, m)
    /\ least = Far(W, V.from) /\ m # W.from /\ m # V.from => least < Low(W, m, V.from)

(* The two walks of a query, which has the answer least at the meeting     *)
(* node m.                                                                 *)
Both(W, V, least, m) ==
    /\ IsWalk(W, least) /\ IsWalk(V, least)
    /\ Opposite(W.lengths, V.lengths)
    /\ Crossed(W, V) /\ Crossed(V, W)
    /\ Meets(W, V, least)
    /\ least < Inf => MetAt(W, V, least, m)

(* Neither walk is the first one.                                          *)
LEMMA BothSwap ==
    ASSUME NEW W, NEW V, NEW least, NEW m, Both(W, V, least, m)
    PROVE  Both(V, W, least, m)
<1>1. /\ WellFormed(W) /\ WellFormed(V) /\ W.from \in Nodes /\ V.from \in Nodes /\ N \in 0 .. N /\ Nodes \subseteq 0 .. N
      /\ \A h \in 0 .. N : \A a, b \in Nodes : V.lengths[h][<<a, b>>] = W.lengths[h][<<b, a>>]
  BY NodesAreLevels DEF Both, IsWalk, WellFormed, Opposite
<1>2. \A h \in 0 .. N : Low(V, h, W.from) = Low(W, h, V.from)
  BY <1>1 DEF Low
<1>3. Far(V, W.from) = Far(W, V.from)
  BY <1>1 DEF Far
<1>4. Opposite(V.lengths, W.lengths)
  BY <1>1 DEF Opposite
<1>5. \A v \in Nodes : /\ Low(W, v, v) \in Nat /\ Low(V, v, v) \in Nat /\ W.tent[v] \in Nat /\ V.tent[v] \in Nat
  <2> TAKE v \in Nodes
  <2>1. v \in 0 .. N
    BY <1>1
  <2> QED BY <1>1, <2>1, WalkFacts
<1>6. Meets(V, W, least)
  <2> SUFFICES ASSUME NEW z \in Nodes, Behind(z, W.next), Behind(z, V.next), W.from <= z, V.from <= z,
                      Low(V, z, z) + Low(W, z, z) = Far(V, W.from), Far(V, W.from) < Inf
               PROVE  least <= Far(V, W.from)
    BY DEF Meets
  <2>1. Low(W, z, z) + Low(V, z, z) = Far(W, V.from)
    BY <1>3, <1>5
  <2> QED BY <1>3, <2>1 DEF Both, Meets
<1>7. ASSUME least < Inf PROVE MetAt(V, W, least, m)
  <2>1. MetAt(W, V, least, m)
    BY <1>7 DEF Both
  <2>2. m \in Nodes /\ m \in 0 .. N
    BY <1>1, <2>1 DEF MetAt
  <2>3. V.tent[m] + W.tent[m] = W.tent[m] + V.tent[m]
    BY <1>5, <2>2
  <2>4. Low(V, m, W.from) = Low(W, m, V.from)
    BY <1>2, <2>2
  <2> QED BY <1>3, <2>1, <2>3, <2>4 DEF MetAt
<1> QED BY <1>4, <1>6, <1>7 DEF Both

(* A walk has found the distance of what it has passed, if a path with no  *)
(* higher node has it.                                                     *)
LEMMA ArrivedBehind ==
    ASSUME NEW W, NEW least, IsWalk(W, least), NEW v \in Nodes, Behind(v, W.next) \/ v = W.next, W.from <= v,
           Low(W, v, v) = Far(W, v), Far(W, v) < Inf
    PROVE  W.tent[v] = Far(W, v) \/ least <= Far(W, v)
<1>1. WellFormed(W) /\ W.tent[W.from] = 0 /\ W.from \in Nodes /\ (W.next = None \/ W.next \in Nodes)
  BY DEF IsWalk, Tree, WellFormed
<1>2. ASSUME NEW z \in Nodes, W.from <= z, z < v PROVE Through(W, least, z)
  <2>1. z \in Nat /\ v \in Nat /\ (W.next = None \/ W.next \in Nat)
    BY <1>1, NodesAreLevels
  <2>2. Behind(z, W.next)
    BY <1>2, <2>1 DEF Behind
  <2> QED BY <1>2, <2>2 DEF IsWalk, Complete
<1> QED BY <1>1, <1>2, Arrived

(* Where two parts make a shortest path, both are shortest.                *)
LEMMA ShortestParts ==
    ASSUME NEW W, NEW V, WellFormed(W), WellFormed(V), Opposite(W.lengths, V.lengths), NEW z \in Nodes,
           Low(W, z, z) + Low(V, z, z) = Far(W, V.from), Far(W, V.from) < Inf
    PROVE  /\ Low(W, z, z) = Far(W, z) /\ Low(V, z, z) = Far(V, z)
           /\ Far(W, z) + Far(V, z) = Far(W, V.from)
           /\ Far(W, z) <= Far(W, V.from) /\ Far(V, z) <= Far(W, V.from)
           /\ Far(W, z) < Inf /\ Far(V, z) < Inf
<1>1. W.from \in Nodes /\ V.from \in Nodes /\ z \in 0 .. N /\ N \in 0 .. N
  BY NodesAreLevels DEF WellFormed
<1>2. /\ Far(W, z) \in Nat /\ Low(W, z, z) \in Nat /\ Far(W, z) <= Low(W, z, z) /\ Far(W, V.from) \in Nat
      /\ Far(W, V.from) <= Far(W, z) + W.lengths[N][<<z, V.from>>]
  BY <1>1, WalkFacts
<1>3. Far(V, z) \in Nat /\ Low(V, z, z) \in Nat /\ Far(V, z) <= Low(V, z, z)
  BY <1>1, WalkFacts
<1>4. Far(V, z) = W.lengths[N][<<z, V.from>>]
  BY <1>1 DEF Far, Opposite
<1> QED BY <1>2, <1>3, <1>4, InfAssumption

(* Tentative distances of both walks add up to no less than the distance.  *)
LEMMA SumOfTents ==
    ASSUME NEW W, NEW V, WellFormed(W), WellFormed(V), Opposite(W.lengths, V.lengths), NEW v \in Nodes,
           Far(W, v) <= W.tent[v], Far(V, v) <= V.tent[v]
    PROVE  Far(W, V.from) <= W.tent[v] + V.tent[v]
<1>1. W.from \in Nodes /\ V.from \in Nodes /\ N \in 0 .. N
  BY NodesAreLevels DEF WellFormed
<1>2. /\ Far(W, v) \in Nat /\ Far(W, V.from) \in Nat /\ W.tent[v] \in Nat
      /\ Far(W, V.from) <= Far(W, v) + W.lengths[N][<<v, V.from>>]
  BY <1>1, WalkFacts
<1>3. Far(V, v) \in Nat /\ V.tent[v] \in Nat
  BY <1>1, WalkFacts
<1>4. Far(V, v) = W.lengths[N][<<v, V.from>>]
  BY <1>1 DEF Far, Opposite
<1> QED BY <1>2, <1>3, <1>4

(* What a step does not change.                                            *)
LEMMA StepLower ==
    ASSUME NEW W, NEW least \in Nat, IsWalk(W, least), NEW X, Steps(W, X, least)
    PROVE  /\ X.lengths = W.lengths /\ X.from = W.from /\ W.from <= W.next
           /\ \A v \in Nodes : Behind(v, W.next) \/ v = W.next
                  => Behind(v, X.next) /\ X.tent[v] = W.tent[v] /\ X.parents[v] = W.parents[v]
           /\ \A v \in Nodes : Far(X, v) = Far(W, v) /\ \A h \in 0 .. N : Low(X, h, v) = Low(W, h, v)
           /\ \A m \in Nodes : (Behind(m, W.next) \/ m = W.next) /\ Strict(W, m) => Strict(X, m)
<1>1. W.next \in Nodes /\ X.next = Parent[W.next] /\ X.lengths = W.lengths /\ X.from = W.from /\ W.from <= W.next
  BY NoneIsNoNode DEF Steps, IsWalk, WellFormed
<1>2. ASSUME NEW v \in Nodes, Behind(v, W.next) \/ v = W.next
      PROVE  Behind(v, X.next) /\ X.tent[v] = W.tent[v] /\ X.parents[v] = W.parents[v]
  <2>1. Behind(v, X.next)
    BY <1>1, <1>2, ParentIsHigher
  <2>2. v <= W.next
    BY <1>1, <1>2, NodesAreLevels, NoneIsNoNode DEF Behind
  <2>3. Keeps(W, X, v)
    BY <2>2, StepFacts
  <2> QED BY <2>1, <2>3 DEF Keeps
<1>3. \A v \in Nodes : Far(X, v) = Far(W, v) /\ \A h \in 0 .. N : Low(X, h, v) = Low(W, h, v)
  BY <1>1 DEF Far, Low
<1>4. ASSUME NEW m \in Nodes, Behind(m, W.next) \/ m = W.next, Strict(W, m) PROVE Strict(X, m)
  <2> SUFFICES ASSUME NEW v \in Nodes, v <= m, X.tent[v] <= X.tent[m], X.tent[v] < Inf,
                      v # X.from, X.parents[v] # X.from, X.tent[v] = Far(X, v)
               PROVE  Far(X, v) < Low(X, X.parents[v], v)
    BY DEF Strict
  <2>1. m \in Nat /\ v \in Nat /\ W.next \in Nat
    BY <1>1, NodesAreLevels
  <2>2. Behind(v, W.next) \/ v = W.next
    BY <1>1, <1>4, <2>1, NoneIsNoNode DEF Behind
  <2>3. X.tent[v] = W.tent[v] /\ X.parents[v] = W.parents[v] /\ X.tent[m] = W.tent[m]
    BY <1>2, <1>4, <2>2
  <2>4. Far(W, v) < Low(W, W.parents[v], v)
    BY <1>1, <1>3, <1>4, <2>3 DEF Strict
  <2> QED BY <1>1, <1>3, <2>3, <2>4 DEF Low
<1> QED BY <1>1, <1>2, <1>3, <1>4

(* One walk advances below the other.                                      *)
LEMMA ForwardBoth ==
    ASSUME NEW W, NEW V, NEW least \in Nat, NEW m, Both(W, V, least, m), NEW X, Steps(W, X, least),
           Behind(W.next, V.next)
    PROVE  Both(X, V, least, m)
<1> DEFINE x == W.next
<1>1. /\ IsWalk(W, least) /\ IsWalk(V, least) /\ Opposite(W.lengths, V.lengths) /\ x \in Nodes
      /\ WellFormed(W) /\ WellFormed(V)
  BY DEF Both, Steps, IsWalk
<1>2. /\ X.lengths = W.lengths /\ X.from = W.from
      /\ \A v \in Nodes : Behind(v, x) \/ v = x
             => Behind(v, X.next) /\ X.tent[v] = W.tent[v] /\ X.parents[v] = W.parents[v]
      /\ \A v \in Nodes : Far(X, v) = Far(W, v) /\ \A h \in 0 .. N : Low(X, h, v) = Low(W, h, v)
      /\ \A z \in Nodes : (Behind(z, x) \/ z = x) /\ Strict(W, z) => Strict(X, z)
  BY <1>1, StepLower
<1>3. IsWalk(X, least)
  <2>1. least <= least
    OBVIOUS
  <2> QED BY <1>1, <2>1, StepWalk
<1>4. Opposite(X.lengths, V.lengths)
  BY <1>1, <1>2
<1>5. Crossed(V, X)
  <2> SUFFICES ASSUME NEW v \in Nodes, V.tent[v] < Inf, Behind(v, V.next) PROVE Behind(v, X.next)
    BY DEF Crossed
  <2>1. Behind(v, x)
    BY DEF Both, Crossed
  <2> QED BY <1>2, <2>1
<1>6. Crossed(X, V)
  <2> SUFFICES ASSUME NEW v \in Nodes, X.tent[v] < Inf, Behind(v, X.next) PROVE Behind(v, V.next)
    BY DEF Crossed
  <2>1. v \in Nat /\ x \in Nat
    BY <1>1, NodesAreLevels
  <2>2. CASE v < x
    <3>1. Behind(v, x)
      BY <2>2 DEF Behind
    <3>2. W.tent[v] < Inf
      BY <1>2, <3>1
    <3> QED BY <3>1, <3>2 DEF Both, Crossed
  <2>3. CASE v = x
    BY <2>3
  <2>4. CASE x < v
    <3>1. X.tent[v] = Inf
      BY <2>4, GapIsInf
    <3> QED BY <3>1, InfAssumption
  <2> QED BY <2>1, <2>2, <2>3, <2>4
<1>7. V.from \in Nodes /\ Far(X, V.from) = Far(W, V.from)
  BY <1>1, <1>2 DEF WellFormed
<1>8. Meets(X, V, least)
  <2> SUFFICES ASSUME NEW z \in Nodes, Behind(z, X.next), Behind(z, V.next), W.from <= z, V.from <= z,
                      Low(W, z, z) + Low(V, z, z) = Far(W, V.from), Far(W, V.from) < Inf
               PROVE  least <= Far(W, V.from)
    <3>1. \A z \in Nodes : Low(X, z, z) = Low(W, z, z)
      BY <1>2, NodesAreLevels
    <3> QED BY <1>2, <1>7, <3>1 DEF Meets
  <2>1. CASE Behind(z, x)
    BY <2>1 DEF Both, Meets
  <2>2. CASE ~Behind(z, x)
    <3>1. Low(V, z, z) = Far(V, z) /\ Far(V, z) < Inf /\ Far(V, z) <= Far(W, V.from)
      BY <1>1, ShortestParts
    <3>2. V.tent[z] = Far(V, z) \/ least <= Far(V, z)
      BY <1>1, <3>1, ArrivedBehind
    <3>3. V.tent[z] # Far(V, z)
      BY <2>2, <3>1 DEF Both, Crossed
    <3>4. Far(V, z) \in Nat /\ Far(W, V.from) \in Nat
      BY <1>1, <1>7, WalkFacts
    <3> QED BY <3>1, <3>2, <3>3, <3>4
  <2> QED BY <2>1, <2>2
<1>9. ASSUME least < Inf PROVE MetAt(X, V, least, m)
  <2>1. MetAt(W, V, least, m)
    BY <1>9 DEF Both
  <2>2. m \in Nodes /\ m \in 0 .. N /\ Behind(m, x)
    BY <2>1, NodesAreLevels DEF MetAt
  <2>3. Behind(m, X.next) /\ X.tent[m] = W.tent[m] /\ Strict(X, m) /\ Low(X, m, V.from) = Low(W, m, V.from)
    BY <1>2, <1>7, <2>1, <2>2 DEF MetAt
  <2> QED BY <1>2, <1>7, <2>1, <2>3 DEF MetAt
<1> QED BY <1>1, <1>3, <1>4, <1>5, <1>6, <1>8, <1>9 DEF Both

(* Both walks advance at the same node.                                    *)
LEMMA CommonStrict ==
    ASSUME NEW W, NEW least \in Nat, IsWalk(W, least), NEW x \in Nodes, x = W.next, W.tent[x] < least
    PROVE  Strict(W, x)
<1> SUFFICES ASSUME NEW v \in Nodes, v <= x, W.tent[v] <= W.tent[x], W.tent[v] < Inf,
                    v # W.from, W.parents[v] # W.from, W.tent[v] = Far(W, v)
             PROVE  Far(W, v) < Low(W, W.parents[v], v)
  BY DEF Strict
<1>1. Tree(W, least) /\ W.tent[v] \in Nat /\ W.tent[x] \in Nat
  BY WalkFacts DEF IsWalk
<1>2. Far(W, v) < Low(W, W.parents[v], v) \/ least <= W.tent[v]
  BY <1>1 DEF Tree
<1> QED BY <1>1, <1>2

(* After a node of both walks, the answer is no longer than shortest paths *)
(* whose highest node is behind both.                                      *)
LEMMA CommonMeets ==
    ASSUME NEW W, NEW V, NEW least \in Nat, NEW m, Both(W, V, least, m), NEW X, Steps(W, X, least),
           NEW Y, Steps(V, Y, least), W.next = V.next,
           NEW less \in Nat, less <= least, less <= W.tent[W.next] + V.tent[V.next],
           NEW z \in Nodes, Behind(z, X.next), W.from <= z, V.from <= z,
           Low(W, z, z) + Low(V, z, z) = Far(W, V.from), Far(W, V.from) < Inf
    PROVE  less <= Far(W, V.from)
<1> DEFINE x == W.next
<1>1. /\ IsWalk(W, least) /\ IsWalk(V, least) /\ Opposite(W.lengths, V.lengths) /\ x \in Nodes
      /\ WellFormed(W) /\ WellFormed(V) /\ V.from \in Nodes /\ x \in Nat /\ z \in Nat
  BY NodesAreLevels DEF Both, Steps, IsWalk, WellFormed
<1>2. /\ Low(W, z, z) = Far(W, z) /\ Low(V, z, z) = Far(V, z) /\ Far(W, z) + Far(V, z) = Far(W, V.from)
      /\ Far(W, z) <= Far(W, V.from) /\ Far(V, z) <= Far(W, V.from) /\ Far(W, z) < Inf /\ Far(V, z) < Inf
  BY <1>1, ShortestParts
<1>3. Far(W, z) \in Nat /\ Far(V, z) \in Nat /\ Far(W, V.from) \in Nat
  BY <1>1, WalkFacts
<1>4. CASE z < x
  <2>1. Behind(z, W.next) /\ Behind(z, V.next)
    BY <1>4 DEF Behind
  <2>2. least <= Far(W, V.from)
    BY <2>1 DEF Both, Meets
  <2> QED BY <1>3, <2>2
<1>5. CASE z = x
  <2>1. W.tent[z] = Far(W, z) \/ least <= Far(W, z)
    BY <1>1, <1>2, <1>5, ArrivedBehind
  <2>2. V.tent[z] = Far(V, z) \/ least <= Far(V, z)
    BY <1>1, <1>2, <1>5, ArrivedBehind
  <2> QED BY <1>2, <1>3, <1>5, <2>1, <2>2
<1>6. CASE x < z
  <2>1. IsWalk(X, less) /\ X.from = W.from /\ Far(X, z) = Far(W, z) /\ Low(X, z, z) = Low(W, z, z)
    <3>1. IsWalk(X, less)
      BY <1>1, StepWalk
    <3>2. z \in 0 .. N
      BY NodesAreLevels
    <3> QED BY <1>1, <3>1, <3>2, StepLower
  <2>2. X.tent[z] = Far(X, z) \/ less <= Far(X, z)
    BY <1>2, <2>1, ArrivedBehind
  <2>3. X.tent[z] = Inf
    BY <1>6, GapIsInf
  <2> QED BY <1>2, <1>3, <2>1, <2>2, <2>3, InfAssumption
<1> QED BY <1>1, <1>4, <1>5, <1>6

(* If a path over lower nodes only is as short, it was found before.       *)
LEMMA CommonHigher ==
    ASSUME NEW W, NEW V, NEW least \in Nat, NEW m, Both(W, V, least, m), NEW x \in Nodes,
           x = W.next, x = V.next, Far(W, V.from) < Inf, Far(W, V.from) < least, x # W.from, x # V.from
    PROVE  Far(W, V.from) < Low(W, x, V.from)
<1> DEFINE D == W.lengths
           s == W.from
           t == V.from
<1>1. /\ IsWalk(W, least) /\ IsWalk(V, least) /\ Lengths(D, Inf) /\ WellFormed(W) /\ WellFormed(V)
      /\ s \in Nodes /\ t \in Nodes /\ s \in Nat /\ t \in Nat /\ x \in Nat /\ x \in 0 .. N /\ s <= x /\ t <= x
      /\ s \in 0 .. N /\ t \in 0 .. N
      /\ \A h \in 0 .. N : \A a, b \in Nodes : V.lengths[h][<<a, b>>] = D[h][<<b, a>>]
  BY NoneIsNoNode, NodesAreLevels DEF Both, IsWalk, WellFormed, Opposite
<1>2. /\ Low(W, x, t) \in Nat /\ Far(W, t) \in Nat /\ Far(W, t) <= Low(W, x, t)
  BY <1>1, WalkFacts
<1> SUFFICES ASSUME D[x][<<s, t>>] = Far(W, t) PROVE FALSE
  BY <1>2 DEF Low
<1>3. ASSUME NEW z \in Nodes, s <= z, t <= z, z < x, D[z][<<s, z>>] + D[z][<<z, t>>] = Far(W, t) PROVE FALSE
  <2>1. z \in 0 .. N
    BY NodesAreLevels
  <2>2. Low(V, z, z) = D[z][<<z, t>>] /\ Low(W, z, z) = D[z][<<s, z>>]
    BY <1>1, <2>1 DEF Low
  <2>3. Behind(z, W.next) /\ Behind(z, V.next)
    BY <1>3 DEF Behind
  <2>4. least <= Far(W, t)
    BY <1>3, <2>2, <2>3 DEF Both, Meets
  <2> QED BY <1>2, <2>4
<1>4. D[s][<<s, s>>] = 0 /\ D[t][<<t, t>>] = 0 /\ D[s][<<s, t>>] \in Nat /\ D[t][<<s, t>>] \in Nat
  BY <1>1, LengthLaws
<1>5. ASSUME D[s][<<s, t>>] = Far(W, t), t <= s PROVE FALSE
  BY <1>1, <1>3, <1>4, <1>5
<1>6. ASSUME D[t][<<s, t>>] = Far(W, t), s <= t PROVE FALSE
  BY <1>1, <1>3, <1>4, <1>6
<1>7. /\ Far(W, t) <= D[s][<<s, t>>] /\ Far(W, t) <= D[t][<<s, t>>]
      /\ D[s][<<s, t>>] <= D[0][<<s, t>>] /\ D[t][<<s, t>>] <= D[0][<<s, t>>]
  <2>1. Far(W, t) <= D[s][<<s, t>>] /\ Far(W, t) <= D[t][<<s, t>>]
    BY <1>1, WalkFacts DEF Low
  <2> QED BY <1>1, <2>1, Composed, InfAssumption
<1>8. CASE D[x][<<s, t>>] = D[0][<<s, t>>]
  BY <1>1, <1>2, <1>4, <1>5, <1>6, <1>7, <1>8
<1>9. CASE Over(D, x, s, t)
  <2>1. PICK z \in 0 .. x - 1 : D[x][<<s, t>>] = D[z][<<s, z>>] + D[z][<<z, t>>]
    BY <1>9 DEF Over
  <2>2. z \in Nodes /\ z < x /\ z \in Nat
    BY <1>1, NodesAreLevels
  <2>3. CASE s <= z /\ t <= z
    BY <1>3, <2>1, <2>2, <2>3
  <2>4. CASE z < s /\ t <= s
    <3>1. z \in 0 .. s - 1
      BY <1>1, <2>2, <2>4
    <3>2. D[s][<<s, t>>] <= D[z][<<s, z>>] + D[z][<<z, t>>]
      BY <1>1, <3>1, Composed, InfAssumption
    <3> QED BY <1>2, <1>4, <1>5, <1>7, <2>1, <2>4, <3>2
  <2>5. CASE z < t /\ s <= t
    <3>1. z \in 0 .. t - 1
      BY <1>1, <2>2, <2>5
    <3>2. D[t][<<s, t>>] <= D[z][<<s, z>>] + D[z][<<z, t>>]
      BY <1>1, <3>1, Composed, InfAssumption
    <3> QED BY <1>2, <1>4, <1>6, <1>7, <2>1, <2>5, <3>2
  <2> QED BY <1>1, <2>2, <2>3, <2>4, <2>5
<1>10. D[x][<<s, t>>] = D[0][<<s, t>>] \/ Over(D, x, s, t)
  BY <1>1, Composed, InfAssumption
<1> QED BY <1>8, <1>9, <1>10

(* The answer and the meeting node after a node of both walks.             *)
Joins(W, V, least, m, less, n) ==
    LET x == W.next
        over == W.tent[x] + V.tent[x]
    IN  /\ x = V.next
        /\ IF over < least THEN less = over /\ n = x ELSE less = least /\ n = m

(* A node of both walks keeps what holds of them.                          *)
LEMMA CommonBoth ==
    ASSUME NEW W, NEW V, NEW least \in Nat, least <= Inf, NEW m, Both(W, V, least, m), NEW X, Steps(W, X, least),
           NEW Y, Steps(V, Y, least), NEW less, NEW n, Joins(W, V, least, m, less, n)
    PROVE  Both(X, Y, less, n)
<1> PICK x : x = W.next
  OBVIOUS
<1>0. /\ x = V.next
      /\ IF W.tent[x] + V.tent[x] < least THEN less = W.tent[x] + V.tent[x] /\ n = x ELSE less = least /\ n = m
  BY DEF Joins
<1>1. /\ IsWalk(W, least) /\ IsWalk(V, least) /\ Opposite(W.lengths, V.lengths) /\ x \in Nodes
      /\ WellFormed(W) /\ WellFormed(V) /\ Tree(W, least) /\ Tree(V, least)
  BY <1>0 DEF Both, Steps, IsWalk
<1>2. /\ V.from \in Nodes /\ W.from \in Nodes /\ W.tent[x] \in Nat /\ V.tent[x] \in Nat /\ Far(W, V.from) \in Nat
      /\ x \in Nat
  BY <1>1, WalkFacts, NodesAreLevels DEF WellFormed
<1>3. less \in Nat /\ less <= least /\ less <= W.tent[x] + V.tent[x]
  BY <1>0, <1>2
<1>4. /\ X.lengths = W.lengths /\ X.from = W.from /\ W.from <= x
      /\ \A v \in Nodes : Behind(v, x) \/ v = x
             => Behind(v, X.next) /\ X.tent[v] = W.tent[v] /\ X.parents[v] = W.parents[v]
      /\ \A v \in Nodes : Far(X, v) = Far(W, v) /\ \A h \in 0 .. N : Low(X, h, v) = Low(W, h, v)
      /\ \A z \in Nodes : (Behind(z, x) \/ z = x) /\ Strict(W, z) => Strict(X, z)
  <2>1. /\ X.lengths = W.lengths /\ X.from = W.from /\ W.from <= W.next
        /\ \A v \in Nodes : Behind(v, W.next) \/ v = W.next
               => Behind(v, X.next) /\ X.tent[v] = W.tent[v] /\ X.parents[v] = W.parents[v]
        /\ \A v \in Nodes : Far(X, v) = Far(W, v) /\ \A h \in 0 .. N : Low(X, h, v) = Low(W, h, v)
        /\ \A z \in Nodes : (Behind(z, W.next) \/ z = W.next) /\ Strict(W, z) => Strict(X, z)
    BY <1>1, StepLower
  <2> QED BY <2>1
<1>5. /\ Y.lengths = V.lengths /\ Y.from = V.from /\ V.from <= x
      /\ \A v \in Nodes : Behind(v, x) \/ v = x
             => Behind(v, Y.next) /\ Y.tent[v] = V.tent[v] /\ Y.parents[v] = V.parents[v]
      /\ \A v \in Nodes : Far(Y, v) = Far(V, v) /\ \A h \in 0 .. N : Low(Y, h, v) = Low(V, h, v)
      /\ \A z \in Nodes : (Behind(z, x) \/ z = x) /\ Strict(V, z) => Strict(Y, z)
  BY <1>0, <1>1, StepLower
<1>6. IsWalk(X, less)
  BY <1>1, <1>3, StepWalk
<1>7. IsWalk(Y, less)
  BY <1>1, <1>3, StepWalk
<1>8. X.next = Y.next /\ Opposite(X.lengths, Y.lengths)
  BY <1>0, <1>1, <1>4, <1>5 DEF Steps
<1>9. Crossed(X, Y) /\ Crossed(Y, X)
  BY <1>8 DEF Crossed
<1>10. Far(X, Y.from) = Far(W, V.from)
  BY <1>2, <1>4, <1>5
<1>11. Meets(X, Y, less)
  <2> SUFFICES ASSUME NEW z \in Nodes, Behind(z, X.next), W.from <= z, V.from <= z,
                      Low(W, z, z) + Low(V, z, z) = Far(W, V.from), Far(W, V.from) < Inf
               PROVE  less <= Far(W, V.from)
    <3>1. \A z \in Nodes : Low(X, z, z) = Low(W, z, z) /\ Low(Y, z, z) = Low(V, z, z)
      BY <1>4, <1>5, NodesAreLevels
    <3> QED BY <1>4, <1>5, <1>10, <3>1 DEF Meets
  <2> QED BY <1>0, <1>3, CommonMeets
<1>12. ASSUME less < Inf PROVE MetAt(X, Y, less, n)
  <2>1. CASE W.tent[x] + V.tent[x] < least
    <3>1. less = W.tent[x] + V.tent[x] /\ n = x /\ less < least
      BY <1>0, <1>2, <2>1
    <3>2. X.tent[x] + Y.tent[x] = less /\ Behind(x, X.next) /\ Behind(x, Y.next)
      BY <1>1, <1>4, <1>5, <3>1
    <3>3. W.tent[x] < least /\ V.tent[x] < least
      BY <1>2, <3>1
    <3>4. Strict(X, x) /\ Strict(Y, x)
      <4>1. Strict(W, x)
        BY <1>0, <1>1, <3>3, CommonStrict
      <4>2. Strict(V, x)
        BY <1>0, <1>1, <3>3, CommonStrict
      <4> QED BY <1>1, <1>4, <1>5, <4>1, <4>2
    <3>5. ASSUME less = Far(W, V.from), x # W.from, x # V.from PROVE less < Low(X, x, V.from)
      <4>1. Far(W, V.from) < Low(W, x, V.from)
        BY <1>0, <1>1, <1>12, <3>1, <3>5, CommonHigher
      <4>2. x \in 0 .. N
        BY <1>1, NodesAreLevels
      <4> QED BY <1>2, <1>4, <3>5, <4>1, <4>2
    <3> QED BY <1>1, <1>4, <1>5, <1>10, <3>1, <3>2, <3>4, <3>5 DEF MetAt
  <2>2. CASE ~(W.tent[x] + V.tent[x] < least)
    <3>1. less = least /\ n = m /\ MetAt(W, V, least, m)
      BY <1>0, <1>12, <2>2 DEF Both
    <3>2. m \in Nodes /\ m \in 0 .. N /\ Behind(m, x)
      BY <3>1, NodesAreLevels DEF MetAt
    <3>3. /\ Behind(m, X.next) /\ X.tent[m] = W.tent[m] /\ Strict(X, m) /\ Low(X, m, V.from) = Low(W, m, V.from)
          /\ Behind(m, Y.next) /\ Y.tent[m] = V.tent[m] /\ Strict(Y, m)
      BY <1>2, <1>4, <1>5, <3>1, <3>2 DEF MetAt
    <3> QED BY <1>4, <1>5, <1>10, <3>1, <3>2, <3>3 DEF MetAt
  <2> QED BY <2>1, <2>2
<1> QED BY <1>6, <1>7, <1>8, <1>9, <1>11, <1>12 DEF Both

-----------------------------------------------------------------------------
(* What parents say when both walks are over: two halves of a tight path.  *)

(* The nodes on the way of a walk, by its parents: always higher, and each *)
(* the highest on the way to it.                                           *)
Chain(W, Q, k) ==
    /\ Tight(W.lengths, Q, k) /\ Q[0] = W.from
    /\ \A i \in 0 .. k - 1 : Q[i] = W.parents[Q[i + 1]]
    /\ \A i, j \in 0 .. k : i < j => Q[i] < Q[j]
    /\ \A i \in 0 .. k : Low(W, Q[i], Q[i]) = Far(W, Q[i])

(* A path with one more node.                                              *)
Longer(Q, k, v) == [n \in 0 .. k + 1 |-> IF n <= k THEN Q[n] ELSE v]

(* The distance of a node is that of its parent and the edge between them. *)
LEMMA LedByDistance ==
    ASSUME NEW W, NEW least, IsWalk(W, least), NEW v \in Nodes, v # W.from, W.tent[v] = Far(W, v), W.tent[v] < Inf
    PROVE  LET p == W.parents[v]
           IN  /\ p \in Nodes /\ p < v /\ Piece(W.lengths, p, v)
               /\ W.tent[p] = Far(W, p) /\ Low(W, p, p) = Far(W, p) /\ W.tent[p] <= W.tent[v] /\ W.tent[p] < Inf
               /\ Far(W, v) = Far(W, p) + W.lengths[N][<<p, v>>]
<1> DEFINE p == W.parents[v]
           D == W.lengths
<1>1. WellFormed(W) /\ Led(W, v) /\ \A u \in Nodes : Low(W, u, u) <= W.tent[u]
  BY DEF IsWalk, Tree
<1>2. p \in Nodes /\ p < v /\ <<p, v>> \in W.edges /\ W.tent[v] = W.tent[p] + W.weight[<<p, v>>]
  BY <1>1 DEF Led
<1>3. <<p, v>> \in Edges /\ W.weight[<<p, v>>] = D[p][<<p, v>>]
  <2>1. <<p, v>> \in Edges
    BY <1>1, <1>2 DEF WellFormed, Kept
  <2> QED BY <1>1, <2>1 DEF WellFormed, EdgeLengths
<1>4. p \in 0 .. N /\ v \in Nat /\ p \in Nat
  BY <1>2, NodesAreLevels
<1>5. /\ Low(W, p, p) \in Nat /\ Far(W, p) <= Low(W, p, p) /\ Far(W, p) \in Nat /\ W.tent[p] \in Nat
      /\ D[p][<<p, v>>] \in Nat /\ D[N][<<p, v>>] <= D[p][<<p, v>>] /\ Far(W, v) <= Far(W, p) + D[N][<<p, v>>]
      /\ W.tent[v] \in Nat
  BY <1>1, <1>2, <1>4, WalkFacts
<1>6. Low(W, p, p) <= W.tent[p] /\ D[N][<<p, v>>] \in Nat
  BY <1>1, <1>2, WalkFacts, NodesAreLevels
<1>7. /\ W.tent[p] = Far(W, p) /\ Low(W, p, p) = Far(W, p) /\ W.tent[p] <= W.tent[v] /\ W.tent[p] < Inf
      /\ D[N][<<p, v>>] = D[p][<<p, v>>] /\ Far(W, v) = Far(W, p) + D[N][<<p, v>>] /\ D[N][<<p, v>>] < Inf
  BY <1>2, <1>3, <1>5, <1>6, InfAssumption
<1>8. Piece(D, p, v)
  BY <1>2, <1>3, <1>7 DEF Piece, Adjacent, Edges
<1> QED BY <1>2, <1>7, <1>8

(* A node in front of which the distances of a chain go on.                *)
LEMMA ChainGoesOn ==
    ASSUME NEW W, NEW Q, NEW k, WellFormed(W), Chain(W, Q, k), NEW p, Q[k] = p, NEW v \in Nodes,
           Far(W, v) = Far(W, p) + W.lengths[N][<<p, v>>], p # W.from => Far(W, v) < Low(W, p, v)
    PROVE  \A i, l \in 0 .. k : i < l => Between(W.lengths, Q[i], Q[l], v)
<1> DEFINE D == W.lengths
           d == D[N]
           s == W.from
<1>1. Lengths(D, Inf) /\ s \in Nodes /\ k \in Nat /\ (\A i \in 0 .. k : Q[i] \in Nodes) /\ p \in Nodes /\ 0 \in 0 .. k /\ k \in 0 .. k
  BY DEF WellFormed, Chain, Tight
<1>2. \A i, l, j \in 0 .. k : i < l /\ l < j => Between(D, Q[i], Q[l], Q[j])
  BY DEF Chain, Tight
<1>3. \A a, b \in Nodes : d[<<a, b>>] \in Nat
  BY <1>1, LengthLaws, NodesAreLevels
<1>4. \A a, b, c \in Nodes : d[<<a, c>>] <= d[<<a, b>>] + d[<<b, c>>]
  BY <1>1, LengthLaws
<1>5. \A a \in Nodes : d[<<a, a>>] = 0
  BY <1>1, LengthLaws, NodesAreLevels
<1>6. d[<<s, v>>] = d[<<s, p>>] + d[<<p, v>>]
  BY DEF Far
<1>7. ASSUME NEW i \in 0 .. k PROVE d[<<Q[i], v>>] = d[<<Q[i], p>>] + d[<<p, v>>] /\ d[<<s, v>>] = d[<<s, Q[i]>>] + d[<<Q[i], v>>]
  <2> DEFINE a == Q[i]
  <2>1. a \in Nodes /\ Q[0] = s
    BY <1>1 DEF Chain
  <2>2. d[<<s, p>>] = d[<<s, a>>] + d[<<a, p>>]
    <3>1. CASE i = 0
      BY <1>1, <1>3, <1>5, <2>1, <3>1
    <3>2. CASE i = k
      BY <1>1, <1>3, <1>5, <2>1, <3>2
    <3>3. CASE 0 < i /\ i < k
      BY <1>1, <1>2, <2>1, <3>3 DEF Between
    <3> QED BY <1>1, <3>1, <3>2, <3>3
  <2>3. d[<<s, v>>] <= d[<<s, a>>] + d[<<a, v>>] /\ d[<<a, v>>] <= d[<<a, p>>] + d[<<p, v>>]
    BY <1>1, <1>4, <2>1
  <2>4. d[<<s, a>>] \in Nat /\ d[<<a, v>>] \in Nat /\ d[<<a, p>>] \in Nat /\ d[<<p, v>>] \in Nat
    BY <1>1, <1>3, <2>1
  <2> HIDE DEF a, d
  <2> QED BY <1>6, <2>2, <2>3, <2>4 DEF a
<1>8. ASSUME NEW i \in 0 .. k, i < k PROVE d[<<Q[i], v>>] < D[p][<<Q[i], v>>]
  <2> DEFINE a == Q[i]
  <2>1. a \in Nodes /\ Q[0] = s /\ a < p /\ s < p /\ s \in Nat /\ a \in Nat /\ p \in Nat /\ a \in 0 .. N /\ p \in 0 .. N
    <3>1. a \in Nodes /\ Q[0] = s /\ a < p /\ Q[0] < p
      BY <1>1, <1>8 DEF Chain
    <3> QED BY <1>1, <3>1, NodesAreLevels
  <2>2. d[<<s, v>>] < D[p][<<s, v>>]
    BY <2>1 DEF Far, Low
  <2>3. D[p][<<s, v>>] <= D[p][<<s, a>>] + D[p][<<a, v>>]
    <3>1. a \in 0 .. p - 1
      BY <2>1
    <3> QED BY <1>1, <2>1, <3>1, LengthLaws
  <2>4. D[p][<<s, a>>] <= D[a][<<s, a>>] /\ D[a][<<s, a>>] = d[<<s, a>>]
    <3>1. a \in 0 .. p
      BY <2>1
    <3>2. D[a][<<s, a>>] = d[<<s, a>>]
      BY DEF Chain, Low, Far
    <3> QED BY <1>1, <2>1, <3>1, <3>2, LengthLaws
  <2>5. D[p][<<s, v>>] \in Nat /\ D[p][<<s, a>>] \in Nat /\ D[p][<<a, v>>] \in Nat /\ d[<<s, a>>] \in Nat /\ d[<<a, v>>] \in Nat
    BY <1>1, <1>3, <2>1, LengthLaws
  <2>6. d[<<s, v>>] = d[<<s, a>>] + d[<<a, v>>]
    BY <1>7
  <2> HIDE DEF a, d
  <2>7. d[<<a, v>>] < D[p][<<a, v>>]
    BY <2>2, <2>3, <2>4, <2>5, <2>6
  <2> QED BY <2>7 DEF a
<1> SUFFICES ASSUME NEW i \in 0 .. k, NEW l \in 0 .. k, i < l PROVE Between(D, Q[i], Q[l], v)
  OBVIOUS
<1> DEFINE a == Q[i]
           b == Q[l]
<1>9. a \in Nodes /\ b \in Nodes /\ i < k /\ a \in Nat /\ b \in Nat /\ p \in Nat /\ b \in 0 .. N /\ p \in 0 .. N
  <2>1. a \in Nodes /\ b \in Nodes
    BY <1>1
  <2> QED BY <1>1, <2>1, NodesAreLevels
<1>10. d[<<a, v>>] = d[<<a, b>>] + d[<<b, v>>]
  <2>1. CASE l = k
    BY <1>7, <2>1
  <2>2. CASE l < k
    <3>1. d[<<a, p>>] = d[<<a, b>>] + d[<<b, p>>]
      BY <1>1, <1>2, <2>2 DEF Between
    <3>2. d[<<a, v>>] = d[<<a, p>>] + d[<<p, v>>] /\ d[<<b, v>>] = d[<<b, p>>] + d[<<p, v>>]
      BY <1>7
    <3>3. d[<<a, b>>] \in Nat /\ d[<<b, p>>] \in Nat /\ d[<<p, v>>] \in Nat
      BY <1>1, <1>3, <1>9
    <3> HIDE DEF a, b, d
    <3> QED BY <3>1, <3>2, <3>3
  <2> QED BY <1>1, <2>1, <2>2
<1>11. d[<<a, v>>] < D[b][<<a, v>>]
  <2>1. d[<<a, v>>] < D[p][<<a, v>>]
    BY <1>8, <1>9
  <2>2. b <= p
    <3>1. l < k => b < p
      BY <1>1 DEF Chain
    <3> QED BY <1>1, <1>9, <3>1
  <2>3. D[p][<<a, v>>] <= D[b][<<a, v>>] /\ D[b][<<a, v>>] \in Nat /\ D[p][<<a, v>>] \in Nat /\ d[<<a, v>>] \in Nat
    <3>1. b \in 0 .. p
      BY <1>9, <2>2
    <3> QED BY <1>1, <1>3, <1>9, <3>1, LengthLaws
  <2> HIDE DEF a, b, d
  <2> QED BY <2>1, <2>3
<1> QED BY <1>10, <1>11 DEF Between

(* The chain of the parent of a node goes on to the node.                  *)
LEMMA ChainExtend ==
    ASSUME NEW W, NEW least, IsWalk(W, least), NEW v \in Nodes, v # W.from, W.tent[v] = Far(W, v), W.tent[v] < Inf,
           Low(W, v, v) = Far(W, v),
           W.parents[v] # W.from => Far(W, v) < Low(W, W.parents[v], v),
           NEW Q, NEW k, Chain(W, Q, k), Q[k] = W.parents[v]
    PROVE  Chain(W, Longer(Q, k, v), k + 1)
<1> DEFINE P == Longer(Q, k, v)
           p == W.parents[v]
           D == W.lengths
<1>1. WellFormed(W) /\ k \in Nat /\ Q \in [0 .. k -> Nodes] /\ v \in Nat
  BY NodesAreLevels DEF IsWalk, Chain, Tight
<1>2. /\ p \in Nodes /\ p < v /\ Piece(D, p, v) /\ p \in Nat
      /\ Far(W, v) = Far(W, p) + D[N][<<p, v>>]
  BY LedByDistance, NodesAreLevels
<1>3. (\A n \in 0 .. k : P[n] = Q[n]) /\ P[k + 1] = v
  BY <1>1 DEF Longer
<1>4. \A n \in 0 .. k + 1 : n \in 0 .. k \/ n = k + 1
  BY <1>1
<1>5. P \in [0 .. k + 1 -> Nodes]
  BY <1>1 DEF Longer
<1> HIDE DEF P, D, p
<1>6. \A i, l \in 0 .. k : i < l => Between(D, Q[i], Q[l], v)
  BY <1>1, <1>2, ChainGoesOn DEF D, p
<1>7. Tight(D, P, k + 1)
  <2>1. ASSUME NEW i \in 0 .. k PROVE Piece(D, P[i], P[i + 1])
    <3>1. CASE i < k
      <4>1. i \in 0 .. k - 1 /\ i + 1 \in 0 .. k
        BY <1>1, <3>1
      <4> QED BY <1>3, <4>1 DEF Chain, Tight, D
    <3>2. CASE i = k
      BY <1>2, <1>3, <3>2 DEF p
    <3> QED BY <1>1, <3>1, <3>2
  <2>2. ASSUME NEW i \in 0 .. k + 1, NEW l \in 0 .. k + 1, NEW j \in 0 .. k + 1, i < l, l < j
        PROVE  Between(D, P[i], P[l], P[j])
    <3>1. i \in 0 .. k /\ l \in 0 .. k
      BY <1>1, <2>2
    <3>2. CASE j \in 0 .. k
      BY <1>3, <2>2, <3>1, <3>2 DEF Chain, Tight, D
    <3>3. CASE j = k + 1
      BY <1>3, <1>6, <2>2, <3>1, <3>3
    <3> QED BY <1>4, <3>2, <3>3
  <2>3. k + 1 \in Nat /\ (k + 1) - 1 = k
    BY <1>1
  <2> QED BY <1>5, <2>1, <2>2, <2>3 DEF Tight
<1>8. ASSUME NEW i \in 0 .. k PROVE P[i] = W.parents[P[i + 1]]
  <2>1. CASE i < k
    <3>1. i \in 0 .. k - 1 /\ i + 1 \in 0 .. k
      BY <1>1, <2>1
    <3> QED BY <1>3, <3>1 DEF Chain
  <2>2. CASE i = k
    BY <1>3, <2>2
  <2> QED BY <1>1, <2>1, <2>2
<1>9. ASSUME NEW i \in 0 .. k + 1, NEW j \in 0 .. k + 1, i < j PROVE P[i] < P[j]
  <2>1. i \in 0 .. k
    BY <1>1, <1>9
  <2>2. CASE j \in 0 .. k
    BY <1>3, <1>9, <2>1, <2>2 DEF Chain
  <2>3. CASE j = k + 1
    <3>1. i < k => Q[i] < Q[k]
      BY <1>1, <2>1 DEF Chain
    <3>2. Q[i] \in Nat /\ Q[k] = p
      BY <1>1, <2>1, NodesAreLevels DEF p
    <3>3. Q[i] < v
      BY <1>1, <1>2, <2>1, <3>1, <3>2
    <3> QED BY <1>3, <2>1, <2>3, <3>3
  <2> QED BY <1>4, <2>2, <2>3
<1>10. ASSUME NEW i \in 0 .. k + 1 PROVE Low(W, P[i], P[i]) = Far(W, P[i])
  <2>1. CASE i \in 0 .. k
    BY <1>3, <2>1 DEF Chain
  <2> QED BY <1>3, <1>4, <2>1
<1>11. P[0] = W.from /\ (k + 1) - 1 = k
  BY <1>1, <1>3 DEF Chain
<1> QED BY <1>7, <1>8, <1>9, <1>10, <1>11 DEF Chain, P, D

(* A node whose tentative distance is its distance has a chain.            *)
LEMMA ChainUp ==
    ASSUME NEW W, NEW least, IsWalk(W, least), NEW m \in Nodes, Strict(W, m), W.tent[m] = Far(W, m), W.tent[m] < Inf
    PROVE  \E k \in Nat : \E Q : Chain(W, Q, k) /\ Q[k] = m
<1> DEFINE Holds(v) == v \in Nodes /\ v <= m /\ W.tent[v] = Far(W, v) /\ W.tent[v] <= W.tent[m]
                           => \E k \in Nat : \E Q : Chain(W, Q, k) /\ Q[k] = v
           S == {v \in 0 .. m : Holds(v)}
<1>1. WellFormed(W) /\ m \in Nat /\ W.from \in Nodes /\ N \in Nat /\ Nodes = 0 .. N - 1 /\ Tree(W, least)
  BY NodesAreLevels DEF IsWalk, WellFormed
<1>2. ASSUME NEW v \in 0 .. m, 0 .. v - 1 \subseteq S PROVE v \in S
  <2> SUFFICES ASSUME v \in Nodes, v <= m, W.tent[v] = Far(W, v), W.tent[v] <= W.tent[m]
               PROVE  \E k \in Nat : \E Q : Chain(W, Q, k) /\ Q[k] = v
    OBVIOUS
  <2>1. W.tent[v] \in Nat /\ W.tent[m] \in Nat /\ W.tent[v] < Inf /\ v \in Nat /\ v \in 0 .. N
    <3>1. W.tent[v] \in Nat /\ W.tent[m] \in Nat
      BY <1>1, WalkFacts
    <3> QED BY <1>1, <3>1, InfAssumption
  <2>2. Low(W, v, v) = Far(W, v)
    <3>1. Low(W, v, v) \in Nat /\ Far(W, v) <= Low(W, v, v) /\ Far(W, v) \in Nat
      BY <1>1, <2>1, WalkFacts
    <3>2. Low(W, v, v) <= W.tent[v]
      BY <1>1 DEF Tree
    <3> QED BY <3>1, <3>2
  <2>3. CASE v = W.from
    <3> DEFINE Q == [n \in 0 .. 0 |-> v]
    <3>1. Tight(W.lengths, Q, 0)
      BY DEF Tight
    <3>2. \A i \in 0 .. 0 : Q[i] = v
      OBVIOUS
    <3>3. Chain(W, Q, 0)
      <4> HIDE DEF Q
      <4> QED BY <2>2, <2>3, <3>1, <3>2 DEF Chain
    <3>4. Q[0] = v
      OBVIOUS
    <3> HIDE DEF Q
    <3> QED BY <3>3, <3>4
  <2>4. CASE v # W.from
    <3> DEFINE p == W.parents[v]
    <3>1. p \in Nodes /\ p < v /\ W.tent[p] = Far(W, p) /\ W.tent[p] <= W.tent[v]
      BY <2>1, <2>4, LedByDistance
    <3>2. p \in 0 .. v - 1 /\ p <= m /\ W.tent[p] <= W.tent[m]
      <4>1. p \in Nat /\ W.tent[p] \in Nat
        BY <1>1, <3>1, WalkFacts, NodesAreLevels
      <4> QED BY <1>1, <2>1, <3>1, <4>1
    <3>3. PICK k, Q : k \in Nat /\ Chain(W, Q, k) /\ Q[k] = p
      <4>1. p \in S
        BY <1>2, <3>2
      <4> QED BY <3>1, <3>2, <4>1
    <3>4. W.parents[v] # W.from => Far(W, v) < Low(W, W.parents[v], v)
      BY <2>1, <2>4 DEF Strict
    <3>5. Chain(W, Longer(Q, k, v), k + 1)
      BY <2>1, <2>2, <2>4, <3>3, <3>4, ChainExtend
    <3>6. k + 1 \in Nat /\ Longer(Q, k, v)[k + 1] = v
      BY <3>3 DEF Longer
    <3> QED BY <3>5, <3>6
  <2> QED BY <2>3, <2>4
<1>3. 0 .. m \subseteq S
  <2> HIDE DEF S
  <2> QED BY <1>1, <1>2, InductionUpTo
<1>4. m \in S
  BY <1>1, <1>3
<1>5. W.tent[m] \in Nat
  BY <1>1, WalkFacts
<1> QED BY <1>1, <1>4, <1>5

(* The half of a path from its origin to the highest node on it, and the   *)
(* half from there to its target, with the parents that lead along them.   *)
UpTo(D, s, m, Q, k, leads) ==
    /\ Tight(D, Q, k) /\ Q[0] = s /\ Q[k] = m
    /\ \A i \in 0 .. k - 1 : Q[i] < m /\ leads[Q[i + 1]] = Q[i]
    /\ \A i \in 0 .. k : D[m][<<s, Q[i]>>] = D[N][<<s, Q[i]>>]

(* The pointers lead along a tight path down from m to t.                  *)
DownFrom(D, m, t, S, l, leads) ==
    /\ Tight(D, S, l) /\ S[0] = m /\ S[l] = t
    /\ \A i \in 0 .. l - 1 : S[i + 1] < m /\ leads[S[i]] = S[i + 1]
    /\ \A i \in 0 .. l : D[m][<<S[i], t>>] = D[N][<<S[i], t>>]

(* The chain of the meeting node is a path up to it.                       *)
LEMMA ChainIsUp ==
    ASSUME NEW W, NEW Q, NEW k, WellFormed(W), Chain(W, Q, k), NEW m, Q[k] = m
    PROVE  UpTo(W.lengths, W.from, m, Q, k, W.parents)
<1> DEFINE D == W.lengths
           s == W.from
<1>1. Lengths(D, Inf) /\ s \in Nodes /\ k \in Nat /\ k \in 0 .. k /\ m \in Nodes
  BY DEF WellFormed, Chain, Tight
<1>2. ASSUME NEW i \in 0 .. k - 1 PROVE Q[i] < m /\ W.parents[Q[i + 1]] = Q[i]
  BY <1>1 DEF Chain
<1>3. ASSUME NEW i \in 0 .. k PROVE D[m][<<s, Q[i]>>] = D[N][<<s, Q[i]>>]
  <2>1. Q[i] \in Nodes /\ Q[i] \in Nat /\ m \in 0 .. N /\ m \in Nat /\ N \in 0 .. N
    <3>1. Q[i] \in Nodes
      BY <1>1 DEF Chain, Tight
    <3> QED BY <1>1, <3>1, NodesAreLevels
  <2>2. Q[i] <= m
    <3>1. i < k => Q[i] < m
      BY <1>1 DEF Chain
    <3> QED BY <1>1, <2>1, <3>1
  <2>3. D[Q[i]][<<s, Q[i]>>] = D[N][<<s, Q[i]>>]
    BY DEF Chain, Low, Far
  <2>4. Q[i] \in 0 .. m
    BY <2>1, <2>2
  <2>5. D[m][<<s, Q[i]>>] <= D[Q[i]][<<s, Q[i]>>] /\ D[N][<<s, Q[i]>>] <= D[m][<<s, Q[i]>>]
    BY <1>1, <2>1, <2>4, LengthLaws
  <2>6. D[N][<<s, Q[i]>>] \in Nat /\ D[m][<<s, Q[i]>>] \in Nat
    BY <1>1, <2>1, LengthLaws
  <2> QED BY <2>3, <2>5, <2>6
<1> QED BY <1>2, <1>3 DEF UpTo, Chain

(* In the other direction, what leads up from t leads down to it.          *)
LEMMA UpIsDown ==
    ASSUME NEW D, Lengths(D, Inf), NEW Q, NEW k, NEW t \in Nodes, NEW m, NEW leads,
           UpTo(Reversed(D), t, m, Q, k, leads)
    PROVE  DownFrom(D, m, t, [n \in 0 .. k |-> Q[k - n]], k, leads)
<1> DEFINE R == Reversed(D)
           S == [n \in 0 .. k |-> Q[k - n]]
<1>1. k \in Nat /\ k \in 0 .. k /\ 0 \in 0 .. k /\ Q \in [0 .. k -> Nodes] /\ m \in Nodes /\ m \in 0 .. N /\ N \in 0 .. N
  BY NodesAreLevels DEF UpTo, Tight
<1>2. Tight(D, S, k)
  BY TightReversed DEF UpTo
<1>3. Lengths(R, Inf) /\ \A h \in 0 .. N : \A a, b \in Nodes : R[h][<<a, b>>] = D[h][<<b, a>>]
  BY ReversedLengths, InfAssumption
<1>4. ASSUME NEW i \in 0 .. k - 1 PROVE S[i + 1] < m /\ leads[S[i]] = S[i + 1]
  <2>1. k - (i + 1) \in 0 .. k - 1 /\ (k - (i + 1)) + 1 = k - i /\ i \in 0 .. k /\ i + 1 \in 0 .. k
    BY <1>1
  <2> QED BY <2>1 DEF UpTo
<1>5. ASSUME NEW i \in 0 .. k PROVE D[m][<<S[i], t>>] = D[N][<<S[i], t>>]
  <2>1. k - i \in 0 .. k /\ S[i] = Q[k - i] /\ Q[k - i] \in Nodes
    BY <1>1
  <2>2. R[m][<<t, Q[k - i]>>] = R[N][<<t, Q[k - i]>>]
    BY <2>1 DEF UpTo
  <2> QED BY <1>1, <1>3, <2>1, <2>2
<1>6. S[0] = m /\ S[k] = t
  BY <1>1 DEF UpTo
<1> HIDE DEF S
<1>7. DownFrom(D, m, t, S, k, leads)
  BY <1>2, <1>4, <1>5, <1>6 DEF DownFrom
<1> QED BY <1>7 DEF S

(* What the halves of a path have to do with each other: m is the node     *)
(* where they meet, and no path over lower nodes only is as short.         *)
Joint(D, s, t, m) ==
    /\ s \in Nodes /\ t \in Nodes /\ m \in Nodes
    /\ D[N][<<s, t>>] = D[N][<<s, m>>] + D[N][<<m, t>>]
    /\ m # s /\ m # t => D[N][<<s, t>>] < D[m][<<s, t>>]

(* Two paths, one after the other.                                         *)
JoinAt(Q, k, S, l) == [n \in 0 .. k + l |-> IF n <= k THEN Q[n] ELSE S[n - k]]

(* A shortest path from one half to the other leads over m, and no other.  *)
LEMMA HalvesMeet ==
    ASSUME NEW D, Lengths(D, Inf), NEW s, NEW t, NEW m, Joint(D, s, t, m),
           NEW Q, NEW k, NEW p, UpTo(D, s, m, Q, k, p), NEW S, NEW l, NEW r, DownFrom(D, m, t, S, l, r),
           NEW i \in 0 .. k, i < k, NEW j \in 0 .. l, 0 < j
    PROVE  /\ D[N][<<Q[i], S[j]>>] = D[N][<<Q[i], m>>] + D[N][<<m, S[j]>>]
           /\ D[N][<<Q[i], S[j]>>] < D[m][<<Q[i], S[j]>>]
<1> DEFINE d == D[N]
           a == Q[i]
           c == S[j]
<1>1. /\ k \in Nat /\ l \in Nat /\ a \in Nodes /\ c \in Nodes /\ s \in Nodes /\ t \in Nodes /\ m \in Nodes
      /\ 0 \in 0 .. k /\ k \in 0 .. k /\ 0 \in 0 .. l /\ l \in 0 .. l
      /\ Q[0] = s /\ Q[k] = m /\ S[0] = m /\ S[l] = t /\ i \in 0 .. k - 1 /\ j - 1 \in 0 .. l - 1 /\ (j - 1) + 1 = j
  BY DEF UpTo, DownFrom, Tight, Joint
<1>2. a < m /\ c < m /\ s < m /\ t < m
  <2>1. a < m
    BY <1>1 DEF UpTo
  <2>2. c < m
    BY <1>1 DEF DownFrom
  <2>3. 0 \in 0 .. k - 1 /\ l - 1 \in 0 .. l - 1 /\ (l - 1) + 1 = l
    BY <1>1
  <2>4. s < m
    BY <1>1, <2>3 DEF UpTo
  <2>5. t < m
    BY <1>1, <2>3 DEF DownFrom
  <2> QED BY <2>1, <2>2, <2>4, <2>5
<1>3. /\ m \in 0 .. N /\ N \in 0 .. N /\ m \in Nat /\ a \in 0 .. m - 1 /\ c \in 0 .. m - 1 /\ s \in Nat /\ t \in Nat
  <2>1. m \in 0 .. N /\ N \in 0 .. N /\ m \in Nat /\ a \in Nat /\ c \in Nat /\ s \in Nat /\ t \in Nat
    BY <1>1, NodesAreLevels
  <2> QED BY <1>2, <2>1
<1>4. \A u, v \in Nodes : d[<<u, v>>] \in Nat /\ D[m][<<u, v>>] \in Nat
  BY <1>3, LengthLaws
<1>5. d[<<s, m>>] = d[<<s, a>>] + d[<<a, m>>]
  <2>1. CASE i = 0
    <3>1. d[<<s, s>>] = 0
      BY <1>1, <1>3, LengthLaws
    <3> QED BY <1>1, <1>4, <2>1, <3>1
  <2>2. CASE 0 < i
    <3>1. Between(D, Q[0], Q[i], Q[k])
      BY <1>1, <2>2 DEF UpTo, Tight
    <3> QED BY <1>1, <3>1 DEF Between
  <2> QED BY <2>1, <2>2
<1>6. d[<<m, t>>] = d[<<m, c>>] + d[<<c, t>>]
  <2>1. CASE j = l
    <3>1. d[<<t, t>>] = 0 /\ c = t
      BY <1>1, <1>3, <2>1, LengthLaws
    <3>2. d[<<m, t>>] \in Nat
      BY <1>1, <1>4
    <3> HIDE DEF c, d
    <3> QED BY <3>1, <3>2
  <2>2. CASE j < l
    <3>1. Between(D, S[0], S[j], S[l])
      BY <1>1, <2>2 DEF DownFrom, Tight
    <3> QED BY <1>1, <3>1 DEF Between
  <2> QED BY <1>1, <2>1, <2>2
<1>7. d[<<s, t>>] = d[<<s, m>>] + d[<<m, t>>] /\ d[<<s, t>>] < D[m][<<s, t>>]
  BY <1>2, <1>3 DEF Joint
<1>8. D[m][<<s, a>>] = d[<<s, a>>] /\ D[m][<<c, t>>] = d[<<c, t>>]
  BY DEF UpTo, DownFrom
<1>9. /\ d[<<a, c>>] <= d[<<a, m>>] + d[<<m, c>>] /\ d[<<s, t>>] <= d[<<s, c>>] + d[<<c, t>>]
      /\ d[<<s, c>>] <= d[<<s, a>>] + d[<<a, c>>]
  BY <1>1, LengthLaws
<1>10. D[m][<<s, c>>] <= D[m][<<s, a>>] + D[m][<<a, c>>]
  BY <1>1, <1>3, LengthLaws
<1>11. D[m][<<s, t>>] <= D[m][<<s, c>>] + D[m][<<c, t>>]
  BY <1>1, <1>3, LengthLaws
<1>12. /\ d[<<s, m>>] \in Nat /\ d[<<s, a>>] \in Nat /\ d[<<a, m>>] \in Nat /\ d[<<m, t>>] \in Nat /\ d[<<m, c>>] \in Nat
       /\ d[<<c, t>>] \in Nat /\ d[<<s, t>>] \in Nat /\ d[<<a, c>>] \in Nat /\ d[<<s, c>>] \in Nat
       /\ D[m][<<s, t>>] \in Nat /\ D[m][<<s, c>>] \in Nat /\ D[m][<<a, c>>] \in Nat
  BY <1>1, <1>4
<1> HIDE DEF a, c, d
<1>13. d[<<a, c>>] = d[<<a, m>>] + d[<<m, c>>]
  <2>1. d[<<s, t>>] = d[<<s, a>>] + d[<<a, m>>] + d[<<m, c>>] + d[<<c, t>>]
    BY <1>5, <1>6, <1>7, <1>12
  <2>2. d[<<s, t>>] <= d[<<s, a>>] + d[<<a, c>>] + d[<<c, t>>]
    BY <1>9, <1>12
  <2>3. d[<<a, m>>] + d[<<m, c>>] <= d[<<a, c>>]
    BY <1>12, <2>1, <2>2
  <2>4. d[<<a, c>>] <= d[<<a, m>>] + d[<<m, c>>]
    BY <1>9
  <2> QED BY <1>12, <2>3, <2>4
<1>14. d[<<a, c>>] < D[m][<<a, c>>]
  BY <1>5, <1>6, <1>7, <1>8, <1>10, <1>11, <1>12, <1>13
<1> QED BY <1>13, <1>14 DEF a, c, d

(* Where the halves are tight and meet at a joint, the whole is tight.     *)
LEMMA JoinIsTight ==
    ASSUME NEW D, Lengths(D, Inf), NEW s, NEW t, NEW m, Joint(D, s, t, m),
           NEW Q, NEW k, NEW p, UpTo(D, s, m, Q, k, p), NEW S, NEW l, NEW r, DownFrom(D, m, t, S, l, r)
    PROVE  Tight(D, JoinAt(Q, k, S, l), k + l)
<1> DEFINE P == JoinAt(Q, k, S, l)
           d == D[N]
<1>1. /\ k \in Nat /\ l \in Nat /\ Q \in [0 .. k -> Nodes] /\ S \in [0 .. l -> Nodes] /\ m \in Nodes
      /\ Q[k] = m /\ S[0] = m /\ m \in 0 .. N /\ N \in 0 .. N /\ m \in Nat
  BY NodesAreLevels DEF UpTo, DownFrom, Tight, Joint
<1>2. \A n \in 0 .. k + l : /\ n <= k => n \in 0 .. k /\ P[n] = Q[n]
                            /\ k <= n => n - k \in 0 .. l /\ P[n] = S[n - k]
  BY <1>1 DEF JoinAt
<1>3. P \in [0 .. k + l -> Nodes]
  BY <1>1 DEF JoinAt
<1> HIDE DEF P
<1>4. ASSUME NEW n \in 0 .. (k + l) - 1 PROVE Piece(D, P[n], P[n + 1])
  <2>1. n \in 0 .. k + l /\ n + 1 \in 0 .. k + l /\ n \in Nat
    BY <1>1
  <2>2. CASE n < k
    <3>1. n \in 0 .. k - 1 /\ n <= k /\ n + 1 <= k
      BY <1>1, <2>1, <2>2
    <3>2. P[n] = Q[n] /\ P[n + 1] = Q[n + 1]
      BY <1>2, <2>1, <3>1
    <3> QED BY <3>1, <3>2 DEF UpTo, Tight
  <2>3. CASE k <= n
    <3>1. n - k \in 0 .. l - 1 /\ k <= n + 1 /\ (n + 1) - k = (n - k) + 1
      BY <1>1, <2>1, <2>3
    <3>2. P[n] = S[n - k] /\ P[n + 1] = S[(n - k) + 1]
      BY <1>2, <2>1, <2>3, <3>1
    <3> QED BY <3>1, <3>2 DEF DownFrom, Tight
  <2> QED BY <1>1, <2>1, <2>2, <2>3
<1>5. ASSUME NEW i \in 0 .. k + l, NEW b \in 0 .. k + l, NEW j \in 0 .. k + l, i < b, b < j
      PROVE  Between(D, P[i], P[b], P[j])
  <2>1. i \in Nat /\ b \in Nat /\ j \in Nat
    BY <1>1
  <2>2. CASE j <= k
    <3>1. i <= k /\ b <= k
      BY <1>1, <1>5, <2>1, <2>2
    <3>2. i \in 0 .. k /\ b \in 0 .. k /\ j \in 0 .. k /\ P[i] = Q[i] /\ P[b] = Q[b] /\ P[j] = Q[j]
      BY <1>2, <2>2, <3>1
    <3> QED BY <1>5, <3>2 DEF UpTo, Tight
  <2>3. CASE k <= i
    <3>1. k <= j /\ k <= b
      BY <1>1, <1>5, <2>1, <2>3
    <3>2. /\ i - k \in 0 .. l /\ b - k \in 0 .. l /\ j - k \in 0 .. l
          /\ P[i] = S[i - k] /\ P[b] = S[b - k] /\ P[j] = S[j - k]
      BY <1>2, <2>3, <3>1
    <3>3. i - k < b - k /\ b - k < j - k
      BY <1>1, <1>5, <2>1
    <3> QED BY <3>2, <3>3 DEF DownFrom, Tight
  <2>4. CASE i < k /\ k < j
    <3> DEFINE a == P[i]
               c == P[j]
               y == P[b]
    <3>1. i \in 0 .. k /\ j - k \in 0 .. l /\ a = Q[i] /\ c = S[j - k] /\ 0 < j - k
      <4>1. i <= k /\ k <= j
        BY <1>1, <2>1, <2>4
      <4> QED BY <1>1, <1>2, <2>1, <2>4, <4>1
    <3>2. d[<<a, c>>] = d[<<a, m>>] + d[<<m, c>>] /\ d[<<a, c>>] < D[m][<<a, c>>]
      BY <2>4, <3>1, HalvesMeet
    <3>3. a \in Nodes /\ c \in Nodes /\ y \in Nodes
      BY <1>3
    <3>4. \A u, v \in Nodes : d[<<u, v>>] \in Nat
      BY <1>1, LengthLaws
    <3>5. CASE b = k
      <4>1. y = m
        BY <1>1, <1>2, <3>5
      <4> QED BY <3>2, <4>1 DEF Between
    <3>6. CASE b < k
      <4>1. b \in 0 .. k /\ y = Q[b] /\ b \in 0 .. k - 1
        BY <1>1, <1>2, <2>1, <3>6
      <4>2. d[<<a, m>>] = d[<<a, y>>] + d[<<y, m>>]
        <5>1. Between(D, Q[i], Q[b], Q[k])
          <6>1. k \in 0 .. k
            BY <1>1
          <6> QED BY <1>5, <3>1, <3>6, <4>1, <6>1 DEF UpTo, Tight
        <5> QED BY <1>1, <3>1, <4>1, <5>1 DEF Between
      <4>3. d[<<y, c>>] = d[<<y, m>>] + d[<<m, c>>]
        BY <3>1, <3>6, <4>1, HalvesMeet
      <4>4. y < m
        BY <4>1 DEF UpTo
      <4>5. D[m][<<a, c>>] <= D[y][<<a, c>>] /\ D[m][<<a, c>>] \in Nat /\ D[y][<<a, c>>] \in Nat
        <5>1. y \in Nat /\ y \in 0 .. N
          BY <3>3, NodesAreLevels
        <5>2. y \in 0 .. m
          BY <1>1, <4>4, <5>1
        <5> QED BY <1>1, <3>3, <5>1, <5>2, LengthLaws
      <4>6. d[<<a, y>>] \in Nat /\ d[<<y, m>>] \in Nat /\ d[<<m, c>>] \in Nat /\ d[<<a, c>>] \in Nat
        BY <1>1, <3>3, <3>4
      <4> HIDE DEF a, c, y, d
      <4>7. d[<<a, c>>] = d[<<a, y>>] + d[<<y, c>>] /\ d[<<a, c>>] < D[y][<<a, c>>]
        BY <3>2, <4>2, <4>3, <4>5, <4>6
      <4> QED BY <4>7 DEF Between, a, c, y, d
    <3>7. CASE k < b
      <4>1. b - k \in 0 .. l /\ y = S[b - k] /\ 0 < b - k /\ b - k < j - k
        <5>1. k <= b
          BY <1>1, <2>1, <3>7
        <5> QED BY <1>1, <1>2, <1>5, <2>1, <3>7, <5>1
      <4>2. d[<<m, c>>] = d[<<m, y>>] + d[<<y, c>>]
        <5>1. Between(D, S[0], S[b - k], S[j - k])
          <6>1. 0 \in 0 .. l
            BY <1>1
          <6> QED BY <3>1, <4>1, <6>1 DEF DownFrom, Tight
        <5> QED BY <1>1, <3>1, <4>1, <5>1 DEF Between
      <4>3. d[<<a, y>>] = d[<<a, m>>] + d[<<m, y>>]
        BY <2>4, <3>1, <4>1, HalvesMeet
      <4>4. y < m
        <5>1. (b - k) - 1 \in 0 .. l - 1 /\ ((b - k) - 1) + 1 = b - k
          BY <1>1, <2>1, <4>1
        <5> QED BY <4>1, <5>1 DEF DownFrom
      <4>5. D[m][<<a, c>>] <= D[y][<<a, c>>] /\ D[m][<<a, c>>] \in Nat /\ D[y][<<a, c>>] \in Nat
        <5>1. y \in Nat /\ y \in 0 .. N
          BY <3>3, NodesAreLevels
        <5>2. y \in 0 .. m
          BY <1>1, <4>4, <5>1
        <5> QED BY <1>1, <3>3, <5>1, <5>2, LengthLaws
      <4>6. d[<<a, m>>] \in Nat /\ d[<<m, y>>] \in Nat /\ d[<<y, c>>] \in Nat /\ d[<<a, c>>] \in Nat
        BY <1>1, <3>3, <3>4
      <4> HIDE DEF a, c, y, d
      <4>7. d[<<a, c>>] = d[<<a, y>>] + d[<<y, c>>] /\ d[<<a, c>>] < D[y][<<a, c>>]
        BY <3>2, <4>2, <4>3, <4>5, <4>6
      <4> QED BY <4>7 DEF Between, a, c, y, d
    <3> QED BY <1>1, <2>1, <3>5, <3>6, <3>7
  <2> QED BY <1>1, <2>1, <2>2, <2>3, <2>4
<1>6. k + l \in Nat
  BY <1>1
<1>7. Tight(D, P, k + l)
  BY <1>3, <1>4, <1>5, <1>6 DEF Tight
<1> QED BY <1>7 DEF P

(* What is left of a tight path is tight.                                  *)
LEMMA TightSuffix ==
    ASSUME NEW D, NEW P, NEW k, Tight(D, P, k), NEW j \in 0 .. k
    PROVE  Tight(D, [n \in 0 .. k - j |-> P[n + j]], k - j)
<1> DEFINE S == [n \in 0 .. k - j |-> P[n + j]]
<1>1. k \in Nat /\ P \in [0 .. k -> Nodes] /\ k - j \in Nat /\ j \in Nat
  BY DEF Tight
<1>2. \A n \in 0 .. k - j : n + j \in 0 .. k /\ S[n] = P[n + j]
  BY <1>1
<1>3. S \in [0 .. k - j -> Nodes]
  BY <1>1
<1>4. ASSUME NEW n \in 0 .. (k - j) - 1 PROVE Piece(D, S[n], S[n + 1])
  <2>1. n \in 0 .. k - j /\ n + 1 \in 0 .. k - j /\ n + j \in 0 .. k - 1 /\ (n + 1) + j = (n + j) + 1
    BY <1>1
  <2>2. S[n] = P[n + j] /\ S[n + 1] = P[(n + j) + 1]
    BY <1>2, <2>1
  <2> QED BY <2>1, <2>2 DEF Tight
<1>5. ASSUME NEW a \in 0 .. k - j, NEW b \in 0 .. k - j, NEW c \in 0 .. k - j, a < b, b < c PROVE Between(D, S[a], S[b], S[c])
  <2>1. a + j < b + j /\ b + j < c + j
    BY <1>1, <1>5
  <2>2. a + j \in 0 .. k /\ b + j \in 0 .. k /\ c + j \in 0 .. k
    BY <1>1
  <2>3. Between(D, P[a + j], P[b + j], P[c + j])
    BY <2>1, <2>2 DEF Tight
  <2> QED BY <1>2, <2>3
<1> HIDE DEF S
<1>6. Tight(D, S, k - j)
  BY <1>1, <1>3, <1>4, <1>5 DEF Tight
<1> QED BY <1>6 DEF S

-----------------------------------------------------------------------------
(* The path while pointers are turned around and pieces are unpacked.      *)

(* A shortest path from s to t whose highest node m is its j-th.           *)
Route(D, s, t, m, P, k, j) ==
    /\ Tight(D, P, k) /\ j \in 0 .. k /\ P[0] = s /\ P[k] = t /\ P[j] = m
    /\ \A n \in 0 .. k : n # j => P[n] < m
    /\ \A n \in j .. k : D[m][<<P[n], t>>] = D[N][<<P[n], t>>]

(* The pointers are turned around from m back to the i-th node.            *)
Flipped(P, k, j, i, forth, back) ==
    /\ i \in 0 .. j
    /\ \A n \in 0 .. j - 1 : forth[P[n + 1]] = P[n]
    /\ \A n \in i .. k - 1 : back[P[n]] = P[n + 1]

(* The pieces before the i-th node are arcs.                               *)
Unpacked(metric, D, P, k, i, back) ==
    /\ i \in 0 .. k
    /\ \A n \in 0 .. k - 1 : back[P[n]] = P[n + 1]
    /\ \A n \in 0 .. i - 1 : HasArc(metric, D, P[n], P[n + 1])

(* The halves of an answer make a route, and no pointer is turned yet.     *)
LEMMA StartRoute ==
    ASSUME NEW D, Lengths(D, Inf), NEW s, NEW t, NEW m, Joint(D, s, t, m),
           NEW Q, NEW k, NEW p, UpTo(D, s, m, Q, k, p), NEW S, NEW l, NEW r, DownFrom(D, m, t, S, l, r)
    PROVE  LET P == JoinAt(Q, k, S, l)
           IN  Route(D, s, t, m, P, k + l, k) /\ Flipped(P, k + l, k, k, p, r) /\ P[k] = m
<1> DEFINE P == JoinAt(Q, k, S, l)
<1>1. /\ k \in Nat /\ l \in Nat /\ Q[0] = s /\ Q[k] = m /\ S[0] = m /\ S[l] = t
  BY DEF UpTo, DownFrom, Tight
<1>2. \A n \in 0 .. k + l : /\ n <= k => n \in 0 .. k /\ P[n] = Q[n]
                            /\ k <= n => n - k \in 0 .. l /\ P[n] = S[n - k]
  BY <1>1 DEF JoinAt
<1>3. Tight(D, P, k + l)
  BY JoinIsTight
<1> HIDE DEF P
<1>4. P[0] = s /\ P[k] = m /\ P[k + l] = t /\ k \in 0 .. k + l
  <2>1. 0 \in 0 .. k + l /\ k \in 0 .. k + l /\ k + l \in 0 .. k + l /\ 0 <= k /\ k <= k /\ k <= k + l /\ (k + l) - k = l
    BY <1>1
  <2> QED BY <1>1, <1>2, <2>1
<1>5. ASSUME NEW n \in 0 .. k + l, n # k PROVE P[n] < m
  <2>1. n \in Nat
    BY <1>1
  <2>2. CASE n < k
    <3>1. n \in 0 .. k - 1 /\ n <= k
      BY <1>1, <2>1, <2>2
    <3> QED BY <1>2, <3>1 DEF UpTo
  <2>3. CASE k < n
    <3>1. (n - k) - 1 \in 0 .. l - 1 /\ ((n - k) - 1) + 1 = n - k /\ k <= n
      BY <1>1, <2>1, <2>3
    <3> QED BY <1>2, <3>1 DEF DownFrom
  <2> QED BY <1>1, <1>5, <2>1, <2>2, <2>3
<1>6. ASSUME NEW n \in k .. k + l PROVE D[m][<<P[n], t>>] = D[N][<<P[n], t>>]
  <2>1. n \in 0 .. k + l /\ k <= n
    BY <1>1
  <2> QED BY <1>2, <2>1 DEF DownFrom
<1>7. ASSUME NEW n \in 0 .. k - 1 PROVE p[P[n + 1]] = P[n]
  <2>1. n \in 0 .. k + l /\ n <= k /\ n + 1 \in 0 .. k + l /\ n + 1 <= k
    BY <1>1
  <2> QED BY <1>2, <2>1 DEF UpTo
<1>8. ASSUME NEW n \in k .. (k + l) - 1 PROVE r[P[n]] = P[n + 1]
  <2>1. n \in 0 .. k + l /\ k <= n /\ n + 1 \in 0 .. k + l /\ k <= n + 1 /\ n - k \in 0 .. l - 1 /\ (n + 1) - k = (n - k) + 1
    BY <1>1
  <2>2. P[n] = S[n - k] /\ P[n + 1] = S[(n - k) + 1]
    BY <1>2, <2>1
  <2> QED BY <2>1, <2>2 DEF DownFrom
<1>9. Route(D, s, t, m, P, k + l, k)
  BY <1>3, <1>4, <1>5, <1>6 DEF Route
<1>10. Flipped(P, k + l, k, k, p, r)
  <2>1. k \in 0 .. k
    BY <1>1
  <2> QED BY <1>7, <1>8, <2>1 DEF Flipped
<1> QED BY <1>4, <1>9, <1>10 DEF P

(* The nodes of a path are different.                                      *)
LEMMA SimplePath ==
    ASSUME NEW D, Lengths(D, Inf), NEW P, NEW k, Tight(D, P, k), NEW i \in 0 .. k, NEW j \in 0 .. k, P[i] = P[j]
    PROVE  i = j
<1>1. \A a, b \in 0 .. k : a < b => P[a] # P[b]
  BY TightIsSimple
<1>2. k \in Nat /\ i \in Nat /\ j \in Nat
  BY DEF Tight
<1> QED BY <1>1, <1>2

(* One round of the first loop of Server::path turns the pointer to the    *)
(* node before.                                                            *)
LEMMA FlipStep ==
    ASSUME NEW D, Lengths(D, Inf), NEW s, NEW t, NEW m, NEW P, NEW k, NEW j, Route(D, s, t, m, P, k, j),
           NEW i, NEW forth, NEW back, back = [v \in Nodes |-> back[v]], Flipped(P, k, j, i, forth, back), P[i] # s
    PROVE  LET y == forth[P[i]]
           IN  Flipped(P, k, j, i - 1, forth, [back EXCEPT ![y] = P[i]]) /\ y = P[i - 1]
<1> DEFINE y == forth[P[i]]
           turned == [back EXCEPT ![y] = P[i]]
<1>1. k \in Nat /\ j \in 0 .. k /\ i \in 0 .. j /\ P[0] = s /\ P \in [0 .. k -> Nodes] /\ Tight(D, P, k)
  BY DEF Route, Flipped, Tight
<1>2. i - 1 \in 0 .. j - 1 /\ (i - 1) + 1 = i /\ i - 1 \in 0 .. j /\ i - 1 \in 0 .. k /\ i \in 0 .. k
  BY <1>1
<1>3. y = P[i - 1]
  BY <1>2 DEF Flipped
<1>4. P[i - 1] \in Nodes
  BY <1>1, <1>2
<1>5. turned[P[i - 1]] = P[i] /\ \A v \in Nodes : v # P[i - 1] => turned[v] = back[v]
  BY <1>3, <1>4
<1> HIDE DEF turned
<1>6. ASSUME NEW n \in i - 1 .. k - 1 PROVE turned[P[n]] = P[n + 1]
  <2>1. CASE n = i - 1
    BY <1>2, <1>5, <2>1
  <2>2. CASE n # i - 1
    <3>1. n \in i .. k - 1 /\ n \in 0 .. k /\ n + 1 \in 0 .. k
      BY <1>1, <2>2
    <3>2. P[n] # P[i - 1]
      BY <1>1, <1>2, <2>2, <3>1, SimplePath
    <3>3. P[n] \in Nodes
      BY <1>1, <3>1
    <3> QED BY <1>5, <3>1, <3>2, <3>3 DEF Flipped
  <2> QED BY <2>1, <2>2
<1>7. Flipped(P, k, j, i - 1, forth, turned)
  BY <1>2, <1>6 DEF Flipped
<1> QED BY <1>3, <1>7 DEF turned

(* When the loop is at the origin, pointers lead along all of the path.    *)
LEMMA FlipDone ==
    ASSUME NEW D, Lengths(D, Inf), NEW s, NEW t, NEW m, NEW P, NEW k, NEW j, Route(D, s, t, m, P, k, j),
           NEW i, NEW forth, NEW back, Flipped(P, k, j, i, forth, back), P[i] = s, NEW metric
    PROVE  Unpacked(metric, D, P, k, 0, back) /\ P[0] = s
<1>1. k \in Nat /\ i \in 0 .. k /\ 0 \in 0 .. k /\ P[0] = s /\ Tight(D, P, k)
  BY DEF Route, Flipped, Tight
<1>2. i = 0
  BY <1>1, SimplePath
<1> QED BY <1>1, <1>2 DEF Flipped, Unpacked

(* Where a piece is an arc, unpack_path goes on to its end.                *)
LEMMA UnpackArc ==
    ASSUME NEW D, Lengths(D, Inf), NEW P, NEW k, NEW t, Tight(D, P, k), P[k] = t,
           NEW i, NEW back, NEW metric, Unpacked(metric, D, P, k, i, back), P[i] # t,
           HasArc(metric, D, P[i], back[P[i]])
    PROVE  Unpacked(metric, D, P, k, i + 1, back) /\ back[P[i]] = P[i + 1]
<1>1. k \in Nat /\ i \in 0 .. k /\ i # k
  BY DEF Unpacked, Tight
<1>2. i \in 0 .. k - 1 /\ i + 1 \in 0 .. k /\ i \in Nat
  BY <1>1
<1>3. back[P[i]] = P[i + 1]
  BY <1>2 DEF Unpacked
<1>4. ASSUME NEW n \in 0 .. (i + 1) - 1 PROVE HasArc(metric, D, P[n], P[n + 1])
  <2>1. n = i \/ n \in 0 .. i - 1
    BY <1>2
  <2> QED BY <1>3, <2>1 DEF Unpacked
<1> QED BY <1>2, <1>3, <1>4 DEF Unpacked

(* A node is put into a path and its pointers.                             *)
LEMMA InsertRoute ==
    ASSUME NEW D, Lengths(D, Inf), NEW s, NEW t \in Nodes, NEW m, NEW P, NEW k, NEW j, Route(D, s, t, m, P, k, j),
           NEW i \in 0 .. k - 1, NEW z, Splits(D, P[i], z, P[i + 1])
    PROVE  Route(D, s, t, m, Insert(P, k, i, z), k + 1, IF i < j THEN j + 1 ELSE j)
<1> DEFINE Q == Insert(P, k, i, z)
           h == IF i < j THEN j + 1 ELSE j
           x == P[i]
           r == P[i + 1]
           d == D[N]
<1>1. /\ k \in Nat /\ P \in [0 .. k -> Nodes] /\ i \in 0 .. k /\ i + 1 \in 0 .. k /\ i \in Nat /\ j \in 0 .. k /\ j \in Nat
      /\ P[0] = s /\ P[k] = t /\ P[j] = m /\ m \in Nodes /\ h \in 0 .. k + 1 /\ h \in Nat
  BY DEF Tight, Route
<1>2. /\ x \in Nodes /\ r \in Nodes /\ z \in Nodes /\ z < x /\ z < r
      /\ m \in Nat /\ m \in 0 .. N /\ z \in Nat /\ z \in 0 .. N /\ x \in Nat /\ r \in Nat /\ N \in 0 .. N
  <2>1. x \in Nodes /\ r \in Nodes /\ z \in Nodes /\ z < x /\ z < r
    BY DEF Splits
  <2> QED BY <1>1, <2>1, NodesAreLevels
<1>3. \A n \in 0 .. k + 1 : /\ n <= i => n \in 0 .. k /\ Q[n] = P[n]
                            /\ n = i + 1 => Q[n] = z
                            /\ i + 1 < n => n - 1 \in 0 .. k /\ Q[n] = P[n - 1]
  BY <1>1 DEF Insert
<1>4. Tight(D, Q, k + 1)
  BY InsertKeepsTight DEF Route
<1> HIDE DEF Q
<1>5. Q[0] = s /\ Q[k + 1] = t
  <2>1. 0 \in 0 .. k + 1 /\ 0 <= i /\ k + 1 \in 0 .. k + 1 /\ i + 1 < k + 1 /\ (k + 1) - 1 = k
    BY <1>1
  <2> QED BY <1>1, <1>3, <2>1
<1>6. Q[h] = m
  <2>1. CASE i < j
    <3>1. h = j + 1 /\ i + 1 < j + 1 /\ (j + 1) - 1 = j
      BY <1>1, <2>1
    <3> QED BY <1>1, <1>3, <3>1
  <2>2. CASE ~(i < j)
    <3>1. h = j /\ j <= i
      BY <1>1, <2>2
    <3> QED BY <1>1, <1>3, <3>1
  <2> QED BY <2>1, <2>2
<1>7. \A n \in 0 .. k : P[n] <= m /\ (n # j => P[n] < m)
  <2> TAKE n \in 0 .. k
  <2>1. n # j => P[n] < m
    BY DEF Route
  <2>2. P[n] \in Nat
    BY <1>1, NodesAreLevels
  <2> QED BY <1>1, <1>2, <2>1, <2>2
<1>8. z < m
  <2>1. x <= m
    BY <1>1, <1>7
  <2> QED BY <1>2, <2>1
<1>9. ASSUME NEW n \in 0 .. k + 1, n # h PROVE Q[n] < m
  <2>1. n \in Nat
    BY <1>1
  <2>2. CASE n <= i
    <3>1. n # j
      BY <1>1, <1>9, <2>1, <2>2
    <3> QED BY <1>3, <1>7, <2>2, <3>1
  <2>3. CASE n = i + 1
    BY <1>3, <1>8, <2>3
  <2>4. CASE i + 1 < n
    <3>1. n - 1 # j
      BY <1>1, <1>9, <2>1, <2>4
    <3> QED BY <1>3, <1>7, <2>4, <3>1
  <2> QED BY <1>1, <2>1, <2>2, <2>3, <2>4
<1>10. \A n \in j .. k : D[m][<<P[n], t>>] = d[<<P[n], t>>]
  BY DEF Route
<1>11. ASSUME j <= i PROVE D[m][<<z, t>>] = d[<<z, t>>]
  <2>1. i + 1 \in j .. k /\ i + 1 # j
    BY <1>1, <1>11
  <2>2. D[m][<<r, t>>] = d[<<r, t>>] /\ r < m
    BY <1>1, <1>7, <1>10, <2>1
  <2>3. r \in 0 .. m - 1 /\ z \in 0 .. m
    BY <1>2, <1>8, <2>2
  <2>4. D[m][<<z, t>>] <= D[m][<<z, r>>] + D[m][<<r, t>>] /\ D[m][<<z, r>>] <= D[z][<<z, r>>] /\ d[<<z, t>>] <= D[m][<<z, t>>]
    BY <1>1, <1>2, <2>3, LengthLaws
  <2>5. D[z][<<z, r>>] = d[<<z, r>>]
    <3>1. /\ Piece(D, x, z) /\ Piece(D, z, r) /\ Between(D, x, z, r)
          /\ D[N][<<x, z>>] = D[z][<<x, z>>] /\ D[N][<<z, r>>] = D[z][<<z, r>>]
      BY SplitPieces
    <3> QED BY <3>1
  <2>6. d[<<z, t>>] = d[<<z, r>>] + d[<<r, t>>]
    <3>1. CASE i + 1 = k
      <4>1. d[<<t, t>>] = 0 /\ r = t /\ d[<<z, t>>] \in Nat
        BY <1>1, <1>2, <3>1, LengthLaws
      <4> HIDE DEF r, d
      <4> QED BY <4>1
    <3>2. CASE i + 1 < k
      <4>1. i + 1 \in 0 .. k + 1 /\ i + 2 \in 0 .. k + 1 /\ k + 1 \in 0 .. k + 1 /\ i + 1 < i + 2 /\ i + 2 < k + 1
            /\ (i + 2) - 1 = i + 1
        BY <1>1, <3>2
      <4>2. Between(D, Q[i + 1], Q[i + 2], Q[k + 1])
        BY <1>4, <4>1 DEF Tight
      <4>3. Q[i + 1] = z /\ Q[i + 2] = r
        BY <1>3, <4>1
      <4> QED BY <1>5, <4>2, <4>3 DEF Between
    <3> QED BY <1>1, <3>1, <3>2
  <2>7. /\ D[m][<<z, t>>] \in Nat /\ D[m][<<z, r>>] \in Nat /\ D[m][<<r, t>>] \in Nat /\ D[z][<<z, r>>] \in Nat
        /\ d[<<z, t>>] \in Nat /\ d[<<z, r>>] \in Nat /\ d[<<r, t>>] \in Nat
    BY <1>1, <1>2, LengthLaws
  <2> HIDE DEF r, d
  <2> QED BY <2>2, <2>4, <2>5, <2>6, <2>7
<1>12. ASSUME NEW n \in h .. k + 1 PROVE D[m][<<Q[n], t>>] = d[<<Q[n], t>>]
  <2>1. n \in 0 .. k + 1 /\ n \in Nat
    BY <1>1
  <2>2. CASE n <= i
    <3>1. n \in j .. k
      BY <1>1, <2>1, <2>2
    <3> QED BY <1>3, <1>10, <2>1, <2>2, <3>1
  <2>3. CASE n = i + 1
    <3>1. j <= i
      BY <1>1, <2>1, <2>3
    <3> QED BY <1>3, <1>11, <2>1, <2>3, <3>1
  <2>4. CASE i + 1 < n
    <3>1. n - 1 \in j .. k
      BY <1>1, <2>1, <2>4
    <3> QED BY <1>3, <1>10, <2>1, <2>4, <3>1
  <2> QED BY <1>1, <2>1, <2>2, <2>3, <2>4
<1> HIDE DEF h
<1>13. Route(D, s, t, m, Q, k + 1, h)
  BY <1>1, <1>4, <1>5, <1>6, <1>9, <1>12 DEF Route
<1> QED BY <1>13 DEF Q, h

(* The pointers after the piece from p is split at z.                      *)
Detour(back, p, z) == [back EXCEPT ![p] = z, ![z] = back[p]]

(* Where a piece has a triangle, its lower node is put in between: the     *)
(* path is tight again and the pointers lead along it.                     *)
LEMMA UnpackSplit ==
    ASSUME NEW D, Lengths(D, Inf), NEW s, NEW t \in Nodes, NEW m, NEW P, NEW k, NEW j, Route(D, s, t, m, P, k, j),
           NEW i, NEW back, back = [v \in Nodes |-> back[v]], NEW metric, Unpacked(metric, D, P, k, i, back), P[i] # t,
           NEW z, Splits(D, P[i], z, back[P[i]])
    PROVE  LET Q == Insert(P, k, i, z)
           IN  /\ \E h : Route(D, s, t, m, Q, k + 1, h)
               /\ Q[i] = P[i] /\ Unpacked(metric, D, Q, k + 1, i, Detour(back, P[i], z))
<1> DEFINE Q == Insert(P, k, i, z)
           x == P[i]
           r == back[P[i]]
           led == Detour(back, x, z)
<1>1. k \in Nat /\ i \in 0 .. k /\ i # k /\ P \in [0 .. k -> Nodes] /\ Tight(D, P, k)
  BY DEF Unpacked, Tight, Route
<1>2. i \in 0 .. k - 1 /\ i + 1 \in 0 .. k /\ i \in Nat /\ i \in 0 .. k + 1 /\ i + 1 \in 0 .. k + 1
  BY <1>1
<1>3. r = P[i + 1]
  BY <1>2 DEF Unpacked
<1>4. Route(D, s, t, m, Q, k + 1, IF i < j THEN j + 1 ELSE j)
  BY <1>2, <1>3, InsertRoute
<1>5. Tight(D, Q, k + 1)
  BY <1>4 DEF Route
<1>6. \A n \in 0 .. k + 1 : /\ n <= i => n \in 0 .. k /\ Q[n] = P[n]
                            /\ n = i + 1 => Q[n] = z
                            /\ i + 1 < n => n - 1 \in 0 .. k /\ Q[n] = P[n - 1]
  BY <1>1 DEF Insert
<1> HIDE DEF Q
<1>7. Q[i] = x /\ Q[i + 1] = z /\ x \in Nodes /\ z \in Nodes /\ x # z
  <2>1. Q[i] = x /\ Q[i + 1] = z /\ i < i + 1
    BY <1>1, <1>2, <1>6
  <2> QED BY <1>1, <1>2, <1>5, <2>1, SimplePath DEF Splits
<1>8. led[x] = z /\ led[z] = r /\ \A v \in Nodes : v # x /\ v # z => led[v] = back[v]
  BY <1>7 DEF Detour
<1>9. ASSUME NEW n \in 0 .. k PROVE led[Q[n]] = Q[n + 1]
  <2>1. n \in 0 .. k + 1 /\ n + 1 \in 0 .. k + 1 /\ n \in Nat
    BY <1>1
  <2>2. CASE n = i
    BY <1>7, <1>8, <2>2
  <2>3. CASE n = i + 1
    <3>1. i + 1 < n + 1 /\ (n + 1) - 1 = i + 1
      BY <1>2, <2>3
    <3> QED BY <1>3, <1>6, <1>7, <1>8, <2>1, <2>3, <3>1
  <2>4. CASE n # i /\ n # i + 1
    <3>1. Q[n] # x /\ Q[n] # z
      BY <1>2, <1>5, <1>7, <2>1, <2>4, SimplePath
    <3>2. Q[n] \in Nodes
      BY <1>5, <2>1 DEF Tight
    <3>3. led[Q[n]] = back[Q[n]]
      BY <1>8, <3>1, <3>2
    <3>4. CASE n < i
      <4>1. n \in 0 .. k - 1 /\ n <= i /\ n + 1 <= i
        BY <1>1, <1>2, <2>1, <3>4
      <4>2. Q[n] = P[n] /\ Q[n + 1] = P[n + 1]
        BY <1>6, <2>1, <4>1
      <4> QED BY <3>3, <4>1, <4>2 DEF Unpacked
    <3>5. CASE i + 1 < n
      <4>1. n - 1 \in 0 .. k - 1 /\ i + 1 < n + 1 /\ (n + 1) - 1 = n /\ (n - 1) + 1 = n
        BY <1>1, <1>2, <2>1, <3>5
      <4>2. Q[n] = P[n - 1] /\ Q[n + 1] = P[n]
        BY <1>6, <2>1, <3>5, <4>1
      <4>3. back[P[n - 1]] = P[(n - 1) + 1]
        BY <4>1 DEF Unpacked
      <4> QED BY <3>3, <4>1, <4>2, <4>3
    <3> QED BY <1>2, <2>1, <2>4, <3>4, <3>5
  <2> QED BY <2>2, <2>3, <2>4
<1>10. ASSUME NEW n \in 0 .. i - 1 PROVE HasArc(metric, D, Q[n], Q[n + 1])
  <2>1. n \in 0 .. k + 1 /\ n + 1 \in 0 .. k + 1 /\ n <= i /\ n + 1 <= i
    BY <1>1, <1>2
  <2> QED BY <1>6, <2>1 DEF Unpacked
<1> HIDE DEF led
<1>11. Unpacked(metric, D, Q, k + 1, i, led)
  <2>1. (k + 1) - 1 = k
    BY <1>1
  <2> QED BY <1>2, <1>9, <1>10, <2>1 DEF Unpacked
<1> QED BY <1>4, <1>7, <1>11 DEF Q, led

(* The part of a route from its highest node on leads down.                *)
LEMMA RouteDown ==
    ASSUME NEW D, NEW s, NEW t, NEW m, NEW P, NEW k, NEW j, Route(D, s, t, m, P, k, j),
           NEW back, \A n \in 0 .. k - 1 : back[P[n]] = P[n + 1]
    PROVE  DownFrom(D, m, t, [n \in 0 .. k - j |-> P[n + j]], k - j, back)
<1> DEFINE S == [n \in 0 .. k - j |-> P[n + j]]
<1>1. k \in Nat /\ j \in 0 .. k /\ k - j \in Nat /\ j \in Nat /\ P[j] = m /\ P[k] = t
  BY DEF Route, Tight
<1>2. \A n \in 0 .. k - j : n + j \in 0 .. k /\ n + j \in j .. k /\ S[n] = P[n + j]
  BY <1>1
<1>3. Tight(D, S, k - j)
  BY TightSuffix DEF Route
<1> HIDE DEF S
<1>4. S[0] = m /\ S[k - j] = t
  <2>1. 0 \in 0 .. k - j /\ k - j \in 0 .. k - j /\ 0 + j = j /\ (k - j) + j = k
    BY <1>1
  <2> QED BY <1>1, <1>2, <2>1
<1>5. ASSUME NEW i \in 0 .. (k - j) - 1 PROVE S[i + 1] < m /\ back[S[i]] = S[i + 1]
  <2>1. /\ i \in 0 .. k - j /\ i + 1 \in 0 .. k - j /\ (i + 1) + j = (i + j) + 1 /\ i + j \in 0 .. k - 1
        /\ (i + j) + 1 \in 0 .. k /\ (i + j) + 1 # j
    BY <1>1
  <2>2. S[i] = P[i + j] /\ S[i + 1] = P[(i + j) + 1]
    BY <1>2, <2>1
  <2> QED BY <2>1, <2>2 DEF Route
<1>6. ASSUME NEW i \in 0 .. k - j PROVE D[m][<<S[i], t>>] = D[N][<<S[i], t>>]
  BY <1>2 DEF Route
<1>7. DownFrom(D, m, t, S, k - j, back)
  BY <1>3, <1>4, <1>5, <1>6 DEF DownFrom
<1> QED BY <1>7 DEF S

-----------------------------------------------------------------------------
(* The steps of a server are steps of these walks.                         *)

(* What a server has been given, and the lengths that it stands for.       *)
Customized(c) == c.metric \in Metrics /\ c \in {Basic(c.metric), Perfect(c.metric)}

(* The metric of a customization is the one it was made of.                *)
LEMMA CustomizedOf ==
    ASSUME NEW m \in Metrics, NEW c \in {Basic(m), Perfect(m)}
    PROVE  Customized(c) /\ c.metric = m
<1>1. Basic(m).metric = m /\ Perfect(m).metric = m
  BY DEF Basic, Perfect
<1> QED BY <1>1 DEF Customized

(* Both kinds of customization are about the distances of their metric, in *)
(* both directions.                                                        *)
LEMMA CustomizedFacts ==
    ASSUME NEW c, Customized(c)
    PROVE  LET D == DistancesBelow(c.metric)
               R == Reversed(D)
           IN  /\ Lengths(D, Inf) /\ OnEdges(Graph, D, Inf) /\ Lengths(R, Inf) /\ OnEdges(Graph, R, Inf) /\ Opposite(D, R)
               /\ c.up = EdgeLengths(D) /\ (c.fw = Edges \/ c.fw = Kept(c.up, D[N]))
               /\ c.down = EdgeLengths(R) /\ (c.bw = Edges \/ c.bw = Kept(c.down, R[N]))
               /\ c.dist = D[N]
<1> DEFINE m == c.metric
           D == DistancesBelow(m)
           R == Reversed(D)
<1>1. m \in Metrics /\ c \in {Basic(m), Perfect(m)}
  BY DEF Customized
<1> HIDE DEF m
<1>2. Lengths(D, Inf) /\ OnEdges(Graph, D, Inf)
  BY <1>1, DistancesAreLengths
<1>3. /\ c.up = BasicUp(m) /\ c.down = BasicDown(m) /\ c.dist = Distances(m)
      /\ c.fw = Edges \/ c.fw = {e \in Edges : BasicUp(m)[e] = Distances(m)[e]}
      /\ c.bw = Edges \/ c.bw = {e \in Edges : BasicDown(m)[e] = Distances(m)[<<e[2], e[1]>>]}
  <2>1. CASE c = Basic(m)
    BY <2>1 DEF Basic
  <2>2. CASE c = Perfect(m)
    BY <2>2 DEF Perfect, Basic
  <2> QED BY <1>1, <2>1, <2>2
<1>4. BasicUp(m) = EdgeLengths(D) /\ Distances(m) = D[N] /\ BasicDown(m) = [e \in Edges |-> D[e[1]][<<e[2], e[1]>>]]
  BY DEF BasicUp, BasicDown, Distances, EdgeLengths
<1> HIDE DEF D
<1>5. Lengths(R, Inf) /\ \A h \in 0 .. N : \A a, b \in Nodes : R[h][<<a, b>>] = D[h][<<b, a>>]
  BY <1>2, ReversedLengths, InfAssumption
<1>6. OnEdges(Graph, R, Inf)
  BY <1>2, ReversedOnEdges, InfAssumption
<1> HIDE DEF R
<1>7. ASSUME NEW e \in Edges PROVE R[e[1]][e] = D[e[1]][<<e[2], e[1]>>] /\ R[N][e] = D[N][<<e[2], e[1]>>]
  <2>1. e[1] \in Nodes /\ e[2] \in Nodes /\ e = <<e[1], e[2]>> /\ e[1] \in 0 .. N /\ N \in 0 .. N
    BY NodesAreLevels DEF Edges
  <2> QED BY <1>5, <2>1
<1>8. c.down = EdgeLengths(R)
  BY <1>3, <1>4, <1>7 DEF EdgeLengths
<1>9. c.fw = Edges \/ c.fw = Kept(c.up, D[N])
  BY <1>3, <1>4 DEF Kept
<1>10. c.bw = Edges \/ c.bw = Kept(c.down, R[N])
  <2>1. {e \in Edges : BasicDown(m)[e] = Distances(m)[<<e[2], e[1]>>]} = Kept(c.down, R[N])
    BY <1>3, <1>4, <1>7 DEF Kept
  <2> QED BY <1>3, <2>1
<1>11. Opposite(D, R)
  BY <1>5 DEF Opposite
<1> QED BY <1>2, <1>3, <1>4, <1>5, <1>6, <1>8, <1>9, <1>10, <1>11 DEF D, R, m

(* Walks at their start.                                                   *)
Starts(W) ==
    /\ W.next = W.from /\ W.parents[W.from] = W.from /\ W.tent[W.from] = 0 /\ W.dist = W.tent
    /\ \A v \in Nodes : v # W.from => W.tent[v] = Inf

(* What holds of a walk holds at its start.                                *)
LEMMA StartsWalk ==
    ASSUME NEW W, WellFormed(W), Starts(W), NEW least
    PROVE  IsWalk(W, least)
<1> DEFINE s == W.from
<1>1. s \in Nodes /\ s \in Nat /\ W.tent \in [Nodes -> Weight] /\ W.next = s /\ s # None
  BY NodesAreLevels, NoneIsNoNode DEF WellFormed, Starts
<1>2. ASSUME NEW v \in Nodes PROVE Low(W, v, v) <= W.tent[v]
  <2>1. v \in 0 .. N
    BY NodesAreLevels
  <2>2. Low(W, v, v) <= Inf /\ Low(W, s, s) = 0
    BY <1>1, <2>1, WalkFacts, NodesAreLevels
  <2> QED BY <1>1, <2>2 DEF Starts
<1>3. ASSUME NEW v \in Nodes, W.tent[v] < Inf PROVE v = s
  BY <1>3, InfAssumption DEF Starts
<1>4. Tree(W, least)
  BY <1>2, <1>3 DEF Tree, Starts
<1>5. ASSUME NEW z \in Nodes, s <= z, Behind(z, W.next) PROVE FALSE
  <2>1. z \in Nat
    BY NodesAreLevels
  <2> QED BY <1>1, <1>5, <2>1 DEF Behind
<1>6. Complete(W, least)
  BY <1>5 DEF Complete
<1>7. Ahead(W.dist, W.next)
  BY <1>1 DEF Ahead, Starts
<1> QED BY <1>4, <1>6, <1>7 DEF IsWalk, Starts

(* It holds of both walks at the start of a query.                         *)
LEMMA StartsBoth ==
    ASSUME NEW W, WellFormed(W), Starts(W), NEW V, WellFormed(V), Starts(V), Opposite(W.lengths, V.lengths), NEW m
    PROVE  Both(W, V, Inf, m)
<1>1. /\ IsWalk(W, Inf) /\ IsWalk(V, Inf) /\ W.from \in Nodes /\ W.from \in Nat /\ W.next = W.from /\ W.from # None
  BY StartsWalk, NodesAreLevels, NoneIsNoNode DEF WellFormed, Starts
<1>2. V.from \in Nodes /\ V.from \in Nat /\ V.next = V.from /\ V.from # None
  BY NodesAreLevels, NoneIsNoNode DEF WellFormed, Starts
<1>3. Crossed(W, V)
  BY <1>1, InfAssumption DEF Crossed, Starts, Behind
<1>4. Crossed(V, W)
  BY <1>2, InfAssumption DEF Crossed, Starts, Behind
<1>5. Meets(W, V, Inf)
  <2> SUFFICES ASSUME NEW z \in Nodes, Behind(z, W.next), W.from <= z PROVE FALSE
    BY DEF Meets
  <2>1. z \in Nat
    BY NodesAreLevels
  <2> QED BY <1>1, <2>1 DEF Behind
<1>6. ~(Inf < Inf)
  BY InfAssumption
<1> QED BY <1>1, <1>3, <1>4, <1>5, <1>6 DEF Both

(* What the server does is a step of a walk.                               *)
Goes(W, X) ==
    /\ W.next \in Nodes /\ X.next = Parent[W.next]
    /\ X.lengths = W.lengths /\ X.weight = W.weight /\ X.edges = W.edges /\ X.from = W.from

(* A walk has reset no node that it has not passed.                        *)
LEMMA Unresets ==
    ASSUME NEW W, NEW least, IsWalk(W, least), W.next \in Nodes, NEW v \in Nodes, W.next <= v
    PROVE  W.dist[v] = W.tent[v] /\ W.tent[v] \in Nat
<1>1. W.next \in Nat /\ v \in Nat /\ W.next # None
  BY NodesAreLevels, NoneIsNoNode
<1>2. ~Behind(v, W.next)
  BY <1>1 DEF Behind
<1> QED BY <1>2, WalkFacts DEF IsWalk

(* Settling a node and resetting it is a step.                             *)
LEMMA SettleSteps ==
    ASSUME NEW W, NEW least, IsWalk(W, least), W.dist \in [Nodes -> Weight], NEW X, Goes(W, X),
           X.tent = Relaxed(W.tent, W.weight, W.edges, W.next),
           X.dist = Settled(W.dist, W.weight, W.edges, W.next), Ahead(X.dist, X.next),
           X.parents = Parents(W.parents, W.dist, Relaxed(W.dist, W.weight, W.edges, W.next), W.next)
    PROVE  Steps(W, X, least)
<1> DEFINE x == W.next
           over(v) == W.tent[x] + W.weight[<<x, v>>]
           relaxed == Relaxed(W.dist, W.weight, W.edges, x)
<1>1. x \in Nodes /\ x \in Nat /\ WellFormed(W)
  BY NodesAreLevels DEF Goes, IsWalk
<1>2. W.dist[x] = W.tent[x]
  <2>1. x <= x
    BY <1>1
  <2> QED BY <1>1, <2>1, Unresets
<1>3. ASSUME NEW v \in Nodes, <<x, v>> \in W.edges PROVE x < v
  <2>1. <<x, v>> \in Edges
    BY <1>1, <1>3 DEF WellFormed, Kept
  <2> QED BY <2>1, GraphAssumption DEF Edges
<1>4. ASSUME NEW v \in Nodes
      PROVE  X.tent[v] = IF <<x, v>> \in W.edges /\ over(v) < W.tent[v] THEN over(v) ELSE W.tent[v]
  BY DEF Relaxed
<1>5. ASSUME NEW v \in Nodes
      PROVE  relaxed[v] = IF <<x, v>> \in W.edges /\ over(v) < W.dist[v] THEN over(v) ELSE W.dist[v]
  BY <1>2 DEF Relaxed
<1>6. ASSUME NEW v \in Nodes, x < v PROVE X.dist[v] = X.tent[v]
  <2>1. W.dist[v] = W.tent[v]
    <3>1. x <= v
      BY <1>1, <1>6, NodesAreLevels
    <3> QED BY <1>1, <3>1, Unresets
  <2>2. v # x /\ v \in Nodes
    BY <1>1, <1>6
  <2>3. X.dist[v] = relaxed[v]
    BY <2>2 DEF Settled, Relaxed
  <2> HIDE DEF over, relaxed
  <2> QED BY <1>4, <1>5, <2>1, <2>3
<1>7. ASSUME NEW v \in Nodes PROVE Relaxes(W, X, v)
  <2>1. X.parents[v] = IF relaxed[v] < W.dist[v] THEN x ELSE W.parents[v]
    BY DEF Parents
  <2>2. CASE <<x, v>> \in W.edges
    <3>1. W.dist[v] = W.tent[v]
      <4>1. x <= v
        BY <1>1, <1>3, <2>2, NodesAreLevels
      <4> QED BY <1>1, <4>1, Unresets
    <3>2. W.tent[v] \in Nat
      BY <1>1, WalkFacts
    <3> HIDE DEF over, relaxed
    <3>3. IF over(v) < W.tent[v] THEN X.tent[v] = over(v) /\ X.parents[v] = x
          ELSE X.tent[v] = W.tent[v] /\ X.parents[v] = W.parents[v]
      BY <1>4, <1>5, <2>1, <2>2, <3>1, <3>2
    <3> QED BY <2>2, <3>3 DEF Relaxes, over
  <2>3. CASE ~(<<x, v>> \in W.edges)
    <3>1. X.tent[v] = W.tent[v] /\ relaxed[v] = W.dist[v]
      BY <1>4, <1>5, <2>3
    <3>2. W.dist[v] \in Nat
      <4>1. W.dist[v] \in Weight
        OBVIOUS
      <4> QED BY <4>1, InfAssumption DEF Weight
    <3> HIDE DEF relaxed
    <3>3. ~(W.dist[v] < W.dist[v])
      BY <3>2
    <3> QED BY <2>1, <2>3, <3>1, <3>3 DEF Relaxes
  <2> QED BY <2>2, <2>3
<1>8. X.tent = [v \in Nodes |-> X.tent[v]]
  BY DEF Relaxed
<1> QED BY <1>6, <1>7, <1>8 DEF Steps, Goes

(* So is resetting a node that is too far away.                            *)
LEMMA SkipSteps ==
    ASSUME NEW W, NEW least, IsWalk(W, least), W.dist \in [Nodes -> Weight], NEW X, Goes(W, X),
           X.tent = W.tent, X.dist = [W.dist EXCEPT ![W.next] = Inf], Ahead(X.dist, X.next),
           X.parents = Parents(W.parents, W.dist, W.dist, W.next), least <= W.dist[W.next]
    PROVE  Steps(W, X, least)
<1> DEFINE x == W.next
<1>1. x \in Nodes /\ x \in Nat /\ WellFormed(W)
  BY NodesAreLevels DEF Goes, IsWalk
<1>2. W.dist[x] = W.tent[x]
  <2>1. x <= x
    BY <1>1
  <2> QED BY <1>1, <2>1, Unresets
<1>3. ASSUME NEW v \in Nodes, x < v PROVE X.dist[v] = X.tent[v]
  <2>1. W.dist[v] = W.tent[v]
    <3>1. x <= v
      BY <1>1, <1>3, NodesAreLevels
    <3> QED BY <1>1, <3>1, Unresets
  <2>2. v # x /\ v \in Nodes
    BY <1>1, <1>3
  <2> QED BY <2>1, <2>2
<1>4. ASSUME NEW v \in Nodes PROVE Keeps(W, X, v)
  <2>1. W.dist[v] \in Nat
    <3>1. W.dist[v] \in Weight
      OBVIOUS
    <3> QED BY <3>1, InfAssumption DEF Weight
  <2>2. ~(W.dist[v] < W.dist[v])
    BY <2>1
  <2> QED BY <2>2 DEF Keeps, Parents
<1>5. X.tent = [v \in Nodes |-> X.tent[v]]
  BY <1>1 DEF WellFormed
<1> QED BY <1>2, <1>3, <1>4, <1>5 DEF Steps, Goes

-----------------------------------------------------------------------------
(* The server.                                                             *)

(* When both walks are over and the answer is the distance, the pointers   *)
(* lead up to the meeting node along the halves of a tight path.           *)
LEMMA AnswerHalves ==
    ASSUME NEW W, NEW V, NEW least, NEW m, Both(W, V, least, m), least < Inf, least = Far(W, V.from)
    PROVE  /\ Joint(W.lengths, W.from, V.from, m)
           /\ \E k \in Nat : \E Q : UpTo(W.lengths, W.from, m, Q, k, W.parents)
           /\ \E k \in Nat : \E Q : UpTo(V.lengths, V.from, m, Q, k, V.parents)
<1>1. /\ IsWalk(W, least) /\ IsWalk(V, least) /\ WellFormed(W) /\ WellFormed(V) /\ Opposite(W.lengths, V.lengths)
      /\ MetAt(W, V, least, m) /\ Tree(W, least) /\ Tree(V, least)
  BY DEF Both, IsWalk
<1>2. /\ W.from \in Nodes /\ V.from \in Nodes /\ m \in Nodes /\ m \in 0 .. N /\ N \in 0 .. N
      /\ W.tent[m] + V.tent[m] = least /\ Strict(W, m) /\ Strict(V, m)
  BY <1>1, NodesAreLevels DEF WellFormed, MetAt
<1>3. /\ Far(W, m) \in Nat /\ W.tent[m] \in Nat /\ Far(W, m) <= W.tent[m] /\ Far(W, V.from) \in Nat
      /\ Far(W, V.from) <= Far(W, m) + W.lengths[N][<<m, V.from>>]
  <2>1. /\ Far(W, m) \in Nat /\ W.tent[m] \in Nat /\ Far(W, m) <= Low(W, m, m) /\ Low(W, m, m) \in Nat /\ Far(W, V.from) \in Nat
        /\ Far(W, V.from) <= Far(W, m) + W.lengths[N][<<m, V.from>>]
    BY <1>1, <1>2, WalkFacts
  <2>2. Low(W, m, m) <= W.tent[m]
    BY <1>1, <1>2 DEF Tree
  <2> QED BY <2>1, <2>2
<1>4. Far(V, m) \in Nat /\ V.tent[m] \in Nat /\ Far(V, m) <= V.tent[m]
  <2>1. Far(V, m) \in Nat /\ V.tent[m] \in Nat /\ Far(V, m) <= Low(V, m, m) /\ Low(V, m, m) \in Nat
    BY <1>1, <1>2, WalkFacts
  <2>2. Low(V, m, m) <= V.tent[m]
    BY <1>1, <1>2 DEF Tree
  <2> QED BY <2>1, <2>2
<1>5. Far(V, m) = W.lengths[N][<<m, V.from>>]
  BY <1>1, <1>2 DEF Far, Opposite
<1>6. /\ W.tent[m] = Far(W, m) /\ V.tent[m] = Far(V, m) /\ Far(W, m) + Far(V, m) = Far(W, V.from)
      /\ W.tent[m] < Inf /\ V.tent[m] < Inf
  BY <1>2, <1>3, <1>4, <1>5, InfAssumption
<1>7. Joint(W.lengths, W.from, V.from, m)
  <2>1. m # W.from /\ m # V.from => Far(W, V.from) < Low(W, m, V.from)
    BY <1>1 DEF MetAt
  <2> QED BY <1>2, <1>5, <1>6, <2>1 DEF Joint, Far, Low
<1>8. \E k \in Nat : \E Q : UpTo(W.lengths, W.from, m, Q, k, W.parents)
  <2>1. PICK k, Q : k \in Nat /\ Chain(W, Q, k) /\ Q[k] = m
    BY <1>1, <1>2, <1>6, ChainUp
  <2> QED BY <1>1, <2>1, ChainIsUp
<1>9. \E k \in Nat : \E Q : UpTo(V.lengths, V.from, m, Q, k, V.parents)
  <2>1. PICK k, Q : k \in Nat /\ Chain(V, Q, k) /\ Q[k] = m
    BY <1>1, <1>2, <1>6, ChainUp
  <2> QED BY <1>1, <2>1, ChainIsUp
<1> QED BY <1>7, <1>8, <1>9

-----------------------------------------------------------------------------
(* Lengths of shortest paths in the metric of the server, and its walks.   *)
Reference == DistancesBelow(customized.metric)

(* The forward walk of the server, with tentative distances for it.        *)
Forth(tent) ==
    [lengths |-> Reference, weight |-> customized.up, edges |-> customized.fw, from |-> query[1],
     dist |-> fw, parents |-> fwParent, next |-> fwNext, tent |-> tent]

(* The backward walk: in the other direction, from the target.             *)
Against(tent) ==
    [lengths |-> Reversed(Reference), weight |-> customized.down, edges |-> customized.bw, from |-> query[2],
     dist |-> bw, parents |-> bwParent, next |-> bwNext, tent |-> tent]

(* Both walks are under way.                                               *)
Walking == \E f, b : Both(Forth(f), Against(b), best, meeting)

(* The answer is the distance at the meeting node, and forward parents     *)
(* lead there from the origin.  The first loop of Server::path does not    *)
(* change them.                                                            *)
Halved ==
    /\ Joint(Reference, query[1], query[2], meeting) /\ best = Reference[N][<<query[1], query[2]>>]
    /\ \E k, Q : UpTo(Reference, query[1], meeting, Q, k, fwParent)

(* Backward parents lead from the meeting node to the target: at first as  *)
(* the walk left them, after an earlier request as it unpacked them.       *)
Downward == \E k, S : DownFrom(Reference, meeting, query[2], S, k, bwParent)

(* A tight path of the query over its meeting node.                        *)
Routed(P, k, j) == Route(Reference, query[1], query[2], meeting, P, k, j)

(* Server::path is turning pointers around.                                *)
Flipping == \E P, k, j, i : Routed(P, k, j) /\ Flipped(P, k, j, i, fwParent, bwParent) /\ node = P[i]

(* unpack_path has come to a node of the path.                             *)
Unpacking == \E P, k, j, i : Routed(P, k, j) /\ Unpacked(customized.metric, Reference, P, k, i, bwParent) /\ node = P[i]

(* All pieces of the path are arcs.                                        *)
AllArcs == \E P, k, j : Routed(P, k, j) /\ Unpacked(customized.metric, Reference, P, k, k, bwParent)

(* What holds of a server in each phase.                                   *)
PathInv ==
    /\ Customized(customized)
    /\ fwParent = [v \in Nodes |-> fwParent[v]] /\ bwParent = [v \in Nodes |-> bwParent[v]]
    /\ phase = "walking" => Walking
    /\ phase \in {"flipping", "unpacking", "unpacked"} => best < Inf
    /\ phase \in {"answered", "flipping", "unpacking", "unpacked"} /\ best < Inf => Halved
    /\ phase \in {"answered", "unpacked"} /\ best < Inf => Downward
    /\ phase = "flipping" => Flipping
    /\ phase = "unpacking" => Unpacking
    /\ phase = "unpacked" => AllArcs

(* It holds of a new server.                                               *)
LEMMA InitPath == Init => PathInv
<1> SUFFICES ASSUME Init PROVE PathInv
  OBVIOUS
<1>1. Customized(customized)
  BY CustomizedOf DEF Init
<1> QED BY <1>1 DEF Init, PathInv

(* A new metric ends the life of earlier results.                          *)
LEMMA UpdatePath == ASSUME PathInv, Update PROVE PathInv'
<1>1. PICK m \in Updates : customized' \in {Basic(m), Perfect(m)}
  BY DEF Update, Customizations
<1>2. Customized(customized')
  BY <1>1, QueriesAssumption, CustomizedOf
<1> QED BY <1>2 DEF Update, walkVars, PathInv

(* A query starts two walks, whatever parents earlier ones have left.      *)
LEMMA QueryPath == ASSUME Inv, AnswerInv, PathInv, Query PROVE PathInv'
<1>1. PICK q \in Queries :
          /\ query' = q /\ fw' = [fw EXCEPT ![q[1]] = 0] /\ bw' = [bw EXCEPT ![q[2]] = 0]
          /\ fwParent' = [fwParent EXCEPT ![q[1]] = q[1]] /\ bwParent' = [bwParent EXCEPT ![q[2]] = q[2]]
          /\ fwNext' = q[1] /\ bwNext' = q[2]
          /\ best' = Inf /\ phase' = "walking" /\ customized' = customized
  BY DEF Query
<1>2. q[1] \in Nodes /\ q[2] \in Nodes
  BY QueriesAssumption
<1>3. 0 \in Weight
  BY InfAssumption DEF Weight
<1>4. fw' \in [Nodes -> Weight] /\ bw' \in [Nodes -> Weight]
  BY <1>1, <1>2, <1>3 DEF AnswerInv
<1>5. \A v \in Nodes : fw[v] = Inf /\ bw[v] = Inf
  BY DEF Inv, Ahead, Query, Free, None, Nodes
<1>6. /\ fw'[q[1]] = 0 /\ \A v \in Nodes : v # q[1] => fw'[v] = Inf
      /\ bw'[q[2]] = 0 /\ \A v \in Nodes : v # q[2] => bw'[v] = Inf
  BY <1>1, <1>2, <1>5 DEF AnswerInv
<1>7. fwParent'[q[1]] = q[1] /\ bwParent'[q[2]] = q[2]
  BY <1>1, <1>2 DEF PathInv
<1> DEFINE D == Reference
           c == customized
           W == [lengths |-> D, weight |-> c.up, edges |-> c.fw, from |-> q[1],
                 dist |-> fw', parents |-> fwParent', next |-> q[1], tent |-> fw']
           V == [lengths |-> Reversed(D), weight |-> c.down, edges |-> c.bw, from |-> q[2],
                 dist |-> bw', parents |-> bwParent', next |-> q[2], tent |-> bw']
<1>8. /\ Lengths(D, Inf) /\ OnEdges(Graph, D, Inf) /\ Lengths(Reversed(D), Inf) /\ OnEdges(Graph, Reversed(D), Inf)
      /\ Opposite(D, Reversed(D))
      /\ c.up = EdgeLengths(D) /\ (c.fw = Edges \/ c.fw = Kept(c.up, D[N]))
      /\ c.down = EdgeLengths(Reversed(D)) /\ (c.bw = Edges \/ c.bw = Kept(c.down, Reversed(D)[N]))
  BY CustomizedFacts DEF PathInv, Reference
<1> PICK f, b : f = fw' /\ b = bw'
  OBVIOUS
<1>9. Forth(f)' = W /\ Against(b)' = V
  BY <1>1 DEF Forth, Against, Reference
<1> HIDE DEF D, c
<1>10. q[1] \in Nat /\ q[2] \in Nat
  BY <1>2, NodesAreLevels
<1>11. WellFormed(W) /\ Starts(W)
  BY <1>2, <1>4, <1>6, <1>7, <1>8, <1>10 DEF WellFormed, Starts
<1>12. WellFormed(V) /\ Starts(V)
  BY <1>2, <1>4, <1>6, <1>7, <1>8, <1>10 DEF WellFormed, Starts
<1>13. Both(W, V, Inf, meeting')
  <2>1. Opposite(W.lengths, V.lengths)
    BY <1>8
  <2> HIDE DEF W, V
  <2> QED BY <1>11, <1>12, <2>1, StartsBoth
<1>14. Walking'
  <2>1. Both(Forth(f)', Against(b)', best', meeting')
    BY <1>1, <1>9, <1>13
  <2> HIDE DEF W, V
  <2> QED BY <2>1 DEF Walking
<1>15. fwParent' = [v \in Nodes |-> fwParent'[v]] /\ bwParent' = [v \in Nodes |-> bwParent'[v]]
  BY <1>1 DEF PathInv
<1> QED BY <1>1, <1>14, <1>15 DEF PathInv

(* The forward walk takes a step, with the tentative distances relaxed as  *)
(* well.                                                                   *)
LEMMA ForwardPath == ASSUME Inv, Inv', AnswerInv, PathInv, ForwardStep PROVE PathInv'
<1>1. PICK f, b : Both(Forth(f), Against(b), best, meeting)
  BY DEF PathInv, ForwardStep, Walking
<1> PICK g : g = Relaxed(f, customized.up, customized.fw, fwNext)
  OBVIOUS
<1> DEFINE W == Forth(f)
           V == Against(b)
           X == Forth(g)'
<1>2. /\ fw' = Settled(fw, customized.up, customized.fw, fwNext) /\ fwNext' = Parent[fwNext]
      /\ fwParent' = Parents(fwParent, fw, Relaxed(fw, customized.up, customized.fw, fwNext), fwNext)
      /\ UNCHANGED <<customized, bw, bwParent, bwNext, best, meeting, query, phase, node>>
      /\ phase = "walking" /\ fwNext # None /\ (bwNext = None \/ fwNext < bwNext)
  BY DEF ForwardStep, FwRelaxed, Settled
<1>3. /\ Ahead(fw', fwNext') /\ fwNext \in Nodes
      /\ fw \in [Nodes -> Weight] /\ best \in Nat
  BY <1>2, InfAssumption DEF Inv, Ahead, AnswerInv, Weight
<1>4. /\ W.next = fwNext /\ W.dist = fw /\ W.parents = fwParent /\ W.tent = f
      /\ W.lengths = Reference /\ W.weight = customized.up /\ W.edges = customized.fw /\ W.from = query[1]
      /\ V.next = bwNext
  BY DEF Forth, Against
<1>5. /\ X.next = fwNext' /\ X.dist = fw' /\ X.parents = fwParent' /\ X.tent = g
      /\ X.lengths = Reference /\ X.weight = customized.up /\ X.edges = customized.fw /\ X.from = query[1]
      /\ Against(b)' = V
  BY <1>2 DEF Forth, Against, Reference
<1> HIDE DEF W, V, X
<1>6. Both(W, V, best, meeting) /\ IsWalk(W, best)
  BY <1>1 DEF W, V, Both
<1>7. Goes(W, X)
  BY <1>2, <1>3, <1>4, <1>5 DEF Goes
<1>8. Steps(W, X, best)
  BY <1>2, <1>3, <1>4, <1>5, <1>6, <1>7, SettleSteps
<1>9. Behind(W.next, V.next)
  BY <1>2, <1>4 DEF Behind
<1>10. Both(X, V, best, meeting)
  BY <1>3, <1>6, <1>8, <1>9, ForwardBoth
<1>11. Walking'
  <2>1. Both(Forth(g)', Against(b)', best', meeting')
    BY <1>2, <1>5, <1>10 DEF X
  <2> QED BY <2>1 DEF Walking
<1>12. fwParent' = [v \in Nodes |-> fwParent'[v]]
  BY <1>2 DEF Parents
<1> QED BY <1>2, <1>11, <1>12 DEF PathInv

(* So does a step of the backward walk.                                    *)
LEMMA BackwardPath == ASSUME Inv, Inv', AnswerInv, PathInv, BackwardStep PROVE PathInv'
<1>1. PICK f, b : Both(Forth(f), Against(b), best, meeting)
  BY DEF PathInv, BackwardStep, Walking
<1> PICK g : g = Relaxed(b, customized.down, customized.bw, bwNext)
  OBVIOUS
<1> DEFINE W == Forth(f)
           V == Against(b)
           Y == Against(g)'
<1>2. /\ bw' = Settled(bw, customized.down, customized.bw, bwNext) /\ bwNext' = Parent[bwNext]
      /\ bwParent' = Parents(bwParent, bw, Relaxed(bw, customized.down, customized.bw, bwNext), bwNext)
      /\ UNCHANGED <<customized, fw, fwParent, fwNext, best, meeting, query, phase, node>>
      /\ phase = "walking" /\ bwNext # None /\ (fwNext = None \/ bwNext < fwNext)
  BY DEF BackwardStep, BwRelaxed, Settled
<1>3. /\ Ahead(bw', bwNext') /\ bwNext \in Nodes
      /\ bw \in [Nodes -> Weight] /\ best \in Nat
  BY <1>2, InfAssumption DEF Inv, Ahead, AnswerInv, Weight
<1>4. /\ V.next = bwNext /\ V.dist = bw /\ V.parents = bwParent /\ V.tent = b
      /\ V.lengths = Reversed(Reference) /\ V.weight = customized.down /\ V.edges = customized.bw /\ V.from = query[2]
      /\ W.next = fwNext
  BY DEF Forth, Against
<1>5. /\ Y.next = bwNext' /\ Y.dist = bw' /\ Y.parents = bwParent' /\ Y.tent = g
      /\ Y.lengths = Reversed(Reference) /\ Y.weight = customized.down /\ Y.edges = customized.bw /\ Y.from = query[2]
      /\ Forth(f)' = W
  BY <1>2 DEF Forth, Against, Reference
<1> HIDE DEF W, V, Y
<1>6. Both(W, V, best, meeting) /\ Both(V, W, best, meeting) /\ IsWalk(V, best)
  <2>1. Both(W, V, best, meeting)
    BY <1>1 DEF W, V
  <2> QED BY <2>1, BothSwap DEF Both
<1>7. Goes(V, Y)
  BY <1>2, <1>3, <1>4, <1>5 DEF Goes
<1>8. Steps(V, Y, best)
  BY <1>2, <1>3, <1>4, <1>5, <1>6, <1>7, SettleSteps
<1>9. Behind(V.next, W.next)
  BY <1>2, <1>4 DEF Behind
<1>10. Both(Y, W, best, meeting)
  BY <1>3, <1>6, <1>8, <1>9, ForwardBoth
<1>11. Walking'
  <2>1. Both(W, Y, best, meeting)
    BY <1>10, BothSwap
  <2>2. Both(Forth(f)', Against(g)', best', meeting')
    BY <1>2, <1>5, <2>1 DEF Y
  <2> QED BY <2>2 DEF Walking
<1>12. bwParent' = [v \in Nodes |-> bwParent'[v]]
  BY <1>2 DEF Parents
<1> QED BY <1>2, <1>11, <1>12 DEF PathInv

(* At a node of both walks, each is settled or too far away for that.      *)
LEMMA EitherSteps ==
    ASSUME NEW W, NEW least \in Nat, IsWalk(W, least), W.dist \in [Nodes -> Weight], NEW X, Goes(W, X),
           W.dist[W.next] < least => /\ X.tent = Relaxed(W.tent, W.weight, W.edges, W.next)
                                     /\ X.dist = Settled(W.dist, W.weight, W.edges, W.next)
                                     /\ X.parents = Parents(W.parents, W.dist, Relaxed(W.dist, W.weight, W.edges, W.next), W.next),
           ~(W.dist[W.next] < least) => /\ X.tent = W.tent /\ X.dist = [W.dist EXCEPT ![W.next] = Inf]
                                        /\ X.parents = Parents(W.parents, W.dist, W.dist, W.next),
           Ahead(X.dist, X.next)
    PROVE  Steps(W, X, least)
<1>1. W.next \in Nodes
  BY DEF Goes
<1>2. W.dist[W.next] \in Nat
  BY <1>1, InfAssumption DEF Weight
<1>3. CASE W.dist[W.next] < least
  BY <1>3, SettleSteps
<1>4. CASE ~(W.dist[W.next] < least)
  <2>1. least <= W.dist[W.next]
    BY <1>2, <1>4
  <2> QED BY <1>4, <2>1, SkipSteps
<1> QED BY <1>3, <1>4

(* A node of both walks may be a new meeting node.                         *)
LEMMA CommonPath == ASSUME Inv, Inv', AnswerInv, PathInv, CommonStep PROVE PathInv'
<1>1. PICK f, b : Both(Forth(f), Against(b), best, meeting)
  BY DEF PathInv, CommonStep, Walking
<1> PICK x : x = fwNext
  OBVIOUS
<1> PICK g : g = IF fw[x] < best THEN Relaxed(f, customized.up, customized.fw, x) ELSE f
  OBVIOUS
<1> PICK h : h = IF bw[x] < best THEN Relaxed(b, customized.down, customized.bw, x) ELSE b
  OBVIOUS
<1> DEFINE W == Forth(f)
           V == Against(b)
           X == Forth(g)'
           Y == Against(h)'
<1>2. /\ fw[x] < best => /\ fw' = Settled(fw, customized.up, customized.fw, x)
                         /\ fwParent' = Parents(fwParent, fw, Relaxed(fw, customized.up, customized.fw, x), x)
      /\ ~(fw[x] < best) => fw' = [fw EXCEPT ![x] = Inf] /\ fwParent' = Parents(fwParent, fw, fw, x)
      /\ bw[x] < best => /\ bw' = Settled(bw, customized.down, customized.bw, x)
                         /\ bwParent' = Parents(bwParent, bw, Relaxed(bw, customized.down, customized.bw, x), x)
      /\ ~(bw[x] < best) => bw' = [bw EXCEPT ![x] = Inf] /\ bwParent' = Parents(bwParent, bw, bw, x)
  BY DEF CommonStep, FwRelaxed, BwRelaxed, Settled
<1>3. /\ best' = IF fw[x] + bw[x] < best THEN fw[x] + bw[x] ELSE best
      /\ meeting' = IF fw[x] + bw[x] < best THEN x ELSE meeting
      /\ fwNext' = Parent[x] /\ bwNext' = Parent[x] /\ bwNext = x /\ x # None
      /\ UNCHANGED <<customized, query, phase, node>> /\ phase = "walking"
  BY DEF CommonStep
<1>4. /\ Ahead(fw', fwNext') /\ Ahead(bw', bwNext') /\ x \in Nodes
      /\ fw \in [Nodes -> Weight] /\ bw \in [Nodes -> Weight] /\ best \in Nat /\ best <= Inf
  BY <1>3, InfAssumption DEF Inv, Ahead, AnswerInv, Weight
<1>5. /\ W.next = x /\ W.dist = fw /\ W.parents = fwParent /\ W.tent = f
      /\ W.lengths = Reference /\ W.weight = customized.up /\ W.edges = customized.fw /\ W.from = query[1]
  BY DEF Forth
<1>6. /\ V.next = x /\ V.dist = bw /\ V.parents = bwParent /\ V.tent = b
      /\ V.lengths = Reversed(Reference) /\ V.weight = customized.down /\ V.edges = customized.bw /\ V.from = query[2]
  BY <1>3 DEF Against
<1>7. /\ X.next = fwNext' /\ X.dist = fw' /\ X.parents = fwParent' /\ X.tent = g
      /\ X.lengths = Reference /\ X.weight = customized.up /\ X.edges = customized.fw /\ X.from = query[1]
  BY <1>3 DEF Forth, Reference
<1>8. /\ Y.next = bwNext' /\ Y.dist = bw' /\ Y.parents = bwParent' /\ Y.tent = h
      /\ Y.lengths = Reversed(Reference) /\ Y.weight = customized.down /\ Y.edges = customized.bw /\ Y.from = query[2]
  BY <1>3 DEF Against, Reference
<1> HIDE DEF W, V, X, Y
<1>9. Both(W, V, best, meeting) /\ IsWalk(W, best) /\ IsWalk(V, best)
  BY <1>1 DEF W, V, Both
<1>10. Steps(W, X, best)
  <2>1. Goes(W, X)
    BY <1>3, <1>4, <1>5, <1>7 DEF Goes
  <2> QED BY <1>2, <1>4, <1>5, <1>7, <1>9, <2>1, EitherSteps
<1>11. Steps(V, Y, best)
  <2>1. Goes(V, Y)
    BY <1>3, <1>4, <1>6, <1>8 DEF Goes
  <2> QED BY <1>2, <1>4, <1>6, <1>8, <1>9, <2>1, EitherSteps
<1>12. W.tent[x] = fw[x] /\ V.tent[x] = bw[x] /\ W.tent[x] \in Nat /\ V.tent[x] \in Nat
  <2>1. x <= x
    BY <1>4, NodesAreLevels
  <2> QED BY <1>4, <1>5, <1>6, <1>9, <2>1, Unresets
<1>13. Both(X, Y, best', meeting')
  <2>1. Joins(W, V, best, meeting, best', meeting')
    BY <1>3, <1>5, <1>6, <1>12 DEF Joins
  <2> QED BY <1>4, <1>9, <1>10, <1>11, <2>1, CommonBoth
<1>14. Walking'
  <2>1. Both(Forth(g)', Against(h)', best', meeting')
    BY <1>13 DEF X, Y
  <2> QED BY <2>1 DEF Walking
<1>15. fwParent' = [v \in Nodes |-> fwParent'[v]] /\ bwParent' = [v \in Nodes |-> bwParent'[v]]
  BY <1>2 DEF Parents
<1> QED BY <1>3, <1>14, <1>15 DEF PathInv

(* The lengths in the metric of the server.                                *)
LEMMA ReferenceFacts ==
    ASSUME PathInv
    PROVE  /\ Lengths(Reference, Inf) /\ customized.metric \in Metrics
           /\ customized \in {Basic(customized.metric), Perfect(customized.metric)}
           /\ customized.dist = Reference[N]
<1>1. Customized(customized)
  BY DEF PathInv
<1> QED BY <1>1, CustomizedFacts DEF Customized, Reference

(* The answer of a query is the distance, so the pointers are halves of a  *)
(* shortest path.                                                          *)
LEMMA AnswerPath == ASSUME Inv, AnswerInv, AnswerInv', PathInv, Answer PROVE PathInv'
<1>1. /\ phase = "walking" /\ phase' = "answered"
      /\ UNCHANGED <<customized, walkVars, fwParent, bwParent, query, node>>
  BY DEF Answer
<1>2. best < Inf => Halved /\ Downward
  <2> SUFFICES ASSUME best < Inf PROVE Halved /\ Downward
    OBVIOUS
  <2>1. PICK f, b : Both(Forth(f), Against(b), best, meeting)
    BY <1>1 DEF PathInv, Walking
  <2> DEFINE W == Forth(f)
             V == Against(b)
  <2>2. /\ W.lengths = Reference /\ W.from = query[1] /\ W.parents = fwParent
        /\ V.lengths = Reversed(Reference) /\ V.from = query[2] /\ V.parents = bwParent
    BY DEF Forth, Against
  <2> HIDE DEF W, V
  <2>3. Both(W, V, best, meeting)
    BY <2>1 DEF W, V
  <2>4. best = Reference[N][<<query[1], query[2]>>]
    <3>1. query = <<query[1], query[2]>>
      BY <1>1 DEF AnswerInv
    <3>2. best = customized.dist[query]
      BY <1>1 DEF AnswerInv, AnswersAreDistances, walkVars
    <3> QED BY <3>1, <3>2, ReferenceFacts
  <2>5. best = Far(W, V.from)
    BY <2>2, <2>4 DEF Far
  <2>6. /\ Joint(W.lengths, W.from, V.from, meeting)
        /\ \E k \in Nat : \E Q : UpTo(W.lengths, W.from, meeting, Q, k, W.parents)
        /\ \E k \in Nat : \E Q : UpTo(V.lengths, V.from, meeting, Q, k, V.parents)
    BY <2>3, <2>5, AnswerHalves
  <2>7. Halved
    BY <2>2, <2>4, <2>6 DEF Halved
  <2>8. PICK k, Q : UpTo(Reversed(Reference), query[2], meeting, Q, k, bwParent)
    BY <2>2, <2>6
  <2>9. query[2] \in Nodes /\ Lengths(Reference, Inf)
    BY <1>1, ReferenceFacts DEF AnswerInv
  <2>10. DownFrom(Reference, meeting, query[2], [n \in 0 .. k |-> Q[k - n]], k, bwParent)
    BY <2>8, <2>9, UpIsDown
  <2> QED BY <2>7, <2>10 DEF Downward
<1>3. best' < Inf => Halved' /\ Downward'
  BY <1>1, <1>2 DEF Halved, Downward, Reference, walkVars
<1> QED BY <1>1, <1>3 DEF PathInv, walkVars

(* A path is asked for, for the first time or again.                       *)
LEMMA AskPathStep == ASSUME PathInv, AskForPath PROVE PathInv'
<1>1. /\ phase \in {"answered", "unpacked"} /\ best < Inf /\ node' = meeting /\ phase' = "flipping"
      /\ UNCHANGED <<customized, walkVars, fwParent, bwParent, query>>
  BY DEF AskForPath
<1>2. Halved /\ Downward /\ Lengths(Reference, Inf)
  BY <1>1, ReferenceFacts DEF PathInv
<1>3. PICK k, Q : UpTo(Reference, query[1], meeting, Q, k, fwParent)
  BY <1>2 DEF Halved
<1>4. PICK l, S : DownFrom(Reference, meeting, query[2], S, l, bwParent)
  BY <1>2 DEF Downward
<1>5. PICK P : P = JoinAt(Q, k, S, l)
  OBVIOUS
<1>6. Joint(Reference, query[1], query[2], meeting)
  BY <1>2 DEF Halved
<1>7. Routed(P, k + l, k) /\ Flipped(P, k + l, k, k, fwParent, bwParent) /\ P[k] = meeting
  BY <1>2, <1>3, <1>4, <1>5, <1>6, StartRoute DEF Routed
<1>8. Flipping'
  <2>1. Routed(P, k + l, k)' /\ Flipped(P, k + l, k, k, fwParent', bwParent') /\ node' = P[k]
    BY <1>1, <1>7 DEF Routed, Reference, walkVars
  <2> QED BY <2>1 DEF Flipping
<1>9. Halved'
  BY <1>1, <1>2 DEF Halved, Reference, walkVars
<1> QED BY <1>1, <1>8, <1>9 DEF PathInv, walkVars

(* A round of the first loop of Server::path.                              *)
LEMMA FlipPath == ASSUME PathInv, Flip PROVE PathInv'
<1>1. phase = "flipping" /\ UNCHANGED <<customized, walkVars, fwParent, query>>
  BY DEF Flip
<1>2. PICK P, k, j, i : Routed(P, k, j) /\ Flipped(P, k, j, i, fwParent, bwParent) /\ node = P[i]
  BY <1>1 DEF PathInv, Flipping
<1>3. /\ Halved /\ best < Inf /\ Lengths(Reference, Inf)
      /\ bwParent = [v \in Nodes |-> bwParent[v]] /\ fwParent = [v \in Nodes |-> fwParent[v]]
  BY <1>1, ReferenceFacts DEF PathInv
<1>4. Halved' /\ Routed(P, k, j)' /\ Reference' = Reference /\ best' < Inf
  BY <1>1, <1>2, <1>3 DEF Halved, Routed, Reference, walkVars
<1>5. Route(Reference, query[1], query[2], meeting, P, k, j)
  BY <1>2 DEF Routed
<1>6. CASE node # query[1]
  <2>1. bwParent' = [bwParent EXCEPT ![fwParent[node]] = node] /\ node' = fwParent[node] /\ phase' = phase
    BY <1>6 DEF Flip
  <2>2. Flipped(P, k, j, i - 1, fwParent, [bwParent EXCEPT ![fwParent[P[i]]] = P[i]]) /\ fwParent[P[i]] = P[i - 1]
    <3>1. P[i] # query[1]
      BY <1>2, <1>6
    <3> QED BY <1>2, <1>3, <1>5, <3>1, FlipStep
  <2>3. Flipped(P, k, j, i - 1, fwParent', bwParent') /\ node' = P[i - 1]
    BY <1>1, <1>2, <2>1, <2>2
  <2>4. Flipping'
    BY <1>4, <2>3 DEF Flipping
  <2>5. bwParent' = [v \in Nodes |-> bwParent'[v]]
    BY <1>3, <2>1
  <2> QED BY <1>1, <1>3, <1>4, <2>1, <2>4, <2>5 DEF PathInv
<1>7. CASE node = query[1]
  <2>1. bwParent' = bwParent /\ node' = node /\ phase' = "unpacking"
    BY <1>7 DEF Flip
  <2>2. Unpacked(customized.metric, Reference, P, k, 0, bwParent) /\ P[0] = query[1]
    <3>1. P[i] = query[1] /\ Flipped(P, k, j, i, fwParent, bwParent)
      BY <1>2, <1>7
    <3> QED BY <1>3, <1>5, <3>1, FlipDone
  <2>3. Unpacked(customized.metric', Reference', P, k, 0, bwParent') /\ node' = P[0]
    BY <1>1, <1>4, <1>7, <2>1, <2>2
  <2>4. Unpacking'
    BY <1>4, <2>3 DEF Unpacking
  <2> QED BY <1>1, <1>3, <1>4, <2>1, <2>4 DEF PathInv
<1> QED BY <1>6, <1>7

(* A round of the loop of unpack_path: the piece is an arc or it is split  *)
(* at the node that customization noted for it.                            *)
LEMMA UnpackPath == ASSUME PathInv, Unpack PROVE PathInv'
<1>1. phase = "unpacking" /\ phase' = phase /\ node # query[2] /\ UNCHANGED <<customized, walkVars, fwParent, query>>
  BY DEF Unpack
<1>2. PICK P, k, j, i : /\ Routed(P, k, j) /\ node = P[i]
                        /\ Unpacked(customized.metric, Reference, P, k, i, bwParent)
  BY <1>1 DEF PathInv, Unpacking
<1>3. /\ Halved /\ best < Inf /\ Lengths(Reference, Inf) /\ customized.metric \in Metrics
      /\ customized \in {Basic(customized.metric), Perfect(customized.metric)}
      /\ bwParent = [v \in Nodes |-> bwParent[v]] /\ fwParent = [v \in Nodes |-> fwParent[v]]
  BY <1>1, ReferenceFacts DEF PathInv
<1>4. Halved' /\ Reference' = Reference /\ best' < Inf
  BY <1>1, <1>3 DEF Halved, Reference, walkVars
<1>5. Route(Reference, query[1], query[2], meeting, P, k, j)
  BY <1>2 DEF Routed
<1>6. /\ Tight(Reference, P, k) /\ P[k] = query[2] /\ query[2] \in Nodes /\ P[i] # query[2]
      /\ i \in 0 .. k - 1 /\ bwParent[P[i]] = P[i + 1]
  <2>1. Tight(Reference, P, k) /\ P[k] = query[2] /\ k \in Nat
    BY <1>5 DEF Route, Tight
  <2>2. query[2] \in Nodes
    <3>1. k \in 0 .. k
      BY <2>1
    <3> QED BY <2>1, <3>1 DEF Tight
  <2>3. i \in 0 .. k /\ \A n \in 0 .. k - 1 : bwParent[P[n]] = P[n + 1]
    BY <1>2 DEF Unpacked
  <2>4. P[i] # query[2]
    BY <1>1, <1>2
  <2>5. i # k
    BY <2>1, <2>4
  <2>6. i \in 0 .. k - 1
    BY <2>1, <2>3, <2>5
  <2> QED BY <2>1, <2>2, <2>3, <2>4, <2>6
<1>7. Piece(Reference, P[i], bwParent[P[i]])
  BY <1>6 DEF Tight
<1> DEFINE middle == Middle(customized, P[i], bwParent[P[i]])
<1>8. IF middle = None THEN HasArc(customized.metric, Reference, P[i], bwParent[P[i]])
      ELSE Splits(Reference, P[i], middle, bwParent[P[i]])
  BY <1>3, <1>7, MiddleSplits DEF Reference
<1>9. \/ /\ middle # None
         /\ bwParent' = [bwParent EXCEPT ![P[i]] = middle, ![middle] = bwParent[P[i]]] /\ node' = P[i]
      \/ middle = None /\ node' = bwParent[P[i]] /\ bwParent' = bwParent
  BY <1>2 DEF Unpack
<1> HIDE DEF middle
<1>10. CASE middle = None
  <2>1. node' = bwParent[P[i]] /\ bwParent' = bwParent
    BY <1>9, <1>10
  <2>2. Unpacked(customized.metric, Reference, P, k, i + 1, bwParent) /\ bwParent[P[i]] = P[i + 1]
    BY <1>2, <1>3, <1>6, <1>8, <1>10, UnpackArc
  <2>3. Unpacked(customized.metric', Reference', P, k, i + 1, bwParent') /\ node' = P[i + 1] /\ Routed(P, k, j)'
    BY <1>1, <1>2, <1>4, <2>1, <2>2 DEF Routed, walkVars
  <2>4. Unpacking'
    BY <2>3 DEF Unpacking
  <2> QED BY <1>1, <1>3, <1>4, <2>1, <2>4 DEF PathInv
<1>11. CASE middle # None
  <2>1. bwParent' = [bwParent EXCEPT ![P[i]] = middle, ![middle] = bwParent[P[i]]] /\ node' = P[i]
    BY <1>9, <1>11
  <2>2. PICK Q : Q = Insert(P, k, i, middle)
    OBVIOUS
  <2>3. /\ \E h : Route(Reference, query[1], query[2], meeting, Q, k + 1, h)
        /\ Q[i] = P[i] /\ Unpacked(customized.metric, Reference, Q, k + 1, i, Detour(bwParent, P[i], middle))
    <3>1. Splits(Reference, P[i], middle, bwParent[P[i]])
      BY <1>8, <1>11
    <3>2. Unpacked(customized.metric, Reference, P, k, i, bwParent)
      BY <1>2
    <3> QED BY <1>3, <1>5, <1>6, <2>2, <3>1, <3>2, UnpackSplit
  <2>4. PICK h : Route(Reference, query[1], query[2], meeting, Q, k + 1, h)
    BY <2>3
  <2>5. Routed(Q, k + 1, h)' /\ Unpacked(customized.metric', Reference', Q, k + 1, i, bwParent') /\ node' = Q[i]
    BY <1>1, <1>4, <2>1, <2>3, <2>4 DEF Routed, Detour, walkVars
  <2>6. Unpacking'
    BY <2>5 DEF Unpacking
  <2>7. bwParent' = [v \in Nodes |-> bwParent'[v]]
    BY <1>3, <2>1
  <2> QED BY <1>1, <1>3, <1>4, <2>6, <2>7 DEF PathInv
<1> QED BY <1>10, <1>11

(* The loop is over at the target only: no node is twice on the path.      *)
LEMMA FinishedPath == ASSUME PathInv, FinishPath PROVE PathInv'
<1>1. /\ phase = "unpacking" /\ phase' = "unpacked" /\ node = query[2]
      /\ UNCHANGED <<customized, walkVars, fwParent, bwParent, query, node>>
  BY DEF FinishPath
<1>2. PICK P, k, j, i : /\ Routed(P, k, j) /\ node = P[i]
                        /\ Unpacked(customized.metric, Reference, P, k, i, bwParent)
  BY <1>1 DEF PathInv, Unpacking
<1>3. Halved /\ best < Inf /\ Lengths(Reference, Inf)
  BY <1>1, ReferenceFacts DEF PathInv
<1>4. Route(Reference, query[1], query[2], meeting, P, k, j)
  BY <1>2 DEF Routed
<1>5. i = k
  <2>1. Tight(Reference, P, k) /\ P[k] = query[2] /\ i \in 0 .. k /\ k \in 0 .. k /\ P[i] = P[k]
    <3>1. Tight(Reference, P, k) /\ P[k] = query[2] /\ k \in Nat
      BY <1>4 DEF Route, Tight
    <3>2. i \in 0 .. k
      BY <1>2 DEF Unpacked
    <3>3. P[i] = P[k]
      BY <1>1, <1>2, <3>1
    <3> QED BY <3>1, <3>2, <3>3
  <2> QED BY <1>3, <2>1, SimplePath
<1>6. AllArcs
  BY <1>2, <1>5 DEF AllArcs
<1>7. Downward
  <2>1. \A n \in 0 .. k - 1 : bwParent[P[n]] = P[n + 1]
    BY <1>2 DEF Unpacked
  <2>2. DownFrom(Reference, meeting, query[2], [n \in 0 .. k - j |-> P[n + j]], k - j, bwParent)
    BY <1>4, <2>1, RouteDown
  <2> QED BY <2>2 DEF Downward
<1>8. Halved' /\ AllArcs' /\ Downward'
  BY <1>1, <1>3, <1>6, <1>7 DEF Halved, AllArcs, Routed, Downward, Reference, walkVars
<1> QED BY <1>1, <1>3, <1>8 DEF PathInv, walkVars

(* No step of a server breaks it.                                          *)
LEMMA StepPath == Inv /\ Inv' /\ AnswerInv /\ AnswerInv' /\ PathInv /\ [Next]_vars => PathInv'
<1> SUFFICES ASSUME Inv, Inv', AnswerInv, AnswerInv', PathInv, [Next]_vars PROVE PathInv'
  OBVIOUS
<1>1. CASE UNCHANGED vars
  BY <1>1 DEF vars, walkVars, PathInv, Walking, Forth, Against, Halved, Downward, Flipping, Unpacking, AllArcs,
              Routed, Reference
<1> QED BY <1>1, UpdatePath, QueryPath, ForwardPath, BackwardPath, CommonPath, AnswerPath, AskPathStep, FlipPath,
           UnpackPath, FinishedPath DEF Next, Server

-----------------------------------------------------------------------------
(* Following the parents of the finished path.                             *)

(* The recursive function of Follow.                                       *)
Leads(f, leads, from) == f = [k \in 0 .. N |-> IF k = 0 THEN from ELSE leads[f[k - 1]]]

(* Such a function exists.                                                 *)
LEMMA FollowExists ==
    ASSUME NEW leads, NEW from
    PROVE  \E f : Leads(f, leads, from)
<1> DEFINE Good(m, f) == f = [k \in 0 .. m |-> IF k = 0 THEN from ELSE leads[f[k - 1]]]
           T == {m \in 0 .. N : \E f : Good(m, f)}
<1>1. ASSUME NEW m \in 0 .. N, 0 .. m - 1 \subseteq T PROVE m \in T
  <2>1. CASE m = 0
    <3> DEFINE f == [k \in 0 .. 0 |-> from]
    <3>1. Good(m, f)
      BY <2>1
    <3> HIDE DEF f, Good
    <3> QED BY <3>1
  <2>2. CASE m > 0
    <3>1. m - 1 \in T /\ m - 1 \in Nat /\ m \in Nat
      BY <1>1, <2>2, NAssumption
    <3>2. PICK g : Good(m - 1, g)
      BY <3>1
    <3>3. \A k \in 0 .. m - 1 : g[k] = IF k = 0 THEN from ELSE leads[g[k - 1]]
      BY <3>2
    <3> DEFINE f == [k \in 0 .. m |-> IF k = m THEN leads[g[m - 1]] ELSE g[k]]
    <3>4. ASSUME NEW k \in 0 .. m PROVE f[k] = IF k = 0 THEN from ELSE leads[f[k - 1]]
      <4>1. CASE k = m
        <5>1. m - 1 \in 0 .. m /\ m - 1 # m
          BY <3>1
        <5> QED BY <2>2, <4>1, <5>1
      <4>2. CASE k = 0
        <5>1. k # m /\ k \in 0 .. m - 1
          BY <2>2, <3>1, <4>2
        <5> QED BY <3>3, <4>2, <5>1
      <4>3. CASE k # m /\ k # 0
        <5>1. k - 1 \in 0 .. m /\ k - 1 # m /\ k \in 0 .. m - 1
          BY <3>1, <4>3
        <5> QED BY <3>3, <4>3, <5>1
      <4> QED BY <4>1, <4>2, <4>3
    <3>5. f = [k \in 0 .. m |-> f[k]]
      OBVIOUS
    <3> HIDE DEF f
    <3>6. Good(m, f)
      BY <3>4, <3>5
    <3> HIDE DEF Good
    <3> QED BY <3>6
  <2> QED BY <2>1, <2>2
<1>2. N \in T
  <2>1. N \in Nat /\ N \in 0 .. N
    BY NAssumption
  <2> HIDE DEF T
  <2> QED BY <1>1, <2>1, InductionUpTo
<1> QED BY <1>2 DEF Leads

(* A recursive function that adds up weights exists.                       *)
LEMMA SumsExist ==
    ASSUME NEW w
    PROVE  \E f : f = [k \in 0 .. N |-> IF k = 0 THEN 0 ELSE f[k - 1] + w[k - 1]]
<1> DEFINE Good(m, f) == f = [k \in 0 .. m |-> IF k = 0 THEN 0 ELSE f[k - 1] + w[k - 1]]
           T == {m \in 0 .. N : \E f : Good(m, f)}
<1>1. ASSUME NEW m \in 0 .. N, 0 .. m - 1 \subseteq T PROVE m \in T
  <2>1. CASE m = 0
    <3> DEFINE f == [k \in 0 .. 0 |-> 0]
    <3>1. Good(m, f)
      BY <2>1
    <3> HIDE DEF f, Good
    <3> QED BY <3>1
  <2>2. CASE m > 0
    <3>1. m - 1 \in T /\ m - 1 \in Nat /\ m \in Nat
      BY <1>1, <2>2, NAssumption
    <3>2. PICK g : Good(m - 1, g)
      BY <3>1
    <3>3. \A k \in 0 .. m - 1 : g[k] = IF k = 0 THEN 0 ELSE g[k - 1] + w[k - 1]
      BY <3>2
    <3> DEFINE f == [k \in 0 .. m |-> IF k = m THEN g[m - 1] + w[m - 1] ELSE g[k]]
    <3>4. ASSUME NEW k \in 0 .. m PROVE f[k] = IF k = 0 THEN 0 ELSE f[k - 1] + w[k - 1]
      <4>1. CASE k = m
        <5>1. m - 1 \in 0 .. m /\ m - 1 # m
          BY <3>1
        <5> QED BY <2>2, <4>1, <5>1
      <4>2. CASE k = 0
        <5>1. k # m /\ k \in 0 .. m - 1
          BY <2>2, <3>1, <4>2
        <5> QED BY <3>3, <4>2, <5>1
      <4>3. CASE k # m /\ k # 0
        <5>1. k - 1 \in 0 .. m /\ k - 1 # m /\ k \in 0 .. m - 1
          BY <3>1, <4>3
        <5> QED BY <3>3, <4>3, <5>1
      <4> QED BY <4>1, <4>2, <4>3
    <3>5. f = [k \in 0 .. m |-> f[k]]
      OBVIOUS
    <3> HIDE DEF f
    <3>6. Good(m, f)
      BY <3>4, <3>5
    <3> HIDE DEF Good
    <3> QED BY <3>6
  <2> QED BY <2>1, <2>2
<1>2. N \in T
  <2>1. N \in Nat /\ N \in 0 .. N
    BY NAssumption
  <2> HIDE DEF T
  <2> QED BY <1>1, <2>1, InductionUpTo
<1> QED BY <1>2

(* Pointers lead from a node along a path.                                 *)
Along(P, k, leads, from) == P[0] = from /\ \A n \in 0 .. k - 1 : leads[P[n]] = P[n + 1]

(* Follow is the path along which pointers lead.                           *)
LEMMA FollowLeads ==
    ASSUME NEW P, NEW k \in 0 .. N, NEW leads, NEW from, Along(P, k, leads, from)
    PROVE  \A n \in 0 .. k : Follow(leads, from)[n] = P[n]
<1> DEFINE at == Follow(leads, from)
           F(f) == [n \in 0 .. N |-> IF n = 0 THEN from ELSE leads[f[n - 1]]]
           T == {n \in 0 .. k : at[n] = P[n]}
<1>1. at = F(at)
  <2>1. at = CHOOSE f : f = F(f)
    BY DEF Follow
  <2>2. \E f : f = F(f)
    <3>1. PICK g : Leads(g, leads, from)
      BY FollowExists
    <3>2. g = F(g)
      BY <3>1 DEF Leads
    <3> HIDE DEF F
    <3> QED BY <3>2
  <2> HIDE DEF F, at
  <2> QED BY <2>1, <2>2
<1> HIDE DEF at
<1>2. N \in Nat /\ k \in Nat /\ k <= N
  BY NAssumption
<1>3. \A n \in 0 .. N : at[n] = IF n = 0 THEN from ELSE leads[at[n - 1]]
  BY <1>1
<1>4. ASSUME NEW n \in 0 .. k, 0 .. n - 1 \subseteq T PROVE n \in T
  <2>1. CASE n = 0
    BY <1>2, <1>3, <2>1 DEF Along
  <2>2. CASE n # 0
    <3>1. n - 1 \in 0 .. n - 1 /\ n - 1 \in 0 .. k - 1 /\ n \in 0 .. N /\ (n - 1) + 1 = n
      BY <1>2, <2>2
    <3>2. at[n - 1] = P[n - 1]
      BY <1>4, <3>1
    <3>3. leads[P[n - 1]] = P[(n - 1) + 1]
      BY <3>1 DEF Along
    <3>4. at[n] = P[n]
      BY <1>3, <2>2, <3>1, <3>2, <3>3
    <3> QED BY <3>4
  <2> QED BY <2>1, <2>2
<1>5. 0 .. k \subseteq T
  <2> HIDE DEF T
  <2> QED BY <1>2, <1>4, InductionUpTo
<1> QED BY <1>5 DEF at

(* The lengths of the pieces of a tight path add up to its own.            *)
LEMMA LengthAdds ==
    ASSUME NEW D, Lengths(D, Inf), NEW P, NEW k \in 0 .. N, Tight(D, P, k), NEW length, NEW w,
           \A n \in 0 .. N : length[n] = IF n = 0 THEN 0 ELSE length[n - 1] + w[n - 1],
           \A n \in 0 .. k - 1 : w[n] = D[N][<<P[n], P[n + 1]>>]
    PROVE  length[k] = D[N][<<P[0], P[k]>>]
<1> DEFINE T == {n \in 0 .. k : length[n] = D[N][<<P[0], P[n]>>]}
<1>1. N \in Nat /\ k \in Nat /\ k <= N /\ P \in [0 .. k -> Nodes] /\ N \in 0 .. N
  BY NAssumption DEF Tight
<1>2. D[N][<<P[0], P[0]>>] = 0 /\ \A a, b \in Nodes : D[N][<<a, b>>] \in Nat
  <2>1. P[0] \in Nodes
    BY <1>1
  <2> QED BY <1>1, <2>1, LengthLaws
<1>3. ASSUME NEW n \in 0 .. k, 0 .. n - 1 \subseteq T PROVE n \in T
  <2>1. CASE n = 0
    BY <1>1, <1>2, <2>1
  <2>2. CASE n # 0
    <3>1. n - 1 \in 0 .. n - 1 /\ n - 1 \in 0 .. k - 1 /\ n \in 0 .. N /\ (n - 1) + 1 = n /\ n - 1 \in 0 .. k /\ n - 1 < n
      BY <1>1, <2>2
    <3>2. length[n - 1] = D[N][<<P[0], P[n - 1]>>]
      BY <1>3, <3>1
    <3>3. w[n - 1] = D[N][<<P[n - 1], P[n]>>]
      <4>1. w[n - 1] = D[N][<<P[n - 1], P[(n - 1) + 1]>>]
        BY <3>1
      <4> QED BY <3>1, <4>1
    <3>4. length[n] = D[N][<<P[0], P[n - 1]>>] + D[N][<<P[n - 1], P[n]>>]
      BY <2>2, <3>1, <3>2, <3>3
    <3>5. CASE n - 1 = 0
      <4>1. P[n] \in Nodes /\ P[0] \in Nodes
        BY <1>1
      <4>2. D[N][<<P[0], P[n]>>] \in Nat
        BY <1>2, <4>1
      <4> QED BY <1>2, <3>4, <3>5, <4>2
    <3>6. CASE n - 1 # 0
      <4>1. 0 \in 0 .. k /\ 0 < n - 1
        BY <1>1, <3>1, <3>6
      <4>2. Between(D, P[0], P[n - 1], P[n])
        BY <3>1, <4>1 DEF Tight
      <4> QED BY <3>4, <4>2 DEF Between
    <3> QED BY <3>5, <3>6
  <2> QED BY <2>1, <2>2
<1>4. 0 .. k \subseteq T
  <2> HIDE DEF T
  <2> QED BY <1>1, <1>3, InductionUpTo
<1> QED BY <1>1, <1>4

(* A tight path visits each node at most once, so it has less than N       *)
(* pieces.                                                                 *)
LEMMA TightIsShort ==
    ASSUME NEW D, Lengths(D, Inf), NEW P, NEW k, Tight(D, P, k)
    PROVE  k \in 0 .. N - 1
<1>1. k \in Nat /\ N \in Nat /\ P \in [0 .. k -> Nodes] /\ Nodes = 0 .. N - 1
  BY NodesAreLevels DEF Tight
<1>2. N # 0
  <2>1. P[0] \in Nodes
    BY <1>1
  <2> QED BY <1>1, <2>1
<1>3. IsFiniteSet(0 .. k) /\ Cardinality(0 .. k) = k + 1
  BY <1>1, FS_Interval
<1>4. IsFiniteSet(Nodes) /\ Cardinality(Nodes) = N
  BY <1>1, <1>2, FS_Interval
<1>5. ~(N < k + 1)
  <2> SUFFICES ASSUME N < k + 1 PROVE FALSE
    OBVIOUS
  <2>1. Cardinality(Nodes) < Cardinality(0 .. k)
    BY <1>3, <1>4
  <2>2. PICK i, j \in 0 .. k : i # j /\ P[i] = P[j]
    BY <1>1, <1>3, <1>4, <2>1, FS_PigeonHole
  <2> QED BY <2>2, SimplePath
<1> QED BY <1>1, <1>5

(* A path whose pieces are arcs is what PathsAreShortest asks for.         *)
LEMMA PathIsShortest == PathInv => PathsAreShortest
<1> SUFFICES ASSUME PathInv, phase = "unpacked"
             PROVE  LET at == Follow(bwParent, query[1])
                        arcs(k) == customized.metric[<<at[k], at[k + 1]>>]
                        length[k \in 0 .. N] == IF k = 0 THEN 0 ELSE length[k - 1] + Lowest(arcs(k - 1))
                    IN  \E k \in 0 .. N - 1 :
                            /\ at[k] = query[2]
                            /\ \A i \in 0 .. k - 1 : at[i] \in Nodes /\ at[i] # query[2] /\ arcs(i) # {}
                            /\ length[k] = best
  BY DEF PathsAreShortest
<1>1. PICK P, k, j : Routed(P, k, j) /\ Unpacked(customized.metric, Reference, P, k, k, bwParent)
  BY DEF PathInv, AllArcs
<1>2. Halved /\ Lengths(Reference, Inf)
  BY ReferenceFacts DEF PathInv
<1> DEFINE D == Reference
           at == Follow(bwParent, query[1])
           arcs(n) == customized.metric[<<at[n], at[n + 1]>>]
           w == [n \in 0 .. N |-> Lowest(arcs(n))]
           F(f) == [n \in 0 .. N |-> IF n = 0 THEN 0 ELSE f[n - 1] + Lowest(arcs(n - 1))]
           length == CHOOSE f : f = F(f)
<1>3. Tight(D, P, k) /\ P[0] = query[1] /\ P[k] = query[2] /\ k \in Nat
  BY <1>1 DEF Routed, Route, Tight
<1>4. k \in 0 .. N - 1 /\ k \in 0 .. N /\ N \in Nat
  BY <1>2, <1>3, TightIsShort, NAssumption
<1>5. \A n \in 0 .. k : at[n] = P[n]
  <2>1. Along(P, k, bwParent, query[1])
    BY <1>1, <1>3 DEF Unpacked, Along
  <2> QED BY <1>4, <2>1, FollowLeads
<1>6. length = F(length)
  <2>1. \E f : f = F(f)
    <3>1. PICK f : f = [n \in 0 .. N |-> IF n = 0 THEN 0 ELSE f[n - 1] + w[n - 1]]
      <4> HIDE DEF w
      <4> QED BY SumsExist
    <3>2. \A n \in 0 .. N : n # 0 => w[n - 1] = Lowest(arcs(n - 1))
      BY <1>4
    <3> HIDE DEF w, arcs
    <3>3. f = F(f)
      BY <3>1, <3>2
    <3> QED BY <3>3
  <2> HIDE DEF F
  <2> QED BY <2>1
<1>7. ASSUME NEW n \in 0 .. k - 1
      PROVE  at[n] \in Nodes /\ at[n] # query[2] /\ arcs(n) # {} /\ w[n] = D[N][<<P[n], P[n + 1]>>]
  <2>1. n \in 0 .. k /\ n + 1 \in 0 .. k /\ k \in 0 .. k /\ n # k /\ n \in 0 .. N
    BY <1>3, <1>4
  <2>2. at[n] = P[n] /\ at[n + 1] = P[n + 1]
    BY <1>5, <2>1
  <2>3. HasArc(customized.metric, D, P[n], P[n + 1])
    BY <1>1 DEF Unpacked
  <2>4. P[n] \in Nodes
    BY <1>3, <2>1 DEF Tight
  <2>5. P[n] # query[2]
    BY <1>2, <1>3, <2>1, SimplePath
  <2> HIDE DEF at, D
  <2> QED BY <2>1, <2>2, <2>3, <2>4, <2>5 DEF HasArc
<1>8. length[k] = best
  <2>1. \A n \in 0 .. N : length[n] = IF n = 0 THEN 0 ELSE length[n - 1] + w[n - 1]
    <3>1. \A n \in 0 .. N : n # 0 => w[n - 1] = Lowest(arcs(n - 1))
      BY <1>4
    <3> HIDE DEF length, w, arcs
    <3> QED BY <1>6, <3>1
  <2>2. \A n \in 0 .. k - 1 : w[n] = D[N][<<P[n], P[n + 1]>>]
    BY <1>7
  <2>3. Lengths(D, Inf)
    BY <1>2
  <2> HIDE DEF length, w, D
  <2>4. length[k] = D[N][<<P[0], P[k]>>]
    BY <1>3, <1>4, <2>1, <2>2, <2>3, LengthAdds
  <2> QED BY <1>2, <1>3, <2>4 DEF Halved, D
<1>9. at[k] = query[2]
  BY <1>3, <1>5
<1> QED BY <1>4, <1>7, <1>8, <1>9

(* Whatever was asked before, also on roads of weight 0: the path of a     *)
(* query, unpacked from the shortcuts of the last update, leads from       *)
(* origin to target over arcs of its metric in less than N steps, and      *)
(* their weights add up to the distance.                                   *)
THEOREM PathsAreExact == Spec => []PathsAreShortest
<1> QED BY InitInv, StepInv, InitAnswer, StepAnswer, InitPath, StepPath, PathIsShortest, PTL DEF Spec

-----------------------------------------------------------------------------
(* The potentials.  A walk from the target has found, behind it, the       *)
(* distance of each node or of a higher one on a shortest path, which the  *)
(* potentials of its higher neighbors then pass on.  On the way to the root*)
(* each node has its higher neighbors above it.                            *)
LEMMA NodeFacts == None \notin Nodes /\ Nodes \subseteq Nat /\ N \in Nat
BY NAssumption DEF None, Nodes

(* The parent of a node is above it, and knows its other neighbors.        *)
LEMMA ParentFacts ==
    ASSUME NEW x \in Nodes
    PROVE  /\ Graph[x] # {} => Parent[x] # None
           /\ Parent[x] # None => /\ Parent[x] \in Nodes /\ x < Parent[x]
                                  /\ \A v \in Graph[x] : v = Parent[x] \/ v \in Graph[Parent[x]]
<1>1. Graph[x] \subseteq Nodes /\ \A y \in Graph[x] : x < y
  BY GraphAssumption DEF Graphs
<1>2. CASE Graph[x] = {}
  BY <1>2 DEF Parent, EliminationTree
<1>3. CASE Graph[x] # {}
  <2> DEFINE p == Lowest(Graph[x])
  <2>1. Parent[x] = p
    BY <1>3 DEF Parent, EliminationTree
  <2>2. p \in Graph[x] /\ \A y \in Graph[x] : p <= y
    BY <1>1, <1>3, LowestIsLeast, NodesAreNat
  <2>3. \A v \in Graph[x] : v = p \/ v \in Graph[p]
    <3>1. Graph[x] \subseteq Int
      BY <1>1, NodeFacts
    <3> QED BY <2>2, <3>1, GraphAssumption DEF Chordal
  <2> HIDE DEF p
  <2> QED BY <1>1, <2>1, <2>2, <2>3, NodeFacts
<1> QED BY <1>2, <1>3

(* One round of TreePath: parents are added.                               *)
NextUp(S) == S \cup {Parent[y] : y \in {z \in S : Parent[z] # None}}

(* The rounds of TreePath from x.                                          *)
Ups(f, x) == f = [k \in 0 .. N |-> IF k = 0 THEN {x} ELSE NextUp(f[k - 1])]

LEMMA UpsExist ==
    ASSUME NEW x \in Nodes
    PROVE  \E f : Ups(f, x)
<1> DEFINE S == SUBSET Nodes
           base == {x}
           step == [p \in (1 .. N) \X S |-> NextUp(p[2])]
<1>1. N \in Nat /\ base \in S
  BY NAssumption
<1>2. ASSUME NEW d \in S PROVE NextUp(d) \in S
  BY ParentFacts DEF NextUp
<1>3. StaysIn(S, N, step)
  BY <1>2 DEF StaysIn
<1>4. PICK f \in [0 .. N -> S] : Recursive(f, N, base, step)
  <2> HIDE DEF S, step, base
  <2> QED BY <1>1, <1>3, RecursionUpTo
<1>5. ASSUME NEW k \in 1 .. N PROVE step[<<k, f[k - 1]>>] = NextUp(f[k - 1])
  <2>1. k - 1 \in 0 .. N /\ f[k - 1] \in S
    BY <1>1
  <2> QED BY <2>1
<1>6. \A k \in 0 .. N : f[k] = IF k = 0 THEN {x} ELSE NextUp(f[k - 1])
  <2>1. f[0] = {x} /\ \A k \in 1 .. N : f[k] = NextUp(f[k - 1])
    BY <1>4, <1>5 DEF Recursive
  <2>2. \A k \in 0 .. N : k # 0 => k \in 1 .. N
    BY <1>1
  <2> QED BY <2>1, <2>2
<1> QED BY <1>6 DEF Ups

(* Nothing is above S.                                                     *)
Closed(S) == \A y \in S : Parent[y] # None => Parent[y] \in S

(* The way to the root is the least set with the node and with parents.    *)
LEMMA TreePathIsLeast ==
    ASSUME NEW x \in Nodes
    PROVE  LET T == TreePath(Parent, x)
           IN  /\ T \subseteq Nodes /\ x \in T /\ Closed(T)
               /\ \A S \in SUBSET Nodes : x \in S /\ Closed(S) => T \subseteq S
<1> DEFINE F(f) == [k \in 0 .. N |-> IF k = 0 THEN {x} ELSE NextUp(f[k - 1])]
           f == CHOOSE g : g = F(g)
<1>1. TreePath(Parent, x) = f[N]
  BY DEF TreePath, NextUp
<1>2. f = F(f)
  <2>1. \E g : g = F(g)
    BY UpsExist DEF Ups
  <2> HIDE DEF F
  <2> QED BY <2>1
<1> HIDE DEF f
<1>3. f[0] = {x} /\ \A k \in 0 .. N : k # 0 => f[k] = NextUp(f[k - 1])
  <2>1. \A k \in 0 .. N : f[k] = IF k = 0 THEN {x} ELSE NextUp(f[k - 1])
    BY <1>2
  <2>2. 0 \in 0 .. N
    BY NodeFacts
  <2> QED BY <2>1, <2>2
<1>4. ASSUME NEW S \in SUBSET Nodes, x \in S, Closed(S) PROVE \A k \in 0 .. N : f[k] \subseteq S
  <2> DEFINE Z == {k \in 0 .. N : f[k] \subseteq S}
  <2>1. ASSUME NEW k \in 0 .. N, 0 .. k - 1 \subseteq Z PROVE k \in Z
    <3>1. CASE k = 0
      BY <1>3, <1>4, <3>1
    <3>2. CASE k # 0
      <4>1. k - 1 \in 0 .. k - 1
        BY <3>2
      <4>2. f[k - 1] \subseteq S
        BY <2>1, <4>1
      <4> QED BY <1>3, <1>4, <3>2, <4>2 DEF NextUp, Closed
    <3> QED BY <3>1, <3>2
  <2>2. 0 .. N \subseteq Z
    <3> HIDE DEF Z
    <3> QED BY <2>1, InductionUpTo, NodeFacts
  <2> QED BY <2>2
<1>5. Closed(Nodes)
  BY ParentFacts DEF Closed
<1>6. \A k \in 0 .. N : f[k] \subseteq Nodes
  BY <1>4, <1>5
<1>7. ASSUME NEW k \in 0 .. N, k # 0 PROVE k - 1 \in 0 .. N /\ k - 1 \in 0 .. k - 1 /\ f[k - 1] \subseteq f[k]
  <2>1. k \in Nat /\ N \in Nat
    BY NodeFacts
  <2>2. f[k] = NextUp(f[k - 1])
    BY <1>3, <1>7
  <2> QED BY <1>7, <2>1, <2>2 DEF NextUp
<1>8. \A k \in 0 .. N : x \in f[k] /\ (k # 0 => \A z \in f[k] \ f[k - 1] : k <= z)
  <2> DEFINE Z == {k \in 0 .. N : x \in f[k] /\ (k # 0 => \A z \in f[k] \ f[k - 1] : k <= z)}
  <2>1. ASSUME NEW k \in 0 .. N, 0 .. k - 1 \subseteq Z PROVE k \in Z
    <3>1. CASE k = 0
      BY <1>3, <3>1
    <3>2. CASE k # 0
      <4>1. k - 1 \in Z
        BY <1>7, <2>1, <3>2
      <4>2. ASSUME NEW z \in f[k] \ f[k - 1] PROVE k <= z
        <5>1. PICK y \in f[k - 1] : Parent[y] # None /\ z = Parent[y]
          BY <1>3, <3>2, <4>2 DEF NextUp
        <5>2. y \in Nodes /\ y \in Nat /\ z \in Nat /\ y < z
          BY <1>6, <1>7, <3>2, <5>1, ParentFacts, NodeFacts
        <5>3. CASE k = 1
          BY <5>2, <5>3
        <5>4. CASE k # 1
          <6>1. k - 1 # 0 /\ k - 1 \in 0 .. N
            BY <1>7, <3>2, <5>4
          <6>2. y \notin f[(k - 1) - 1]
            <7> SUFFICES ASSUME y \in f[(k - 1) - 1] PROVE FALSE
              OBVIOUS
            <7>1. f[k - 1] = NextUp(f[(k - 1) - 1])
              BY <1>3, <6>1
            <7> QED BY <4>2, <5>1, <7>1 DEF NextUp
          <6>3. k - 1 <= y
            BY <4>1, <5>1, <6>1, <6>2
          <6> QED BY <5>2, <6>3
        <5> QED BY <5>3, <5>4
      <4> QED BY <1>7, <3>2, <4>1, <4>2
    <3> QED BY <3>1, <3>2
  <2>2. 0 .. N \subseteq Z
    <3> HIDE DEF Z
    <3> QED BY <2>1, InductionUpTo, NodeFacts
  <2> QED BY <2>2
<1>9. N \in 0 .. N
  BY NodeFacts
<1>10. Closed(f[N])
  <2>1. N # 0
    BY DEF Nodes
  <2>2. f[N] \subseteq f[N - 1]
    BY <1>6, <1>8, <1>9, <2>1, NodeFacts DEF Nodes
  <2>3. f[N] = NextUp(f[N - 1])
    BY <1>3, <1>9, <2>1
  <2> QED BY <2>2, <2>3 DEF NextUp, Closed
<1> QED BY <1>1, <1>4, <1>6, <1>8, <1>9, <1>10

(* The way from a node: it goes up, over all its neighbors, and from each  *)
(* node of it on it is that node's.                                        *)
LEMMA TreePathFacts ==
    ASSUME NEW x \in Nodes
    PROVE  LET T == TreePath(Parent, x)
           IN  /\ T \subseteq Nodes /\ x \in T
               /\ \A y \in T : x <= y /\ TreePath(Parent, y) \subseteq T
               /\ \A y \in T : Graph[y] \subseteq T
               /\ \A y, z \in T : y <= z => z \in TreePath(Parent, y)
<1> DEFINE P(y) == TreePath(Parent, y)
           T == P(x)
<1>1. \A y \in Nodes : /\ P(y) \subseteq Nodes /\ y \in P(y) /\ Closed(P(y))
                       /\ \A S \in SUBSET Nodes : y \in S /\ Closed(S) => P(y) \subseteq S
  BY TreePathIsLeast
<1> HIDE DEF P
<1>2. ASSUME NEW y \in Nodes PROVE \A z \in P(y) : y <= z
  <2> DEFINE S == {z \in Nodes : y <= z}
  <2>1. y \in S /\ Closed(S)
    <3>1. y \in S
      BY NodeFacts
    <3>2. ASSUME NEW z \in S, Parent[z] # None PROVE Parent[z] \in S
      <4>1. z \in Nodes /\ Parent[z] \in Nodes /\ z < Parent[z] /\ y <= z
        BY <3>2, ParentFacts
      <4>2. y \in Nat /\ z \in Nat /\ Parent[z] \in Nat
        BY <4>1, NodeFacts
      <4> QED BY <4>1, <4>2
    <3> QED BY <3>1, <3>2 DEF Closed
  <2>2. S \in SUBSET Nodes
    OBVIOUS
  <2> HIDE DEF S
  <2>3. P(y) \subseteq S
    BY <1>1, <2>1, <2>2
  <2> QED BY <2>3 DEF S
<1>3. ASSUME NEW y \in Nodes, NEW z \in P(y) PROVE P(z) \subseteq P(y)
  BY <1>1, <1>3
<1>4. ASSUME NEW y \in Nodes, Parent[y] # None PROVE P(y) \subseteq {y} \cup P(Parent[y])
  <2> DEFINE S == {y} \cup P(Parent[y])
  <2>1. Parent[y] \in Nodes
    BY <1>4, ParentFacts
  <2>2. S \in SUBSET Nodes /\ y \in S
    BY <1>1, <2>1
  <2>3. Closed(S)
    BY <1>1, <2>1 DEF Closed
  <2> HIDE DEF S
  <2>4. P(y) \subseteq S
    BY <1>1, <2>2, <2>3
  <2> QED BY <2>4 DEF S
<1>5. ASSUME NEW y \in Nodes, NEW v \in Graph[y] PROVE v \in P(y)
  <2> SUFFICES ASSUME v \notin P(y) PROVE FALSE
    OBVIOUS
  <2> DEFINE S == {n \in Nat : \E z \in P(y) : v \in Graph[z] /\ n = N - z}
  <2>1. N - y \in S
    BY <1>1, NodeFacts DEF Nodes
  <2>2. PICK n \in S : \A k \in S : n <= k
    <3>1. S \in SUBSET Nat /\ S # {}
      BY <2>1
    <3> HIDE DEF S
    <3> QED BY <3>1, LeastElement
  <2>3. PICK z \in P(y) : v \in Graph[z] /\ n = N - z
    BY <2>2
  <2>4. z \in Nodes /\ Parent[z] # None /\ Parent[z] \in P(y) /\ Parent[z] \in Nodes /\ z < Parent[z] /\ v \in Graph[Parent[z]]
    BY <1>1, <2>3, ParentFacts DEF Closed
  <2>5. N - Parent[z] \in S
    BY <2>4, NodeFacts DEF Nodes
  <2>6. N - z <= N - Parent[z]
    BY <2>2, <2>3, <2>5
  <2>7. z \in Nat /\ Parent[z] \in Nat /\ N \in Nat
    BY <2>4, NodeFacts
  <2> QED BY <2>4, <2>6, <2>7
<1>6. \A z \in T : \A w \in T : (w <= z => z \in P(w)) /\ (z <= w => w \in P(z))
  <2> DEFINE S == {z \in T : \A w \in T : (w <= z => z \in P(w)) /\ (z <= w => w \in P(z))}
  <2>1. T \subseteq Nodes /\ x \in T /\ Closed(T)
    BY <1>1
  <2>2. x \in S
    <3>1. ASSUME NEW w \in T, w <= x PROVE x = w
      <4>1. x <= w /\ x \in Nat /\ w \in Nat
        BY <1>2, <2>1, NodeFacts
      <4> QED BY <3>1, <4>1
    <3> QED BY <2>1, <3>1
  <2>3. ASSUME NEW z \in S, Parent[z] # None PROVE Parent[z] \in S
    <3> DEFINE p == Parent[z]
    <3>1. z \in T /\ z \in Nodes /\ p \in T /\ p \in Nodes /\ z < p
      BY <2>1, <2>3, ParentFacts DEF Closed
    <3>2. ASSUME NEW w \in T PROVE (w <= p => p \in P(w)) /\ (p <= w => w \in P(p))
      <4>1. w \in Nodes /\ w \in Nat /\ z \in Nat /\ p \in Nat
        BY <2>1, <3>1, NodeFacts
      <4>2. CASE w <= z
        <5>1. z \in P(w)
          BY <2>3, <4>2
        <5>2. p \in P(w)
          BY <1>1, <2>3, <4>1, <5>1 DEF Closed
        <5> QED BY <3>1, <4>1, <4>2, <5>2
      <4>3. CASE z < w
        <5>1. w \in P(z)
          BY <2>3, <4>1, <4>3
        <5>2. w \in P(p) /\ p <= w
          BY <1>2, <1>4, <2>3, <3>1, <4>1, <4>3, <5>1
        <5>3. w <= p => w = p
          BY <4>1, <5>2
        <5> QED BY <1>1, <3>1, <5>2, <5>3
      <4> QED BY <4>1, <4>2, <4>3
    <3> QED BY <3>1, <3>2
  <2>4. S \in SUBSET Nodes /\ Closed(S)
    BY <2>1, <2>3 DEF Closed
  <2> HIDE DEF S
  <2>5. T \subseteq S
    BY <1>1, <2>2, <2>4
  <2> QED BY <2>5 DEF S
<1>7. T \subseteq Nodes /\ x \in T
  BY <1>1
<1>8. \A y \in T : x <= y /\ P(y) \subseteq T
  BY <1>2, <1>3
<1>9. \A y \in T : Graph[y] \subseteq T
  BY <1>5, <1>7, <1>8
<1> QED BY <1>6, <1>7, <1>8, <1>9 DEF P

-----------------------------------------------------------------------------
(* What Ascending chooses.                                                 *)
Sorted(S, n, list) == list \in [1 .. n -> S] /\ \A i, j \in 1 .. n : i < j => list[i] < list[j]

LEMMA NodeSets ==
    ASSUME NEW S \in SUBSET Nodes
    PROVE  IsFiniteSet(S) /\ Cardinality(S) \in 0 .. N
<1>1. N \in Nat /\ IsFiniteSet(Nodes) /\ Cardinality(Nodes) = N
  <2>1. IsFiniteSet(0 .. N - 1) /\ Cardinality(0 .. N - 1) = IF 0 > N - 1 THEN 0 ELSE (N - 1) - 0 + 1
    BY NodeFacts, FS_Interval
  <2> QED BY <2>1, NodeFacts DEF Nodes
<1> QED BY <1>1, FS_Subset, FS_CardinalityType

LEMMA SortedExists ==
    ASSUME NEW S \in SUBSET Nodes
    PROVE  \E list : Sorted(S, Cardinality(S), list)
<1> DEFINE Good(n) == \A R \in SUBSET Nodes : Cardinality(R) = n => \E list : Sorted(R, n, list)
           Z == {n \in 0 .. N : Good(n)}
<1>1. ASSUME NEW n \in 0 .. N, 0 .. n - 1 \subseteq Z PROVE Good(n)
  <2> SUFFICES ASSUME NEW R \in SUBSET Nodes, Cardinality(R) = n PROVE \E list : Sorted(R, n, list)
    OBVIOUS
  <2>1. CASE n = 0
    <3>1. R = {}
      BY <2>1, NodeSets, FS_EmptySet
    <3>2. Sorted(R, 0, [i \in 1 .. 0 |-> 0])
      BY <3>1 DEF Sorted
    <3> QED BY <2>1, <3>2
  <2>2. CASE n # 0
    <3>1. R # {} /\ R \subseteq Nat
      BY <2>2, NodeSets, FS_EmptySet, NodeFacts
    <3>2. PICK x \in R : \A y \in R : y <= x
      <4> DEFINE K == {m \in Nat : \E y \in R : m = N - y}
      <4>1. K \in SUBSET Nat /\ K # {}
        <5>1. PICK y \in R : TRUE
          BY <3>1
        <5>2. N - y \in K
          BY NodeFacts DEF Nodes
        <5> QED BY <5>2
      <4>2. PICK m \in K : \A j \in K : m <= j
        <5> HIDE DEF K
        <5> QED BY <4>1, LeastElement
      <4>3. PICK x \in R : m = N - x
        BY <4>2
      <4>4. ASSUME NEW y \in R PROVE y <= x
        <5>1. N - y \in K /\ x \in Nat /\ y \in Nat /\ N \in Nat
          BY NodeFacts DEF Nodes
        <5>2. N - x <= N - y
          <6> HIDE DEF K
          <6> QED BY <4>2, <4>3, <5>1
        <5> QED BY <5>1, <5>2
      <4> QED BY <4>4
    <3> DEFINE U == R \ {x}
    <3>3. U \in SUBSET Nodes /\ Cardinality(U) = n - 1 /\ n - 1 \in 0 .. n - 1
      BY <2>2, NodeSets, FS_RemoveElement
    <3>4. n - 1 \in Z
      BY <1>1, <3>3
    <3>5. PICK less : Sorted(U, n - 1, less)
      <4> HIDE DEF U
      <4> QED BY <3>3, <3>4
    <3> DEFINE list == [i \in 1 .. n |-> IF i = n THEN x ELSE less[i]]
    <3>6. \A i \in 1 .. n : i # n => i \in 1 .. n - 1
      OBVIOUS
    <3>7. less \in [1 .. n - 1 -> U] /\ \A i, j \in 1 .. n - 1 : i < j => less[i] < less[j]
      BY <3>5 DEF Sorted
    <3>8. list \in [1 .. n -> R]
      BY <3>6, <3>7
    <3>9. ASSUME NEW i \in 1 .. n, NEW j \in 1 .. n, i < j PROVE list[i] < list[j]
      <4>1. i # n /\ i \in 1 .. n - 1 /\ list[i] = less[i] /\ less[i] \in R /\ less[i] # x
        BY <3>6, <3>7, <3>9
      <4>2. CASE j = n
        <5>1. list[j] = x /\ less[i] \in Nat /\ x \in Nat /\ less[i] <= x
          BY <3>1, <3>2, <4>1, <4>2
        <5> QED BY <4>1, <5>1
      <4>3. CASE j # n
        BY <3>6, <3>7, <3>9, <4>1, <4>3
      <4> QED BY <4>2, <4>3
    <3> HIDE DEF list
    <3> QED BY <3>8, <3>9 DEF Sorted
  <2> QED BY <2>1, <2>2
<1>2. 0 .. N \subseteq Z
  <2>1. ASSUME NEW n \in 0 .. N, 0 .. n - 1 \subseteq Z PROVE n \in Z
    BY <1>1, <2>1
  <2> HIDE DEF Z
  <2> QED BY <2>1, InductionUpTo, NodeFacts
<1>3. Good(Cardinality(S))
  BY <1>2, NodeSets
<1> QED BY <1>3

(* All nodes of a set, in ascending order.                                 *)
LEMMA AscendingFacts ==
    ASSUME NEW S \in SUBSET Nodes
    PROVE  /\ Ascending(S) \in Seq(S)
           /\ \A x \in S : \E i \in 1 .. Len(Ascending(S)) : Ascending(S)[i] = x
           /\ \A i, j \in 1 .. Len(Ascending(S)) : i < j => Ascending(S)[i] < Ascending(S)[j]
<1> DEFINE n == Cardinality(S)
           list == Ascending(S)
<1>1. n \in Nat /\ IsFiniteSet(S)
  BY NodeSets
<1>2. list \in [1 .. n -> S] /\ \A i, j \in 1 .. n : i < j => list[i] < list[j]
  BY SortedExists DEF Sorted, Ascending
<1> HIDE DEF list
<1>3. ASSUME NEW x \in S, \A i \in 1 .. n : list[i] # x PROVE FALSE
  <2>1. list \in [1 .. n -> S \ {x}]
    BY <1>2, <1>3
  <2>2. IsFiniteSet(S \ {x}) /\ Cardinality(S \ {x}) = n - 1
    BY <1>1, FS_RemoveElement
  <2>3. IsFiniteSet(1 .. n) /\ Cardinality(1 .. n) = n
    <3>1. IsFiniteSet(1 .. n) /\ Cardinality(1 .. n) = IF 1 > n THEN 0 ELSE n - 1 + 1
      BY <1>1, FS_Interval
    <3> QED BY <1>1, <3>1
  <2>4. \E i, j \in 1 .. n : i # j /\ list[i] = list[j]
    <3> DEFINE U == 1 .. n
               R == S \ {x}
    <3>1. Cardinality(R) < Cardinality(U) /\ IsFiniteSet(U) /\ IsFiniteSet(R) /\ list \in [U -> R]
      BY <1>1, <2>1, <2>2, <2>3
    <3>2. \E i, j \in U : i # j /\ list[i] = list[j]
      <4> HIDE DEF U, R
      <4> QED BY <3>1, FS_PigeonHole
    <3> QED BY <3>2
  <2>5. PICK i, j \in 1 .. n : i # j /\ list[i] = list[j]
    BY <2>4
  <2>6. list[i] \in Nat /\ (i < j \/ j < i)
    <3>1. list[i] \in S /\ i \in Nat /\ j \in Nat
      <4> HIDE DEF n
      <4> QED BY <1>1, <1>2, <2>5
    <3>2. list[i] \in Nat
      BY <3>1, NodeFacts
    <3>3. i < j \/ j < i
      <4> HIDE DEF n
      <4> QED BY <2>5, <3>1
    <3> QED BY <3>2, <3>3
  <2>7. list[i] < list[j] \/ list[j] < list[i]
    <3> HIDE DEF n
    <3> QED BY <1>2, <2>5, <2>6
  <2> QED BY <2>5, <2>6, <2>7
<1>4. list \in Seq(S) /\ Len(list) = n
  BY <1>1, <1>2
<1> QED BY <1>2, <1>3, <1>4 DEF list

-----------------------------------------------------------------------------
(* A walk from t that has passed the nodes lower than k.                   *)

(* The parent of a node that was found.                                    *)
LedFrom(weight, edges, t, dist, leads) ==
    /\ dist[t] = 0 /\ leads[t] = t
    /\ \A v \in Nodes \ {t} : dist[v] < Inf =>
           /\ leads[v] \in Nodes /\ <<leads[v], v>> \in edges
           /\ dist[leads[v]] + weight[<<leads[v], v>>] <= dist[v]

(* A shortest path from t to b is found, or goes on at a node that is not  *)
(* passed or above b.                                                      *)
Leaves(d, t, dist, k, b) ==
    \/ dist[b] <= d[<<t, b>>]
    \/ \E v \in Nodes : (k <= v \/ b < v) /\ dist[v] + d[<<v, b>>] <= d[<<t, b>>]

(* What the walk has found then: no distance is too short, all were found  *)
(* over edges, and no shortest path is lost.                               *)
Passed(d, weight, edges, t, k, dist, leads) ==
    /\ dist \in [Nodes -> Weight] /\ leads \in [Nodes -> Nodes \cup {N}]
    /\ \A v \in Nodes : d[<<t, v>>] <= dist[v]
    /\ \A v \in Nodes : dist[v] < Inf => v \in TreePath(Parent, t)
    /\ LedFrom(weight, edges, t, dist, leads)
    /\ \A b \in Nodes : d[<<t, b>>] < Inf => Leaves(d, t, dist, k, b)

(* What an exact customization offers: lengths of shortest paths, and for  *)
(* each of them that goes up an edge to begin with.                        *)
LEMMA ExactFacts ==
    ASSUME NEW d, NEW weight, NEW edges, Exact(d, weight, edges)
    PROVE  /\ \A a, b \in Nodes : d[<<a, b>>] \in Nat /\ d[<<a, b>>] <= Inf
           /\ \A a \in Nodes : d[<<a, a>>] = 0
           /\ \A a, b, c \in Nodes : d[<<a, c>>] <= d[<<a, b>>] + d[<<b, c>>]
           /\ \A a, b \in Nodes : <<a, b>> \in edges =>
                  /\ b \in Graph[a] /\ a < b /\ weight[<<a, b>>] \in Nat
                  /\ d[<<a, b>>] <= weight[<<a, b>>] /\ weight[<<a, b>>] <= Inf
           /\ \A x, b \in Nodes : x < b /\ d[<<x, b>>] < Inf =>
                  \E y \in Nodes : <<x, y>> \in edges /\ weight[<<x, y>>] + d[<<y, b>>] <= d[<<x, b>>]
<1>1. d \in [Nodes \X Nodes -> Weight]
  BY DEF Exact
<1>2. ASSUME NEW a \in Nodes, NEW b \in Nodes PROVE d[<<a, b>>] \in Nat /\ d[<<a, b>>] <= Inf
  <2>1. d[<<a, b>>] \in Weight
    BY <1>1
  <2> QED BY <2>1, InfAssumption DEF Weight
<1>3. \A x \in Nodes : Graph[x] \subseteq Nodes /\ \A y \in Graph[x] : x < y
  BY GraphAssumption DEF Graphs
<1>4. ASSUME NEW a \in Nodes, NEW b \in Nodes, <<a, b>> \in edges
      PROVE  /\ b \in Graph[a] /\ a < b /\ weight[<<a, b>>] \in Nat
             /\ d[<<a, b>>] <= weight[<<a, b>>] /\ weight[<<a, b>>] <= Inf
  <2>1. <<a, b>> \in Edges
    BY <1>4 DEF Exact
  <2>2. b \in Graph[a]
    BY <2>1 DEF Edges
  <2>3. weight[<<a, b>>] \in Nat /\ d[<<a, b>>] <= weight[<<a, b>>] /\ weight[<<a, b>>] <= Inf
    BY <2>1 DEF Exact
  <2> QED BY <1>3, <2>2, <2>3
<1>5. ASSUME NEW x \in Nodes, NEW b \in Nodes, x < b, d[<<x, b>>] < Inf
      PROVE  \E y \in Nodes : <<x, y>> \in edges /\ weight[<<x, y>>] + d[<<y, b>>] <= d[<<x, b>>]
  <2>1. \E y \in Graph[x] : <<x, y>> \in edges /\ weight[<<x, y>>] + d[<<y, b>>] <= d[<<x, b>>]
    BY <1>5 DEF Exact
  <2> QED BY <1>3, <2>1
<1> QED BY <1>2, <1>4, <1>5 DEF Exact

LEMMA WalkStarts ==
    ASSUME NEW d, NEW weight, NEW edges, Exact(d, weight, edges), NEW t \in Nodes,
           NEW leads \in [Nodes -> Nodes \cup {N}], NEW dist, dist = [v \in Nodes |-> IF v = t THEN 0 ELSE Inf]
    PROVE  Passed(d, weight, edges, t, 0, dist, [leads EXCEPT ![t] = t])
<1> DEFINE p == [leads EXCEPT ![t] = t]
<1>1. p \in [Nodes -> Nodes \cup {N}] /\ p[t] = t
  OBVIOUS
<1> HIDE DEF p
<1>2. dist[t] = 0 /\ \A v \in Nodes : v # t => dist[v] = Inf
  OBVIOUS
<1>3. dist \in [Nodes -> Weight]
  BY InfAssumption DEF Weight
<1>4. \A v \in Nodes : d[<<t, v>>] <= dist[v]
  BY <1>2, ExactFacts
<1>5. \A v \in Nodes : dist[v] < Inf => v \in TreePath(Parent, t)
  BY <1>2, TreePathFacts, InfAssumption
<1>6. LedFrom(weight, edges, t, dist, p)
  BY <1>1, <1>2, InfAssumption DEF LedFrom
<1>7. ASSUME NEW b \in Nodes PROVE Leaves(d, t, dist, 0, b)
  <2>1. 0 <= t /\ dist[t] + d[<<t, b>>] <= d[<<t, b>>]
    BY <1>2, ExactFacts, NodeFacts
  <2> QED BY <2>1 DEF Leaves
<1> QED BY <1>1, <1>3, <1>4, <1>5, <1>6, <1>7 DEF Passed, p

(* A node improves its higher neighbors only.                              *)
LEMMA RelaxedFacts ==
    ASSUME NEW d, NEW weight, NEW edges, Exact(d, weight, edges), NEW dist \in [Nodes -> Weight], NEW x \in Nodes
    PROVE  LET next == Relaxed(dist, weight, edges, x)
           IN  /\ next \in [Nodes -> Weight]
               /\ \A v \in Nodes : /\ next[v] \in Nat /\ dist[v] \in Nat /\ next[v] <= dist[v] /\ dist[v] <= Inf
                                   /\ next[v] # dist[v] =>
                                          <<x, v>> \in edges /\ next[v] = dist[x] + weight[<<x, v>>]
                                   /\ <<x, v>> \in edges => next[v] <= dist[x] + weight[<<x, v>>]
<1> DEFINE next == Relaxed(dist, weight, edges, x)
<1>1. \A v \in Nodes : next[v] = IF <<x, v>> \in edges /\ dist[x] + weight[<<x, v>>] < dist[v]
                                 THEN dist[x] + weight[<<x, v>>] ELSE dist[v]
  BY DEF Relaxed
<1>2. next = [v \in Nodes |-> next[v]]
  BY DEF Relaxed
<1> HIDE DEF next
<1>3. \A v \in Nodes : dist[v] \in Nat /\ dist[v] <= Inf
  <2>1. \A v \in Nodes : dist[v] \in 0 .. Inf
    BY DEF Weight
  <2> QED BY <2>1, InfAssumption
<1>4. ASSUME NEW v \in Nodes
      PROVE  /\ next[v] \in Nat /\ next[v] <= dist[v]
             /\ next[v] # dist[v] => <<x, v>> \in edges /\ next[v] = dist[x] + weight[<<x, v>>]
             /\ <<x, v>> \in edges => next[v] <= dist[x] + weight[<<x, v>>]
  <2>1. dist[v] \in Nat /\ dist[x] \in Nat
    BY <1>3
  <2>2. CASE <<x, v>> \in edges
    <3>1. weight[<<x, v>>] \in Nat
      BY <2>2, ExactFacts
    <3> QED BY <1>1, <2>1, <2>2, <3>1
  <2>3. CASE <<x, v>> \notin edges
    BY <1>1, <2>1, <2>3
  <2> QED BY <2>2, <2>3
<1>5. ASSUME NEW v \in Nodes PROVE next[v] \in Weight
  <2>1. next[v] \in Nat /\ next[v] <= dist[v] /\ dist[v] \in Nat /\ dist[v] <= Inf
    BY <1>3, <1>4
  <2> QED BY <2>1, InfAssumption DEF Weight
<1> QED BY <1>2, <1>3, <1>4, <1>5 DEF next

(* One round: what is lost at k goes on at one of its neighbors.           *)
LEMMA WalkSettles ==
    ASSUME NEW d, NEW weight, NEW edges, Exact(d, weight, edges), NEW t \in Nodes, NEW k \in Nodes,
           NEW dist, NEW leads, Passed(d, weight, edges, t, k, dist, leads),
           k \in TreePath(Parent, t)
    PROVE  LET next == Relaxed(dist, weight, edges, k)
           IN  Passed(d, weight, edges, t, k + 1, next, Parents(leads, dist, next, k))
<1> DEFINE next == Relaxed(dist, weight, edges, k)
           p == Parents(leads, dist, next, k)
           T == TreePath(Parent, t)
<1>1. dist \in [Nodes -> Weight] /\ leads \in [Nodes -> Nodes \cup {N}]
  BY DEF Passed
<1>2. /\ next \in [Nodes -> Weight]
      /\ \A v \in Nodes : /\ next[v] \in Nat /\ dist[v] \in Nat /\ next[v] <= dist[v] /\ dist[v] <= Inf
                          /\ next[v] # dist[v] => <<k, v>> \in edges /\ next[v] = dist[k] + weight[<<k, v>>]
                          /\ <<k, v>> \in edges => next[v] <= dist[k] + weight[<<k, v>>]
  BY <1>1, RelaxedFacts
<1> HIDE DEF next
<1>3. p \in [Nodes -> Nodes \cup {N}] /\ \A v \in Nodes : p[v] = IF next[v] < dist[v] THEN k ELSE leads[v]
  BY <1>1 DEF Parents
<1> HIDE DEF p
<1>4. ASSUME NEW v \in Nodes PROVE d[<<t, v>>] <= next[v]
  <2>1. d[<<t, v>>] <= dist[v] /\ d[<<t, k>>] <= dist[k]
    BY DEF Passed
  <2>2. CASE next[v] = dist[v]
    BY <2>1, <2>2
  <2>3. CASE next[v] # dist[v]
    <3>1. <<k, v>> \in edges /\ next[v] = dist[k] + weight[<<k, v>>]
      BY <1>2, <2>3
    <3>2. d[<<t, v>>] <= d[<<t, k>>] + d[<<k, v>>] /\ d[<<k, v>>] <= weight[<<k, v>>] /\ weight[<<k, v>>] \in Nat
      BY <3>1, ExactFacts
    <3>3. d[<<t, v>>] \in Nat /\ d[<<t, k>>] \in Nat /\ d[<<k, v>>] \in Nat /\ dist[k] \in Nat
      BY <1>2, ExactFacts
    <3> QED BY <2>1, <3>1, <3>2, <3>3
  <2> QED BY <2>2, <2>3
<1>5. ASSUME NEW v \in Nodes, next[v] < Inf PROVE v \in T
  <2>1. CASE next[v] = dist[v]
    BY <1>5, <2>1 DEF Passed
  <2>2. CASE next[v] # dist[v]
    <3>1. v \in Graph[k]
      BY <1>2, <2>2, ExactFacts
    <3> QED BY <3>1, TreePathFacts
  <2> QED BY <2>1, <2>2
<1>6. LedFrom(weight, edges, t, next, p)
  <2>1. dist[t] = 0 /\ leads[t] = t
    BY DEF Passed, LedFrom
  <2>2. next[t] = 0 /\ ~(next[t] < dist[t])
    <3>1. next[t] \in Nat /\ next[t] <= dist[t]
      BY <1>2
    <3> QED BY <2>1, <3>1
  <2>3. ASSUME NEW v \in Nodes \ {t}, next[v] < Inf
        PROVE  p[v] \in Nodes /\ <<p[v], v>> \in edges /\ next[p[v]] + weight[<<p[v], v>>] <= next[v]
    <3>0. next[v] \in Nat /\ dist[v] \in Nat /\ next[v] <= dist[v]
      BY <1>2
    <3>1. CASE next[v] < dist[v]
      <4>1. p[v] = k /\ <<k, v>> \in edges /\ next[v] = dist[k] + weight[<<k, v>>] /\ weight[<<k, v>>] \in Nat
        <5>1. next[v] # dist[v]
          BY <3>0, <3>1
        <5> QED BY <1>2, <1>3, <3>1, <5>1, ExactFacts
      <4>2. next[k] \in Nat /\ dist[k] \in Nat /\ next[k] <= dist[k]
        BY <1>2
      <4>3. next[k] + weight[<<k, v>>] <= next[v]
        BY <4>1, <4>2
      <4> QED BY <4>1, <4>3
    <3>2. CASE ~(next[v] < dist[v])
      <4>1. next[v] = dist[v] /\ p[v] = leads[v]
        <5>1. next[v] = dist[v]
          BY <3>0, <3>2
        <5> QED BY <1>3, <3>2, <5>1
      <4>2. leads[v] \in Nodes /\ <<leads[v], v>> \in edges /\ dist[leads[v]] + weight[<<leads[v], v>>] <= dist[v]
        BY <2>3, <4>1 DEF Passed, LedFrom
      <4>3. weight[<<leads[v], v>>] \in Nat /\ next[leads[v]] <= dist[leads[v]]
            /\ next[leads[v]] \in Nat /\ dist[leads[v]] \in Nat /\ dist[v] \in Nat
        BY <1>2, <4>2, ExactFacts
      <4> QED BY <4>1, <4>2, <4>3
    <3> QED BY <3>1, <3>2
  <2> QED BY <1>3, <2>1, <2>2, <2>3 DEF LedFrom
<1>7. ASSUME NEW b \in Nodes, d[<<t, b>>] < Inf PROVE Leaves(d, t, next, k + 1, b)
  <2>1. Leaves(d, t, dist, k, b)
    BY <1>7 DEF Passed
  <2>2. next[b] <= dist[b] /\ next[b] \in Nat /\ dist[b] \in Nat /\ d[<<t, b>>] \in Nat
    BY <1>2, ExactFacts
  <2>3. CASE dist[b] <= d[<<t, b>>]
    <3>1. next[b] <= d[<<t, b>>]
      BY <2>2, <2>3
    <3> QED BY <3>1 DEF Leaves
  <2>4. ASSUME NEW v \in Nodes, k <= v \/ b < v, dist[v] + d[<<v, b>>] <= d[<<t, b>>]
        PROVE  Leaves(d, t, next, k + 1, b)
    <3>1. /\ next[v] <= dist[v] /\ next[v] \in Nat /\ dist[v] \in Nat /\ d[<<v, b>>] \in Nat
          /\ k \in Nat /\ v \in Nat /\ b \in Nat
      BY <1>2, ExactFacts, NodeFacts
    <3>2. CASE k + 1 <= v \/ b < v
      BY <2>2, <2>4, <3>1, <3>2 DEF Leaves
    <3>3. CASE v = k /\ b = k
      <4>1. d[<<v, b>>] = 0
        BY <3>3, ExactFacts
      <4> QED BY <2>2, <2>4, <3>1, <3>3, <4>1 DEF Leaves
    <3>4. CASE v = k /\ k < b
      <4>1. d[<<k, b>>] < Inf
        BY <1>7, <2>2, <2>4, <3>1, <3>4, InfAssumption
      <4>2. PICK y \in Nodes : <<k, y>> \in edges /\ weight[<<k, y>>] + d[<<y, b>>] <= d[<<k, b>>]
        BY <3>4, <4>1, ExactFacts
      <4>3. /\ k < y /\ weight[<<k, y>>] \in Nat /\ d[<<y, b>>] \in Nat /\ y \in Nat
            /\ next[y] <= dist[k] + weight[<<k, y>>] /\ next[y] \in Nat
        BY <1>2, <4>2, ExactFacts, NodeFacts
      <4>4. k + 1 <= y /\ next[y] + d[<<y, b>>] <= d[<<t, b>>]
        BY <2>2, <2>4, <3>1, <3>4, <4>2, <4>3
      <4> QED BY <4>4 DEF Leaves
    <3> QED BY <2>4, <3>1, <3>2, <3>3, <3>4
  <2> QED BY <2>1, <2>3, <2>4 DEF Leaves
<1> QED BY <1>2, <1>3, <1>4, <1>5, <1>6, <1>7 DEF Passed, p, next

(* A node that is not on the way to the root was not found.                *)
LEMMA WalkSkips ==
    ASSUME NEW d, NEW weight, NEW edges, Exact(d, weight, edges), NEW t \in Nodes, NEW k \in Nodes,
           NEW dist, NEW leads, Passed(d, weight, edges, t, k, dist, leads),
           k \notin TreePath(Parent, t)
    PROVE  Passed(d, weight, edges, t, k + 1, dist, leads)
<1>1. \A v \in Nodes : dist[v] \in Nat /\ dist[v] <= Inf
  <2>1. \A v \in Nodes : dist[v] \in 0 .. Inf
    BY DEF Passed, Weight
  <2> QED BY <2>1, InfAssumption
<1>2. dist[k] = Inf
  BY <1>1, InfAssumption DEF Passed
<1>3. ASSUME NEW b \in Nodes, d[<<t, b>>] < Inf PROVE Leaves(d, t, dist, k + 1, b)
  <2>1. Leaves(d, t, dist, k, b)
    BY <1>3 DEF Passed
  <2>2. ASSUME NEW v \in Nodes, k <= v \/ b < v, dist[v] + d[<<v, b>>] <= d[<<t, b>>]
        PROVE  k + 1 <= v \/ b < v
    <3>1. dist[v] \in Nat /\ d[<<v, b>>] \in Nat /\ d[<<t, b>>] \in Nat /\ k \in Nat /\ v \in Nat
      BY <1>1, ExactFacts, NodeFacts
    <3>2. v # k
      BY <1>2, <1>3, <2>2, <3>1, InfAssumption
    <3> QED BY <2>2, <3>1, <3>2
  <2> QED BY <2>1, <2>2 DEF Leaves
<1> QED BY <1>3 DEF Passed

(* One round of Walked.                                                    *)
WalkOn(weight, edges, path, k, before) ==
    LET dist == Relaxed(before.dist, weight, edges, k)
    IN  IF k \in path THEN [dist |-> dist, parents |-> Parents(before.parents, before.dist, dist, k)] ELSE before

(* All rounds.                                                             *)
SearchSteps(f, weight, edges, t, leads) ==
    f = [k \in 0 .. N |->
            IF k = 0
            THEN [dist |-> [v \in Nodes |-> IF v = t THEN 0 ELSE Inf], parents |-> [leads EXCEPT ![t] = t]]
            ELSE WalkOn(weight, edges, TreePath(Parent, t), k - 1, f[k - 1])]

LEMMA WalkExists ==
    ASSUME NEW d, NEW weight, NEW edges, Exact(d, weight, edges), NEW t \in Nodes,
           NEW leads \in [Nodes -> Nodes \cup {N}]
    PROVE  \E f : SearchSteps(f, weight, edges, t, leads)
<1> DEFINE S == [dist : [Nodes -> Weight], parents : [Nodes -> Nodes \cup {N}]]
           T == TreePath(Parent, t)
           base == [dist |-> [v \in Nodes |-> IF v = t THEN 0 ELSE Inf], parents |-> [leads EXCEPT ![t] = t]]
           step == [p \in (1 .. N) \X S |-> WalkOn(weight, edges, T, p[1] - 1, p[2])]
<1>1. N \in Nat /\ base \in S
  BY NodeFacts, InfAssumption DEF Weight
<1>2. ASSUME NEW k \in 1 .. N, NEW s \in S PROVE WalkOn(weight, edges, T, k - 1, s) \in S
  <2>1. k - 1 \in Nodes
    BY NodeFacts DEF Nodes
  <2>2. Relaxed(s.dist, weight, edges, k - 1) \in [Nodes -> Weight]
    BY <2>1, RelaxedFacts
  <2>3. Parents(s.parents, s.dist, Relaxed(s.dist, weight, edges, k - 1), k - 1) \in [Nodes -> Nodes \cup {N}]
    BY <2>1 DEF Parents
  <2> QED BY <2>2, <2>3 DEF WalkOn
<1>3. StaysIn(S, N, step)
  <2> HIDE DEF T
  <2> QED BY <1>2 DEF StaysIn
<1>4. PICK f \in [0 .. N -> S] : Recursive(f, N, base, step)
  <2> HIDE DEF S, step, base
  <2> QED BY <1>1, <1>3, RecursionUpTo
<1>5. ASSUME NEW k \in 1 .. N PROVE step[<<k, f[k - 1]>>] = WalkOn(weight, edges, T, k - 1, f[k - 1])
  <2>1. k - 1 \in 0 .. N /\ f[k - 1] \in S
    BY <1>1
  <2> HIDE DEF T, S
  <2> QED BY <2>1
<1>6. \A k \in 0 .. N : f[k] = IF k = 0 THEN base ELSE WalkOn(weight, edges, T, k - 1, f[k - 1])
  <2> HIDE DEF base, T, step
  <2>1. f[0] = base /\ \A k \in 1 .. N : f[k] = WalkOn(weight, edges, T, k - 1, f[k - 1])
    BY <1>4, <1>5 DEF Recursive
  <2>2. \A k \in 0 .. N : k # 0 => k \in 1 .. N
    BY <1>1
  <2> QED BY <2>1, <2>2
<1> QED BY <1>6 DEF SearchSteps

(* The walk has passed all nodes.                                          *)
LEMMA WalkedHasPassed ==
    ASSUME NEW d, NEW weight, NEW edges, Exact(d, weight, edges), NEW t \in Nodes,
           NEW leads \in [Nodes -> Nodes \cup {N}]
    PROVE  Passed(d, weight, edges, t, N, Walked(weight, edges, t, leads).dist, Walked(weight, edges, t, leads).parents)
<1> DEFINE T == TreePath(Parent, t)
           base == [dist |-> [v \in Nodes |-> IF v = t THEN 0 ELSE Inf], parents |-> [leads EXCEPT ![t] = t]]
           F(f) == [k \in 0 .. N |-> IF k = 0 THEN base ELSE WalkOn(weight, edges, T, k - 1, f[k - 1])]
           f == CHOOSE g : g = F(g)
<1>1. Walked(weight, edges, t, leads) = f[N]
  BY DEF Walked, WalkOn
<1>2. f = F(f)
  <2>1. \E g : g = F(g)
    BY WalkExists DEF SearchSteps
  <2> HIDE DEF F
  <2> QED BY <2>1
<1> HIDE DEF f
<1>3. f[0] = base /\ \A k \in 0 .. N : k # 0 => f[k] = WalkOn(weight, edges, T, k - 1, f[k - 1])
  <2> HIDE DEF base, T
  <2>1. \A k \in 0 .. N : f[k] = IF k = 0 THEN base ELSE WalkOn(weight, edges, T, k - 1, f[k - 1])
    BY <1>2
  <2>2. 0 \in 0 .. N
    BY NodeFacts
  <2> QED BY <2>1, <2>2
<1> DEFINE Good(k) == Passed(d, weight, edges, t, k, f[k].dist, f[k].parents)
           Z == {k \in 0 .. N : Good(k)}
<1>4. Good(0)
  <2> DEFINE dist == [v \in Nodes |-> IF v = t THEN 0 ELSE Inf]
             first == [leads EXCEPT ![t] = t]
  <2>1. f[0].dist = dist /\ f[0].parents = first
    BY <1>3
  <2>2. Passed(d, weight, edges, t, 0, dist, first)
    BY WalkStarts
  <2> HIDE DEF dist, first
  <2> QED BY <2>1, <2>2
<1>5. ASSUME NEW k \in Nodes, Good(k) PROVE Good(k + 1)
  <2>1. k + 1 \in 0 .. N /\ k + 1 # 0 /\ (k + 1) - 1 = k
    BY NodeFacts DEF Nodes
  <2>2. f[k + 1] = WalkOn(weight, edges, T, k, f[k])
    BY <1>3, <2>1
  <2> DEFINE next == Relaxed(f[k].dist, weight, edges, k)
  <2>3. CASE k \in T
    <3>1. Passed(d, weight, edges, t, k + 1, next, Parents(f[k].parents, f[k].dist, next, k))
      BY <1>5, <2>3, WalkSettles
    <3>2. f[k + 1].dist = next /\ f[k + 1].parents = Parents(f[k].parents, f[k].dist, next, k)
      BY <2>2, <2>3 DEF WalkOn
    <3> QED BY <3>1, <3>2
  <2>4. CASE k \notin T
    <3>1. f[k + 1] = f[k]
      BY <2>2, <2>4 DEF WalkOn
    <3> QED BY <1>5, <2>4, <3>1, WalkSkips
  <2> QED BY <2>3, <2>4
<1>6. ASSUME NEW k \in 0 .. N, 0 .. k - 1 \subseteq Z PROVE k \in Z
  <2>1. CASE k = 0
    BY <1>4, <2>1
  <2>2. CASE k # 0
    <3>1. k - 1 \in Nodes /\ k - 1 \in 0 .. k - 1 /\ (k - 1) + 1 = k
      BY <2>2, NodeFacts DEF Nodes
    <3>2. Good(k - 1)
      BY <1>6, <3>1
    <3>3. Good((k - 1) + 1)
      <4> HIDE DEF Good
      <4> QED BY <1>5, <3>1, <3>2
    <3> QED BY <3>1, <3>3
  <2> QED BY <2>1, <2>2
<1>7. 0 .. N \subseteq Z
  <2> HIDE DEF Z
  <2> QED BY <1>6, InductionUpTo, NodeFacts
<1>8. Good(N)
  BY <1>7, NodeFacts
<1> QED BY <1>1, <1>8

(* Which distances are found: those whose shortest paths go down from the  *)
(* highest node.                                                           *)
LEMMA WalkedFinds ==
    ASSUME NEW d, NEW weight, NEW edges, Exact(d, weight, edges), NEW t \in Nodes,
           NEW dist, NEW leads, Passed(d, weight, edges, t, N, dist, leads), NEW b \in Nodes, d[<<t, b>>] < Inf
    PROVE  dist[b] = d[<<t, b>>] \/ \E z \in Nodes : b < z /\ d[<<t, z>>] + d[<<z, b>>] <= d[<<t, b>>]
<1>1. Leaves(d, t, dist, N, b)
  BY DEF Passed
<1>2. CASE dist[b] <= d[<<t, b>>]
  <2>1. d[<<t, b>>] <= dist[b] /\ dist[b] \in Weight /\ d[<<t, b>>] \in Nat
    BY ExactFacts DEF Passed
  <2> QED BY <1>2, <2>1, InfAssumption DEF Weight
<1>3. ASSUME NEW v \in Nodes, N <= v \/ b < v, dist[v] + d[<<v, b>>] <= d[<<t, b>>]
      PROVE  b < v /\ d[<<t, v>>] + d[<<v, b>>] <= d[<<t, b>>]
  <2>1. d[<<t, v>>] <= dist[v] /\ dist[v] \in Weight
    BY DEF Passed
  <2>2. d[<<t, v>>] \in Nat /\ d[<<v, b>>] \in Nat /\ d[<<t, b>>] \in Nat /\ dist[v] \in Nat
    BY <2>1, InfAssumption, ExactFacts DEF Weight
  <2>3. ~(N <= v)
    BY NodeFacts DEF Nodes
  <2> QED BY <1>3, <2>1, <2>2, <2>3
<1> QED BY <1>1, <1>2, <1>3 DEF Leaves

-----------------------------------------------------------------------------
(* The lengths of shortest paths to a node, with toTarget, or from it; the *)
(* edges down which the walk from the target goes.                         *)
Remaining == IF toTarget THEN customized.dist ELSE Back(customized.dist)

LinkEdges == IF toTarget THEN customized.fw ELSE customized.bw

BackWeight == IF toTarget THEN customized.down ELSE customized.up

BackEdges == IF toTarget THEN customized.bw ELSE customized.fw

(* The way that is left from x, whose length is its potential.             *)
Left(x) == Remaining[<<x, target>>]

(* The length of the edge between neighbors, from x to y.                  *)
Cost(x, y) == IF x < y THEN LinkWeight[<<x, y>>] ELSE BackWeight[<<y, x>>]

Neighbor(x, y) == y \in Nodes /\ (y \in Graph[x] \/ x \in Graph[y])

(* The next node, y, after x on a path of this length.                     *)
Follows(x, y, length) ==
    /\ Neighbor(x, y) /\ Cost(x, y) \in Nat
    /\ Cost(x, y) + Left(y) <= length

(* The edge from x to y is on a shortest path.                             *)
TightLink(x, y) == Left(x) < Inf /\ Follows(x, y, Left(x))

Ends(x, y) == x = target /\ y = x

-----------------------------------------------------------------------------
(* The inductive invariant.                                                *)
Known(x) == potentials[x] # None

Waiting(x) == \E i \in 1 .. Len(stack) : stack[i] = x

(* What is where, and nothing is under way before there is a target.       *)
Types ==
    /\ \E m \in Metrics : customized = Perfect(m)
    /\ variant \in {"tree", "stack"} /\ toTarget \in BOOLEAN
    /\ target \in Nodes \cup {None}
    /\ potentials \in [Nodes -> Nat \cup {None}]
    /\ parents \in [Nodes -> Nodes \cup {N}]
    /\ stack \in Seq(Nodes)
    /\ target = None => Idle /\ potentials = Nowhere

(* The distances of the search from the target.                            *)
Searched ==
    target # None => \E leads : Passed(Back(Remaining), BackWeight, BackEdges, target, N, dists, leads)

(* CCHPotential knows the potentials of all nodes above one whose potential*)
(* it knows, or will when it comes to it on the stack.                     *)
KnownAbove ==
    variant = "tree" =>
        /\ \A x \in Nodes : Known(x) => \A y \in Graph[x] : Known(y)
        /\ \A i \in 1 .. Len(stack) : \A y \in Graph[stack[i]] :
               Known(y) \/ \E j \in i + 1 .. Len(stack) : stack[j] = y

(* Parents lead on shortest paths, or on paths as long as what the search  *)
(* from the target found.                                                  *)
Parented ==
    variant = "tree" /\ target # None =>
        \A x \in Nodes : \A p \in Nodes \cup {N} : parents[x] = p =>
            /\ Known(x) /\ potentials[x] < Inf => Ends(x, p) \/ TightLink(x, p)
            /\ ~Known(x) /\ dists[x] < Inf => Ends(x, p) \/ Follows(x, p, dists[x])

(* Calls are for nodes with a path; from when a call has read it, the      *)
(* parent is on a shortest path, whatever becomes of the parent in the     *)
(* array.                                                                  *)
CallFits(c) ==
    /\ Left(c.node) < Inf
    /\ c.done = "potential" => Known(c.node) \/ Waiting(c.node)
    /\ c.done \in {"read", "parent", "middle", "edge", "all"} => Known(c.node) /\ TightLink(c.node, c.parent)
    /\ c.done = "middle" => MiddleOf(c) # None /\ (Known(MiddleOf(c)) \/ Waiting(MiddleOf(c)))

CallRecord ==
    [node : Nodes, parent : Nodes \cup {None},
     done : {"nothing", "potential", "read", "parent", "middle", "edge", "all"}]

Called ==
    /\ variant = "stack" => calls = <<>>
    /\ calls \in Seq(CallRecord)
    /\ \A i \in 1 .. Len(calls) : CallFits(calls[i])

LazyInv == Types /\ Searched /\ PotentialsAreDistances /\ KnownAbove /\ Parented /\ Called

LEMMA PerfectFacts ==
    ASSUME NEW m \in Metrics
    PROVE  /\ Perfect(m).dist = Distances(m) /\ Perfect(m).metric = m
           /\ Perfect(m).up = BasicUp(m) /\ Perfect(m).down = BasicDown(m)
           /\ Perfect(m).upVia = BasicUpVia(m) /\ Perfect(m).downVia = BasicDownVia(m)
           /\ Perfect(m).fw = Kept(BasicUp(m), Distances(m))
           /\ Perfect(m).bw = Kept(BasicDown(m), Back(Distances(m)))
<1> DEFINE b == Basic(m)
           up == {e \in Edges : b.up[e] = b.dist[e]}
           down == {e \in Edges : b.down[e] = b.dist[<<e[2], e[1]>>]}
<1>1. /\ b.dist = Distances(m) /\ b.metric = m /\ b.up = BasicUp(m) /\ b.down = BasicDown(m)
      /\ b.upVia = BasicUpVia(m) /\ b.downVia = BasicDownVia(m)
  BY DEF Basic
<1>2. up = Kept(BasicUp(m), Distances(m))
  BY <1>1 DEF Kept
<1>3. down = Kept(BasicDown(m), Back(Distances(m)))
  <2>1. \A e \in Edges : Back(Distances(m))[e] = Distances(m)[<<e[2], e[1]>>]
    BY DEF Back, Edges
  <2> QED BY <1>1, <2>1 DEF Kept
<1>4. /\ Perfect(m).dist = b.dist /\ Perfect(m).metric = b.metric /\ Perfect(m).up = b.up /\ Perfect(m).down = b.down
      /\ Perfect(m).upVia = b.upVia /\ Perfect(m).downVia = b.downVia
  BY DEF Perfect, Basic
<1>5. Perfect(m).fw = up /\ Perfect(m).bw = down
  BY DEF Perfect, Basic
<1> HIDE DEF b, up, down
<1> QED BY <1>1, <1>2, <1>3, <1>4, <1>5

(* Both directions of a perfect customization are exact.                   *)
LEMMA SidesAreExact ==
    ASSUME Types
    PROVE  Exact(Remaining, LinkWeight, LinkEdges) /\ Exact(Back(Remaining), BackWeight, BackEdges)
<1>1. PICK m \in Metrics : customized = Perfect(m)
  BY DEF Types
<1> DEFINE D == Distances(m)
           up == Kept(BasicUp(m), D)
           down == Kept(BasicDown(m), Back(D))
<1>2. Exact(D, BasicUp(m), up) /\ Exact(Back(D), BasicDown(m), down)
  BY UpIsExact, DownIsExact
<1>3. Back(Back(D)) = D
  <2>1. D \in [Nodes \X Nodes -> Weight]
    BY <1>2 DEF Exact
  <2> HIDE DEF D
  <2> QED BY <2>1 DEF Back
<1>4. /\ customized.dist = D /\ customized.up = BasicUp(m) /\ customized.down = BasicDown(m)
      /\ customized.fw = up /\ customized.bw = down
  BY <1>1, PerfectFacts
<1> HIDE DEF D, up, down
<1>5. CASE toTarget
  BY <1>2, <1>4, <1>5 DEF Remaining, LinkWeight, LinkEdges, BackWeight, BackEdges
<1>6. CASE ~toTarget
  BY <1>2, <1>3, <1>4, <1>6 DEF Remaining, LinkWeight, LinkEdges, BackWeight, BackEdges
<1> QED BY <1>5, <1>6

(* Distances, and the weights of edges.                                    *)
LEMMA RemainingFacts ==
    ASSUME Types
    PROVE  /\ \A x, y \in Nodes : Remaining[<<x, y>>] \in Nat /\ Remaining[<<x, y>>] <= Inf
           /\ \A x \in Nodes : Remaining[<<x, x>>] = 0
           /\ \A x, y, z \in Nodes : Remaining[<<x, z>>] <= Remaining[<<x, y>>] + Remaining[<<y, z>>]
           /\ \A x, y \in Nodes : Back(Remaining)[<<x, y>>] = Remaining[<<y, x>>]
<1>1. \A x, y \in Nodes : Back(Remaining)[<<x, y>>] = Remaining[<<y, x>>]
  BY DEF Back
<1> QED BY <1>1, SidesAreExact, ExactFacts

LEMMA CostFacts ==
    ASSUME Types, NEW x \in Nodes, NEW y, Neighbor(x, y)
    PROVE  /\ x # y /\ Cost(x, y) \in Nat /\ Remaining[<<x, y>>] <= Cost(x, y) /\ Neighbor(y, x)
           /\ y \in Graph[x] => x < y /\ Cost(x, y) = LinkWeight[<<x, y>>]
           /\ x \in Graph[y] => y < x /\ Cost(x, y) = BackWeight[<<y, x>>]
<1>1. y \in Nodes /\ x \in Nat /\ y \in Nat /\ \A v, w \in Nodes : v \in Graph[w] => w < v /\ <<w, v>> \in Edges
  BY NodeFacts, GraphAssumption DEF Neighbor, Edges
<1>2. \A e \in Edges : LinkWeight[e] \in Nat /\ Remaining[e] <= LinkWeight[e]
  BY SidesAreExact DEF Exact
<1>3. \A e \in Edges : BackWeight[e] \in Nat /\ Back(Remaining)[e] <= BackWeight[e]
  BY SidesAreExact DEF Exact
<1>4. CASE y \in Graph[x]
  <2>1. x < y /\ <<x, y>> \in Edges
    BY <1>1, <1>4
  <2>2. Cost(x, y) = LinkWeight[<<x, y>>] /\ ~(y < x)
    BY <1>1, <2>1 DEF Cost
  <2> QED BY <1>1, <1>2, <1>4, <2>1, <2>2 DEF Neighbor
<1>5. CASE x \in Graph[y]
  <2>1. y < x /\ <<y, x>> \in Edges
    BY <1>1, <1>5
  <2>2. ~(x < y)
    BY <1>1, <2>1
  <2>3. Cost(x, y) = BackWeight[<<y, x>>]
    BY <2>2 DEF Cost
  <2>4. Back(Remaining)[<<y, x>>] = Remaining[<<x, y>>]
    BY <1>1, RemainingFacts
  <2>5. Cost(x, y) \in Nat /\ Remaining[<<x, y>>] <= Cost(x, y)
    BY <1>3, <2>1, <2>3, <2>4
  <2>6. x # y
    BY <1>1, <2>1
  <2> QED BY <1>1, <1>5, <2>1, <2>2, <2>3, <2>5, <2>6 DEF Neighbor
<1> QED BY <1>4, <1>5 DEF Neighbor

(* What customization remembers of an edge is a lower triangle of the same *)
(* length.                                                                 *)
LEMMA ViaFacts ==
    ASSUME NEW m \in Metrics, NEW x \in Nodes, NEW v \in Graph[x]
    PROVE  \A z : z # None =>
               /\ z = BasicUpVia(m)[<<x, v>>] =>
                      /\ z \in Nodes /\ x \in Graph[z] /\ v \in Graph[z]
                      /\ BasicDown(m)[<<z, x>>] + BasicUp(m)[<<z, v>>] = BasicUp(m)[<<x, v>>]
               /\ z = BasicDownVia(m)[<<x, v>>] =>
                      /\ z \in Nodes /\ x \in Graph[z] /\ v \in Graph[z]
                      /\ BasicDown(m)[<<z, v>>] + BasicUp(m)[<<z, x>>] = BasicDown(m)[<<x, v>>]
<1> DEFINE e == <<x, v>>
<1>1. e \in Edges /\ e[1] = x /\ e[2] = v
  BY GraphAssumption DEF Edges, Graphs
<1>2. Triangles(e) = {z \in Nodes : x \in Graph[z] /\ v \in Graph[z]}
  BY DEF Triangles, Below
<1> DEFINE U == {z \in Triangles(e) : BasicDown(m)[<<z, x>>] + BasicUp(m)[<<z, v>>] = BasicUp(m)[e]}
           W == {z \in Triangles(e) : BasicDown(m)[<<z, v>>] + BasicUp(m)[<<z, x>>] = BasicDown(m)[e]}
<1>3. BasicUpVia(m)[e] = IF BasicUp(m)[e] = RespectUp(m)[e] THEN None ELSE Lowest(U)
  BY <1>1 DEF BasicUpVia
<1>4. BasicDownVia(m)[e] = IF BasicDown(m)[e] = RespectDown(m)[e] THEN None ELSE Lowest(W)
  BY <1>1 DEF BasicDownVia
<1>5. BasicUp(m)[e] = RespectUp(m)[e] \/ U # {}
  <2>1. BasicUp(m)[e] = RespectUp(m)[e] \/ \E z \in Triangles(e) : BasicUp(m)[e] = BasicDown(m)[<<z, e[1]>>] + BasicUp(m)[<<z, e[2]>>]
    BY <1>1, BasicIsLeast
  <2> QED BY <2>1
<1>6. BasicDown(m)[e] = RespectDown(m)[e] \/ W # {}
  <2>1. BasicDown(m)[e] = RespectDown(m)[e] \/ \E z \in Triangles(e) : BasicDown(m)[e] = BasicDown(m)[<<z, e[2]>>] + BasicUp(m)[<<z, e[1]>>]
    BY <1>1, BasicIsLeast
  <2> QED BY <2>1
<1>7. U \subseteq Nat /\ W \subseteq Nat
  BY <1>2, NodeFacts
<1>8. BasicUpVia(m)[e] # None => BasicUpVia(m)[e] \in U
  <2> HIDE DEF U, W, e
  <2> QED BY <1>3, <1>5, <1>7, LowestIsLeast
<1>9. BasicDownVia(m)[e] # None => BasicDownVia(m)[e] \in W
  <2> HIDE DEF U, W, e
  <2> QED BY <1>4, <1>6, <1>7, LowestIsLeast
<1> QED BY <1>2, <1>8, <1>9

(* An edge is as long as the two that it is unpacked to.                   *)
LEMMA MiddleFacts ==
    ASSUME Types, NEW c, c.node \in Nodes, Neighbor(c.node, c.parent), MiddleOf(c) # None
    PROVE  LET z == MiddleOf(c)
           IN  /\ z \in Nodes /\ Neighbor(c.node, z) /\ Neighbor(z, c.parent)
               /\ Cost(c.node, z) + Cost(z, c.parent) = Cost(c.node, c.parent)
<1> DEFINE a == c.node
           b == c.parent
           z == MiddleOf(c)
<1>1. PICK m \in Metrics : customized = Perfect(m)
  BY DEF Types
<1>2. /\ customized.up = BasicUp(m) /\ customized.down = BasicDown(m)
      /\ customized.upVia = BasicUpVia(m) /\ customized.downVia = BasicDownVia(m)
  BY <1>1, PerfectFacts
<1>3. a \in Nodes /\ b \in Nodes /\ a \in Nat /\ b \in Nat /\ (b \in Graph[a] \/ a \in Graph[b])
  BY NodeFacts DEF Neighbor
<1>4. \A v, w \in Nodes : v \in Graph[w] => w < v
  BY GraphAssumption
<1>5. z = IF toTarget THEN Middle(customized, a, b) ELSE Middle(customized, b, a)
  BY DEF MiddleOf
<1>6. z # None /\ toTarget \in BOOLEAN
  BY DEF Types
<1>7. /\ LinkWeight = IF toTarget THEN BasicUp(m) ELSE BasicDown(m)
      /\ BackWeight = IF toTarget THEN BasicDown(m) ELSE BasicUp(m)
  BY <1>2 DEF LinkWeight, BackWeight
<1> HIDE DEF a, b, z
<1>8. ASSUME z \in Nodes, a \in Graph[z], b \in Graph[z]
      PROVE  /\ Neighbor(a, z) /\ Neighbor(z, b)
             /\ Cost(a, z) = BackWeight[<<z, a>>] /\ Cost(z, b) = LinkWeight[<<z, b>>]
             /\ BackWeight[<<z, a>>] \in Nat /\ LinkWeight[<<z, b>>] \in Nat
  <2>1. Neighbor(a, z) /\ Neighbor(z, b)
    BY <1>3, <1>8 DEF Neighbor
  <2> QED BY <1>3, <1>8, <2>1, CostFacts
<1>9. CASE b \in Graph[a]
  <2>1. a < b /\ ~(b < a)
    BY <1>3, <1>4, <1>9
  <2>2. Cost(a, b) = LinkWeight[<<a, b>>]
    BY <2>1 DEF Cost
  <2>3. CASE toTarget
    <3>1. z = BasicUpVia(m)[<<a, b>>]
      BY <1>2, <1>5, <2>1, <2>3 DEF Middle
    <3>2. /\ z \in Nodes /\ a \in Graph[z] /\ b \in Graph[z]
          /\ BasicDown(m)[<<z, a>>] + BasicUp(m)[<<z, b>>] = BasicUp(m)[<<a, b>>]
      BY <1>3, <1>6, <1>9, <3>1, ViaFacts
    <3> QED BY <1>7, <1>8, <2>2, <2>3, <3>2 DEF a, b, z
  <2>4. CASE ~toTarget
    <3>1. z = BasicDownVia(m)[<<a, b>>]
      BY <1>2, <1>5, <2>1, <2>4 DEF Middle
    <3>2. /\ z \in Nodes /\ a \in Graph[z] /\ b \in Graph[z]
          /\ BasicDown(m)[<<z, b>>] + BasicUp(m)[<<z, a>>] = BasicDown(m)[<<a, b>>]
      BY <1>3, <1>6, <1>9, <3>1, ViaFacts
    <3>3. LinkWeight[<<z, b>>] + BackWeight[<<z, a>>] = Cost(a, b)
      BY <1>7, <2>2, <2>4, <3>2
    <3>4. BackWeight[<<z, a>>] + LinkWeight[<<z, b>>] = Cost(a, b)
      BY <1>8, <3>2, <3>3
    <3> QED BY <1>8, <3>2, <3>4 DEF a, b, z
  <2> QED BY <2>3, <2>4
<1>10. CASE a \in Graph[b]
  <2>1. b < a /\ ~(a < b)
    BY <1>3, <1>4, <1>10
  <2>2. Cost(a, b) = BackWeight[<<b, a>>]
    BY <2>1 DEF Cost
  <2>3. CASE toTarget
    <3>1. z = BasicDownVia(m)[<<b, a>>]
      BY <1>2, <1>5, <2>1, <2>3 DEF Middle
    <3>2. /\ z \in Nodes /\ a \in Graph[z] /\ b \in Graph[z]
          /\ BasicDown(m)[<<z, a>>] + BasicUp(m)[<<z, b>>] = BasicDown(m)[<<b, a>>]
      BY <1>3, <1>6, <1>10, <3>1, ViaFacts
    <3> QED BY <1>7, <1>8, <2>2, <2>3, <3>2 DEF a, b, z
  <2>4. CASE ~toTarget
    <3>1. z = BasicUpVia(m)[<<b, a>>]
      BY <1>2, <1>5, <2>1, <2>4 DEF Middle
    <3>2. /\ z \in Nodes /\ a \in Graph[z] /\ b \in Graph[z]
          /\ BasicDown(m)[<<z, b>>] + BasicUp(m)[<<z, a>>] = BasicUp(m)[<<b, a>>]
      BY <1>3, <1>6, <1>10, <3>1, ViaFacts
    <3>3. LinkWeight[<<z, b>>] + BackWeight[<<z, a>>] = Cost(a, b)
      BY <1>7, <2>2, <2>4, <3>2
    <3>4. BackWeight[<<z, a>>] + LinkWeight[<<z, b>>] = Cost(a, b)
      BY <1>8, <3>2, <3>3
    <3> QED BY <1>8, <3>2, <3>4 DEF a, b, z
  <2> QED BY <2>3, <2>4
<1> QED BY <1>3, <1>9, <1>10

(* The next node on a shortest path is on one itself, and so is the middle *)
(* node of an edge.                                                        *)
LEMMA TightFacts ==
    ASSUME Types, target \in Nodes, NEW x \in Nodes, NEW y, TightLink(x, y)
    PROVE  y \in Nodes /\ y # x /\ Neighbor(x, y) /\ Left(y) < Inf
<1>1. Neighbor(x, y) /\ y \in Nodes /\ Cost(x, y) \in Nat /\ Cost(x, y) + Left(y) <= Left(x) /\ Left(x) < Inf
  BY DEF TightLink, Follows, Neighbor
<1>2. Left(x) \in Nat /\ Left(y) \in Nat
  BY <1>1, RemainingFacts DEF Left
<1>3. Left(y) < Inf
  BY <1>1, <1>2, InfAssumption
<1> QED BY <1>1, <1>3, CostFacts

LEMMA MiddleIsTight ==
    ASSUME Types, target \in Nodes, NEW c, c.node \in Nodes, TightLink(c.node, c.parent), MiddleOf(c) # None
    PROVE  MiddleOf(c) \in Nodes /\ TightLink(c.node, MiddleOf(c)) /\ TightLink(MiddleOf(c), c.parent)
<1> DEFINE a == c.node
           b == c.parent
           z == MiddleOf(c)
<1>1. a \in Nodes /\ b \in Nodes /\ Cost(a, b) \in Nat /\ Cost(a, b) + Left(b) <= Left(a) /\ Left(a) < Inf /\ Neighbor(a, b)
  BY DEF TightLink, Follows, Neighbor
<1>2. z \in Nodes /\ Neighbor(a, z) /\ Neighbor(z, b) /\ Cost(a, z) + Cost(z, b) = Cost(a, b)
  BY <1>1, MiddleFacts
<1> HIDE DEF a, b, z
<1>3. Cost(a, z) \in Nat /\ Cost(z, b) \in Nat /\ Remaining[<<a, z>>] <= Cost(a, z) /\ Remaining[<<z, b>>] <= Cost(z, b)
  BY <1>1, <1>2, CostFacts
<1>4. /\ Left(a) \in Nat /\ Left(b) \in Nat /\ Left(z) \in Nat /\ Remaining[<<a, z>>] \in Nat /\ Remaining[<<z, b>>] \in Nat
      /\ Left(z) <= Remaining[<<z, b>>] + Left(b) /\ Left(a) <= Remaining[<<a, z>>] + Left(z)
  BY <1>1, <1>2, RemainingFacts DEF Left
<1>5. Cost(a, z) + Left(z) <= Left(a) /\ Left(z) < Inf /\ Cost(z, b) + Left(b) <= Left(z)
  BY <1>1, <1>2, <1>3, <1>4, InfAssumption
<1> QED BY <1>1, <1>2, <1>3, <1>5 DEF TightLink, Follows, a, b, z

-----------------------------------------------------------------------------
LEMMA LeastIsChosen ==
    ASSUME NEW S \in SUBSET Nat, S # {}
    PROVE  Min(S) \in S /\ \A n \in S : Min(S) <= n
<1>1. \E m \in S : \A n \in S : m <= n
  BY LeastElement
<1> QED BY <1>1 DEF Min

LEMMA HeadsFacts ==
    ASSUME Types, NEW x \in Nodes
    PROVE  /\ Heads(x) \subseteq Nodes
           /\ \A y \in Nodes : y \in Heads(x) <=> <<x, y>> \in LinkEdges
           /\ \A y \in Heads(x) : /\ y \in Graph[x] /\ Neighbor(x, y) /\ Cost(x, y) = LinkWeight[<<x, y>>]
                                  /\ LinkWeight[<<x, y>>] \in Nat /\ Remaining[<<x, y>>] <= LinkWeight[<<x, y>>]
<1>1. Heads(x) \subseteq Nodes /\ \A y \in Nodes : y \in Heads(x) <=> <<x, y>> \in LinkEdges
  BY DEF Heads, LinkEdges
<1>2. ASSUME NEW y \in Heads(x)
      PROVE  /\ y \in Graph[x] /\ Neighbor(x, y) /\ Cost(x, y) = LinkWeight[<<x, y>>]
             /\ LinkWeight[<<x, y>>] \in Nat /\ Remaining[<<x, y>>] <= LinkWeight[<<x, y>>]
  <2>1. y \in Nodes /\ <<x, y>> \in LinkEdges
    BY <1>1
  <2>2. y \in Graph[x]
    BY <2>1, SidesAreExact, ExactFacts
  <2>3. Neighbor(x, y)
    BY <2>1, <2>2 DEF Neighbor
  <2> QED BY <2>2, <2>3, CostFacts
<1> QED BY <1>1, <1>2

(* What a node is given, when its heads have been given the distances, is  *)
(* its distance.                                                           *)
LEMMA EvaluatedIsLeft ==
    ASSUME Types, Searched, target \in Nodes, NEW x \in Nodes, \A y \in Heads(x) : potentials[y] = Left(y),
           NEW low, low = Min({dists[x]} \cup {Via(x, y) : y \in Heads(x)})
    PROVE  /\ low = Left(x) /\ low \in Nat /\ dists[x] \in Nat /\ low <= dists[x] /\ dists[x] <= Inf
           /\ low < dists[x] => \E y \in Heads(x) : Via(x, y) = low
<1> DEFINE S == {dists[x]} \cup {Via(x, y) : y \in Heads(x)}
<1>0. None \notin Nodes
  BY NodeFacts
<1>1. PICK leads : Passed(Back(Remaining), BackWeight, BackEdges, target, N, dists, leads)
  BY <1>0 DEF Searched
<1>2. Left(x) \in Nat /\ Left(x) <= Inf /\ Back(Remaining)[<<target, x>>] = Left(x)
  BY RemainingFacts DEF Left
<1>3. dists[x] \in Nat /\ Left(x) <= dists[x] /\ dists[x] <= Inf
  <2>1. dists[x] \in Weight /\ Back(Remaining)[<<target, x>>] <= dists[x]
    BY <1>1 DEF Passed
  <2> QED BY <1>2, <2>1, InfAssumption DEF Weight
<1>4. ASSUME NEW y \in Heads(x)
      PROVE  Via(x, y) \in Nat /\ Left(x) <= Via(x, y) /\ Via(x, y) = LinkWeight[<<x, y>>] + Left(y)
  <2>1. y \in Nodes /\ LinkWeight[<<x, y>>] \in Nat /\ Remaining[<<x, y>>] <= LinkWeight[<<x, y>>]
    BY HeadsFacts
  <2>2. Left(y) \in Nat /\ Left(x) <= Remaining[<<x, y>>] + Left(y) /\ Remaining[<<x, y>>] \in Nat
    BY <2>1, RemainingFacts DEF Left
  <2>3. Via(x, y) = LinkWeight[<<x, y>>] + Left(y)
    BY DEF Via
  <2> QED BY <1>2, <2>1, <2>2, <2>3
<1>5. S \in SUBSET Nat /\ dists[x] \in S /\ \A n \in S : Left(x) <= n
  BY <1>3, <1>4
<1>6. Left(x) \in S
  <2>1. CASE Left(x) = Inf
    <3>1. dists[x] = Left(x)
      BY <1>3, <2>1, InfAssumption
    <3> QED BY <1>5, <3>1
  <2>2. CASE Left(x) # Inf
    <3>1. Left(x) < Inf
      BY <1>2, <2>2, InfAssumption
    <3>2. \/ dists[x] = Left(x)
          \/ \E z \in Nodes : x < z /\ Back(Remaining)[<<target, z>>] + Back(Remaining)[<<z, x>>] <= Left(x)
      BY <1>1, <1>2, <3>1, SidesAreExact, WalkedFinds
    <3>3. ASSUME NEW z \in Nodes, x < z, Back(Remaining)[<<target, z>>] + Back(Remaining)[<<z, x>>] <= Left(x)
          PROVE  Left(x) \in S
      <4>1. Left(z) + Remaining[<<x, z>>] <= Left(x) /\ Left(z) \in Nat /\ Remaining[<<x, z>>] \in Nat
        BY <3>3, RemainingFacts DEF Left
      <4>2. Remaining[<<x, z>>] < Inf
        BY <1>2, <3>1, <4>1, InfAssumption
      <4>3. PICK y \in Nodes : <<x, y>> \in LinkEdges /\ LinkWeight[<<x, y>>] + Remaining[<<y, z>>] <= Remaining[<<x, z>>]
        BY <3>3, <4>2, SidesAreExact, ExactFacts
      <4>4. y \in Heads(x) /\ LinkWeight[<<x, y>>] \in Nat
        BY <4>3, HeadsFacts
      <4>5. Left(y) \in Nat /\ Left(y) <= Remaining[<<y, z>>] + Left(z) /\ Remaining[<<y, z>>] \in Nat
        BY RemainingFacts DEF Left
      <4>6. Via(x, y) <= Left(x)
        <5>1. Via(x, y) = LinkWeight[<<x, y>>] + Left(y)
          BY <1>4, <4>4
        <5> QED BY <1>2, <4>1, <4>3, <4>4, <4>5, <5>1
      <4>7. Via(x, y) = Left(x)
        <5>1. Via(x, y) \in Nat /\ Left(x) <= Via(x, y)
          BY <1>4, <4>4
        <5> QED BY <1>2, <4>6, <5>1
      <4> QED BY <4>4, <4>7
    <3> QED BY <1>5, <3>2, <3>3
  <2> QED BY <2>1, <2>2
<1>7. low = Min(S)
  OBVIOUS
<1>8. \A n \in S : n = dists[x] \/ \E y \in Heads(x) : Via(x, y) = n
  OBVIOUS
<1> HIDE DEF S
<1>9. low \in S /\ \A n \in S : low <= n
  <2>1. S # {}
    BY <1>5
  <2>2. Min(S) \in S /\ \A n \in S : Min(S) <= n
    BY <1>5, <2>1, LeastIsChosen
  <2> QED BY <1>7, <2>2, Zenon
<1>10. low = Left(x)
  <2>1. low \in Nat /\ low <= Left(x) /\ Left(x) <= low
    BY <1>5, <1>6, <1>9
  <2> QED BY <1>2, <2>1
<1>11. low \in Nat /\ low <= dists[x]
  BY <1>5, <1>9
<1>12. low < dists[x] => \E y \in Heads(x) : Via(x, y) = low
  <2>1. low < dists[x] => low # dists[x]
    BY <1>3, <1>11
  <2> QED BY <1>8, <1>9, <2>1, Zenon
<1> QED BY <1>3, <1>10, <1>11, <1>12, Zenon

-----------------------------------------------------------------------------
(* Nothing about the graph changes while there is the same target.         *)
LEMMA Frame ==
    ASSUME UNCHANGED <<customizationVars, target>>
    PROVE  /\ Remaining' = Remaining /\ LinkWeight' = LinkWeight /\ BackWeight' = BackWeight /\ BackEdges' = BackEdges
           /\ \A x : Left(x)' = Left(x)
           /\ \A x, y : (TightLink(x, y)' <=> TightLink(x, y)) /\ (Ends(x, y)' <=> Ends(x, y))
           /\ \A x, y, length : Follows(x, y, length)' <=> Follows(x, y, length)
           /\ \A c : MiddleOf(c)' = MiddleOf(c)
<1>1. customized' = customized /\ toTarget' = toTarget /\ target' = target
  BY DEF customizationVars
<1>2. Remaining' = Remaining /\ LinkWeight' = LinkWeight /\ BackWeight' = BackWeight /\ BackEdges' = BackEdges
  BY <1>1 DEF Remaining, LinkWeight, BackWeight, BackEdges
<1>3. \A x : Left(x)' = Left(x)
  BY <1>1, <1>2 DEF Left
<1>4. \A x, y : Cost(x, y)' = Cost(x, y)
  BY <1>2 DEF Cost
<1>5. \A x, y, length : Follows(x, y, length)' <=> Follows(x, y, length)
  BY <1>3, <1>4 DEF Follows, Neighbor
<1>6. \A x, y : (TightLink(x, y)' <=> TightLink(x, y)) /\ (Ends(x, y)' <=> Ends(x, y))
  BY <1>1, <1>3, <1>5 DEF TightLink, Ends
<1>7. \A c : MiddleOf(c)' = MiddleOf(c)
  BY <1>1 DEF MiddleOf
<1> QED BY <1>2, <1>3, <1>5, <1>6, <1>7

(* The nodes on the way up are pushed from the top down to the first.      *)
Climbs(x, list) ==
    /\ list \in Seq(Nodes)
    /\ Known(x) \/ \E i \in 1 .. Len(list) : list[i] = x
    /\ \A i \in 1 .. Len(list) : \A y \in Graph[list[i]] :
           Known(y) \/ \E j \in i + 1 .. Len(list) : list[j] = y

LEMMA PathFits ==
    ASSUME Types, KnownAbove, variant = "tree", NEW x \in Nodes
    PROVE  Climbs(x, PathTo(x))
<1> DEFINE T == TreePath(Parent, x)
           U == Unknown(x)
           list == PathTo(x)
<1>1. /\ T \subseteq Nodes /\ x \in T /\ \A y \in T : x <= y /\ Graph[y] \subseteq T
      /\ \A y, z \in T : y <= z => z \in TreePath(Parent, y)
  BY TreePathFacts
<1>2. U = {y \in T : \A z \in T : z <= y => ~Known(z)}
  BY DEF Unknown, Known
<1>3. U \in SUBSET Nodes
  BY <1>1, <1>2
<1>4. /\ list \in Seq(U) /\ \A y \in U : \E i \in 1 .. Len(list) : list[i] = y
      /\ \A i, j \in 1 .. Len(list) : i < j => list[i] < list[j]
  BY <1>3, AscendingFacts DEF PathTo
<1>5. Known(x) \/ x \in U
  <2>1. \A z \in T : z <= x => z = x
    <3>1. ASSUME NEW z \in T, z <= x PROVE z = x
      <4>1. x <= z /\ z \in Nat /\ x \in Nat
        BY <1>1, NodeFacts
      <4> QED BY <3>1, <4>1
    <3> QED BY <3>1
  <2> QED BY <1>1, <1>2, <2>1
<1>6. ASSUME NEW w \in T, Known(w), NEW z \in T, w <= z PROVE Known(z)
  <2> DEFINE S == {v \in Nodes : Known(v)}
  <2>1. Closed(S)
    <3>1. ASSUME NEW v \in S, Parent[v] # None PROVE Parent[v] \in S
      <4>1. Graph[v] # {} /\ Parent[v] = Lowest(Graph[v])
        BY <3>1 DEF Parent, EliminationTree
      <4>2. Graph[v] \in SUBSET Nat
        BY NodeFacts, GraphAssumption DEF Graphs
      <4>3. Parent[v] \in Graph[v] /\ Parent[v] \in Nodes
        BY <3>1, <4>1, <4>2, LowestIsLeast, ParentFacts
      <4> QED BY <4>3 DEF KnownAbove
    <3> QED BY <3>1 DEF Closed
  <2>2. w \in S /\ w \in Nodes /\ S \in SUBSET Nodes
    BY <1>1, <1>6
  <2>3. TreePath(Parent, w) \subseteq S
    <3> HIDE DEF S
    <3> QED BY <2>1, <2>2, TreePathIsLeast
  <2> QED BY <1>1, <1>6, <2>3
<1> HIDE DEF T, U, list
<1>7. list \in Seq(Nodes)
  BY <1>3, <1>4
<1>8. Known(x) \/ \E i \in 1 .. Len(list) : list[i] = x
  BY <1>4, <1>5
<1>9. ASSUME NEW i \in 1 .. Len(list), NEW y \in Graph[list[i]], ~Known(y)
      PROVE  \E j \in i + 1 .. Len(list) : list[j] = y
  <2> DEFINE v == list[i]
  <2>1. v \in U /\ v \in Nodes /\ v \in T
    BY <1>2, <1>3, <1>4
  <2>2. y \in T /\ y \in Nodes /\ v < y /\ v \in Nat /\ y \in Nat
    BY <1>1, <2>1, GraphAssumption, NodeFacts
  <2>3. y \in U
    <3>1. ASSUME NEW w \in T, w <= y PROVE ~Known(w)
      BY <1>6, <1>9, <2>2, <3>1
    <3> QED BY <1>2, <2>2, <3>1
  <2>4. PICK j \in 1 .. Len(list) : list[j] = y
    BY <1>4, <2>3
  <2>5. Len(list) \in Nat
    BY <1>7
  <2>6. ~(j < i) /\ j # i
    <3>1. ~(y < v) /\ y # v
      BY <2>2
    <3> QED BY <1>4, <2>4, <3>1
  <2>7. j \in i + 1 .. Len(list)
    <3> HIDE DEF v
    <3> QED BY <2>5, <2>6
  <2> QED BY <2>4, <2>7
<1> QED BY <1>7, <1>8, <1>9 DEF Climbs, list

-----------------------------------------------------------------------------
(* The stack without its top.                                              *)
LEMMA FrontFacts ==
    ASSUME NEW S, NEW s \in Seq(S), s # <<>>
    PROVE  /\ Len(s) \in Nat \ {0} /\ s[Len(s)] \in S
           /\ Front(s) \in Seq(S) /\ Len(Front(s)) = Len(s) - 1
           /\ \A i \in 1 .. Len(s) - 1 : Front(s)[i] = s[i]
<1> DEFINE n == Len(s) - 1
<1>1. Len(s) \in Nat \ {0} /\ s[Len(s)] \in S /\ n \in Nat /\ \A i \in 1 .. n : s[i] \in S
  OBVIOUS
<1>2. Front(s) = SubSeq(s, 1, n)
  BY DEF Front
<1> HIDE DEF n
<1>3. /\ SubSeq(s, 1, n) \in Seq(S) /\ Len(SubSeq(s, 1, n)) = IF 1 <= n THEN n - 1 + 1 ELSE 0
      /\ \A i \in 1 .. n - 1 + 1 : SubSeq(s, 1, n)[i] = s[1 + i - 1]
  BY <1>1, SubSeqProperties
<1>4. Len(Front(s)) = n /\ \A i \in 1 .. n : Front(s)[i] = s[i]
  BY <1>1, <1>2, <1>3
<1> QED BY <1>1, <1>2, <1>3, <1>4 DEF n

(* What was said of a call stays true when there are more potentials.      *)
LEMMA FitsStill ==
    ASSUME Types, target \in Nodes, NEW c \in CallRecord, CallFits(c),
           UNCHANGED <<customizationVars, target>>,
           \A x \in Nodes : (Known(x) => Known(x)') /\ (Waiting(x) => Known(x)' \/ Waiting(x)')
    PROVE  CallFits(c)'
<1>1. c.node \in Nodes
  BY DEF CallRecord
<1>2. c.done = "middle" => MiddleOf(c) \in Nodes
  BY <1>1, MiddleIsTight DEF CallFits
<1>3. Left(c.node)' = Left(c.node) /\ (TightLink(c.node, c.parent)' <=> TightLink(c.node, c.parent)) /\ MiddleOf(c)' = MiddleOf(c)
  BY Frame
<1>4. Left(c.node)' < Inf
  BY <1>3 DEF CallFits
<1>5. c.done = "potential" => Known(c.node)' \/ Waiting(c.node)'
  BY <1>1 DEF CallFits
<1>6. c.done \in {"read", "parent", "middle", "edge", "all"} => Known(c.node)' /\ TightLink(c.node, c.parent)'
  BY <1>1, <1>3 DEF CallFits
<1>7. ASSUME c.done = "middle" PROVE MiddleOf(c)' # None /\ (Known(MiddleOf(c)) \/ Waiting(MiddleOf(c)))'
  <2>1. MiddleOf(c) # None /\ (Known(MiddleOf(c)) \/ Waiting(MiddleOf(c)))
    BY <1>7 DEF CallFits
  <2> DEFINE z == MiddleOf(c)
  <2>2. z \in Nodes /\ z' = z
    BY <1>2, <1>3, <1>7
  <2>3. (potentials'[z] # None) \/ \E i \in 1 .. Len(stack') : stack'[i] = z
    <3> HIDE DEF z
    <3>1. Known(z) \/ Waiting(z)
      BY <2>1 DEF z
    <3> QED BY <2>2, <3>1 DEF Known, Waiting
  <2> HIDE DEF z
  <2>4. MiddleOf(c)' = z
    BY <1>3 DEF z
  <2> QED BY <1>3, <2>1, <2>3, <2>4 DEF Known, Waiting
<1> QED BY <1>4, <1>5, <1>6, <1>7 DEF CallFits

(* A step of the last call, which is replaced by others.                   *)
LEMMA MoreCalls ==
    ASSUME Types, Called, variant = "tree", target \in Nodes, calls # <<>>, stack = <<>>,
           UNCHANGED <<customizationVars, target, potentials>>,
           NEW more \in Seq(CallRecord), \A i \in 1 .. Len(more) : CallFits(more[i])',
           calls' = Outer \o more
    PROVE  Called'
<1>1. calls \in Seq(CallRecord) /\ \A i \in 1 .. Len(calls) : CallFits(calls[i])
  BY DEF Called
<1>2. PICK rest : rest = Outer
  OBVIOUS
<1>3. /\ Len(calls) \in Nat \ {0} /\ rest \in Seq(CallRecord) /\ Len(rest) = Len(calls) - 1
      /\ \A i \in 1 .. Len(calls) - 1 : rest[i] = calls[i]
  BY <1>1, <1>2, FrontFacts DEF Outer
<1>4. \A x \in Nodes : (Known(x) => Known(x)') /\ (Waiting(x) => Known(x)' \/ Waiting(x)')
  BY DEF Known, Waiting
<1>5. \A c \in CallRecord : CallFits(c) => CallFits(c)'
  BY <1>4, FitsStill
<1>6. \A i \in 1 .. Len(rest) : CallFits(rest[i])'
  <2>1. ASSUME NEW i \in 1 .. Len(rest) PROVE rest[i] \in CallRecord /\ CallFits(rest[i])
    BY <1>1, <1>3
  <2> QED BY <1>5, <2>1
<1>7. /\ calls' = rest \o more /\ rest \o more \in Seq(CallRecord)
      /\ Len(rest) \in Nat /\ Len(more) \in Nat /\ Len(rest \o more) = Len(rest) + Len(more)
      /\ \A i \in 1 .. Len(rest) + Len(more) :
             (rest \o more)[i] = IF i <= Len(rest) THEN rest[i] ELSE more[i - Len(rest)]
  <2>1. rest \in Seq(CallRecord) /\ more \in Seq(CallRecord)
    BY <1>3
  <2>2. /\ rest \o more \in Seq(CallRecord) /\ Len(rest \o more) = Len(rest) + Len(more)
        /\ \A i \in 1 .. Len(rest) + Len(more) :
               (rest \o more)[i] = IF i <= Len(rest) THEN rest[i] ELSE more[i - Len(rest)]
    BY <2>1, ConcatProperties, Zenon
  <2>3. Len(rest) \in Nat /\ Len(more) \in Nat
    BY <2>1
  <2> QED BY <1>2, <2>2, <2>3, Zenon
<1>8. \A i \in 1 .. Len(rest \o more) : CallFits((rest \o more)[i])'
  <2>1. ASSUME NEW i \in 1 .. Len(rest \o more) PROVE CallFits((rest \o more)[i])'
    <3>2. CASE i <= Len(rest)
      <4>1. i \in 1 .. Len(rest) /\ (rest \o more)[i] = rest[i]
        BY <1>7, <3>2
      <4> QED BY <1>6, <4>1
    <3>3. CASE ~(i <= Len(rest))
      <4>1. i - Len(rest) \in 1 .. Len(more) /\ (rest \o more)[i] = more[i - Len(rest)]
        BY <1>7, <3>3
      <4> QED BY <4>1
    <3> QED BY <3>2, <3>3
  <2> QED BY <2>1
<1>9. variant' = "tree"
  BY DEF customizationVars
<1> QED BY <1>7, <1>8, <1>9 DEF Called

(* What holds while the potentials stay as they are.                       *)
LEMMA PotentialsStay ==
    ASSUME LazyInv, UNCHANGED <<customizationVars, target, potentials, dists>>
    PROVE  /\ Searched' /\ PotentialsAreDistances'
           /\ UNCHANGED parents => Parented'
           /\ UNCHANGED stack => KnownAbove'
<1>1. Searched'
  BY Frame DEF LazyInv, Searched
<1>2. PotentialsAreDistances'
  BY DEF LazyInv, PotentialsAreDistances, customizationVars
<1>3. ASSUME UNCHANGED parents PROVE Parented'
  BY <1>3, Frame DEF LazyInv, Parented, Known, customizationVars
<1>4. ASSUME UNCHANGED stack PROVE KnownAbove'
  BY <1>4 DEF LazyInv, KnownAbove, Known, customizationVars
<1> QED BY <1>1, <1>2, <1>3, <1>4

(* A node whose potential is known gets another parent.                    *)
LEMMA ParentIsSet ==
    ASSUME LazyInv, UNCHANGED <<customizationVars, target, potentials, dists>>,
           NEW x \in Nodes, NEW y \in Nodes, Known(x), TightLink(x, y), parents' = [parents EXCEPT ![x] = y]
    PROVE  Parented' /\ parents' \in [Nodes -> Nodes \cup {N}]
<1>1. parents \in [Nodes -> Nodes \cup {N}]
  BY DEF LazyInv, Types
<1>2. parents'[x] = y /\ \A v \in Nodes : v # x => parents'[v] = parents[v]
  BY <1>1
<1>3. potentials' = potentials /\ dists' = dists /\ variant' = variant /\ target' = target
  BY DEF customizationVars
<1>4. ASSUME variant = "tree", target # None, NEW v \in Nodes, NEW p \in Nodes \cup {N}, parents'[v] = p
      PROVE  /\ Known(v)' /\ potentials'[v] < Inf => Ends(v, p)' \/ TightLink(v, p)'
             /\ ~Known(v)' /\ dists'[v] < Inf => Ends(v, p)' \/ Follows(v, p, dists[v])'
  <2>2. /\ (TightLink(v, p)' <=> TightLink(v, p)) /\ (Ends(v, p)' <=> Ends(v, p))
        /\ (Follows(v, p, dists[v])' <=> Follows(v, p, dists[v]))
    BY <1>3, Frame
  <2>0. Known(v)' <=> Known(v)
    BY <1>3 DEF Known
  <2>3. CASE v = x
    BY <1>2, <1>4, <2>0, <2>2, <2>3
  <2>4. CASE v # x
    <3>1. parents[v] = p
      BY <1>2, <1>4, <2>4
    <3> QED BY <1>3, <1>4, <2>0, <2>2, <3>1 DEF LazyInv, Parented
  <2> QED BY <2>3, <2>4
<1> QED BY <1>1, <1>3, <1>4 DEF Parented

-----------------------------------------------------------------------------
LEMMA InitLazy == InitPotential => LazyInv
<1> SUFFICES ASSUME InitPotential PROVE LazyInv
  OBVIOUS
<1>1. /\ \E m \in Metrics : customized = Perfect(m)
      /\ variant \in {"tree", "stack"} /\ toTarget \in BOOLEAN /\ target = None /\ potentials = Nowhere
      /\ parents = [x \in Nodes |-> N] /\ stack = <<>> /\ calls = <<>>
  BY DEF InitPotential, InitPotentialFor
<1>2. Types
  BY <1>1 DEF Types, Idle, Nowhere
<1>3. \A x \in Nodes : ~Known(x)
  BY <1>1 DEF Known, Nowhere
<1>4. Len(stack) = 0 /\ Len(calls) = 0 /\ calls \in Seq(CallRecord)
  BY <1>1
<1>5. KnownAbove
  BY <1>3, <1>4 DEF KnownAbove
<1>6. Called
  BY <1>1, <1>4 DEF Called
<1> QED BY <1>1, <1>2, <1>3, <1>5, <1>6 DEF LazyInv, Searched, Parented, PotentialsAreDistances, Known

LEMMA TargetIsSet == LazyInv /\ SetTarget => LazyInv'
<1> SUFFICES ASSUME LazyInv, SetTarget PROVE LazyInv'
  OBVIOUS
<1> USE DEF LazyInv
<1>1. /\ stack = <<>> /\ calls = <<>> /\ potentials' = Nowhere /\ stack' = stack /\ calls' = calls
      /\ customized' = customized /\ variant' = variant /\ toTarget' = toTarget
  BY DEF SetTarget, Idle, customizationVars
<1>2. PICK t \in Nodes : /\ target' = t
                        /\ \E walk \in {FromTarget(t)} :
                               /\ dists' = walk.dist
                               /\ parents' = IF variant = "tree" THEN walk.parents ELSE parents
  BY DEF SetTarget
<1>3. FromTarget(t) = Walked(BackWeight, BackEdges, t, parents)
  BY DEF FromTarget, BackWeight, BackEdges
<1>0. PICK leads : leads = Walked(BackWeight, BackEdges, t, parents).parents
  OBVIOUS
<1>4. dists' = Walked(BackWeight, BackEdges, t, parents).dist /\ parents' = IF variant = "tree" THEN leads ELSE parents
  BY <1>0, <1>2, <1>3
<1>5. Passed(Back(Remaining), BackWeight, BackEdges, t, N, dists', leads)
  <2>1. parents \in [Nodes -> Nodes \cup {N}] /\ Exact(Back(Remaining), BackWeight, BackEdges)
    BY SidesAreExact DEF Types
  <2> QED BY <1>0, <1>4, <2>1, WalkedHasPassed
<1>6. Remaining' = Remaining /\ LinkWeight' = LinkWeight /\ BackWeight' = BackWeight /\ BackEdges' = BackEdges
  BY <1>1 DEF Remaining, LinkWeight, BackWeight, BackEdges
<1>7. leads \in [Nodes -> Nodes \cup {N}]
  BY <1>5 DEF Passed
<1>8. Types'
  <2>1. Nowhere \in [Nodes -> Nat \cup {None}] /\ t # None
    BY NodeFacts DEF Nowhere
  <2>2. parents' \in [Nodes -> Nodes \cup {N}]
    BY <1>4, <1>7 DEF Types
  <2> QED BY <1>1, <1>2, <2>1, <2>2 DEF Types
<1>9. Searched'
  BY <1>2, <1>5, <1>6 DEF Searched
<1>10. \A x \in Nodes : ~Known(x)'
  BY <1>1 DEF Known, Nowhere
<1>11. PotentialsAreDistances'
  BY <1>10 DEF PotentialsAreDistances, Known
<1>12. KnownAbove'
  <2>1. Len(stack') = 0
    BY <1>1
  <2> QED BY <1>10, <2>1 DEF KnownAbove
<1>13. Called'
  <2>1. calls' \in Seq(CallRecord) /\ Len(calls') = 0 /\ calls' = <<>>
    BY <1>1
  <2> QED BY <2>1 DEF Called
<1>14. Parented'
  <2> SUFFICES ASSUME variant = "tree", NEW x \in Nodes, NEW p \in Nodes \cup {N}, parents'[x] = p, dists'[x] < Inf
               PROVE  Ends(x, p)' \/ Follows(x, p, dists[x])'
    BY <1>1, <1>10 DEF Parented
  <2>1. parents' = leads
    BY <1>4
  <2>2. /\ leads[t] = t
        /\ x # t => p \in Nodes /\ <<p, x>> \in BackEdges /\ dists'[p] + BackWeight[<<p, x>>] <= dists'[x]
    BY <1>5, <2>1 DEF Passed, LedFrom
  <2>3. CASE x = t
    BY <1>2, <2>1, <2>2, <2>3 DEF Ends
  <2>4. CASE x # t
    <3>1. p \in Nodes /\ <<p, x>> \in BackEdges /\ dists'[p] + BackWeight[<<p, x>>] <= dists'[x]
      BY <2>2, <2>4
    <3>2. x \in Graph[p] /\ Neighbor(x, p)
      <4>1. x \in Graph[p]
        BY <3>1, SidesAreExact, ExactFacts
      <4> QED BY <3>1, <4>1 DEF Neighbor
    <3>3. Cost(x, p) = BackWeight[<<p, x>>] /\ Cost(x, p) \in Nat /\ Cost(x, p)' = Cost(x, p)
      BY <1>6, <3>2, CostFacts DEF Cost
    <3>4. Left(p)' = Back(Remaining)[<<t, p>>] /\ Left(p)' \in Nat
      <4>1. Left(p)' = Remaining[<<p, t>>]
        BY <1>2, <1>6 DEF Left
      <4> QED BY <3>1, <4>1, RemainingFacts
    <3>5. Left(p)' <= dists'[p] /\ dists'[p] \in Nat /\ dists'[x] \in Nat
      <4>1. dists'[p] \in Weight /\ dists'[x] \in Weight /\ Back(Remaining)[<<t, p>>] <= dists'[p]
        BY <1>5, <3>1 DEF Passed
      <4> QED BY <3>4, <4>1, InfAssumption DEF Weight
    <3>6. Cost(x, p)' + Left(p)' <= dists'[x]
      BY <3>1, <3>3, <3>4, <3>5
    <3> QED BY <3>2, <3>3, <3>6 DEF Follows, Neighbor
  <2> QED BY <2>3, <2>4
<1> QED BY <1>8, <1>9, <1>11, <1>12, <1>13, <1>14

LEMMA OnTheStack ==
    ASSUME LazyInv, stack # <<>>
    PROVE  /\ Len(stack) \in Nat \ {0} /\ Top \in Nodes /\ target \in Nodes
           /\ Front(stack) \in Seq(Nodes) /\ Len(Front(stack)) = Len(stack) - 1
           /\ \A i \in 1 .. Len(stack) - 1 : Front(stack)[i] = stack[i]
<1>1. stack \in Seq(Nodes) /\ target \in Nodes
  BY DEF LazyInv, Types, Idle
<1> QED BY <1>1, FrontFacts DEF Top

(* The top of the stack is known and leaves it.                            *)
LEMMA TopLeaves ==
    ASSUME LazyInv, stack # <<>>, stack' = Front(stack), UNCHANGED <<customizationVars, target, calls>>,
           potentials'[Top] # None, \A x \in Nodes : Known(x) => Known(x)',
           variant = "tree" => \A x \in Nodes : Known(x)' => Known(x) \/ x = Top
    PROVE  stack' \in Seq(Nodes) /\ KnownAbove' /\ Called'
<1>1. /\ Len(stack) \in Nat \ {0} /\ Top \in Nodes /\ target \in Nodes /\ Top = stack[Len(stack)]
      /\ stack' \in Seq(Nodes) /\ Len(stack') = Len(stack) - 1
      /\ \A i \in 1 .. Len(stack) - 1 : stack'[i] = stack[i]
  BY OnTheStack DEF Top
<1>2. PICK top \in Nodes : top = Top /\ (potentials'[top] # None)
  BY <1>1
<1>3. variant' = variant
  BY DEF customizationVars
<1>4. KnownAbove'
  <2> SUFFICES ASSUME variant = "tree"
               PROVE  /\ \A x \in Nodes : Known(x)' => \A y \in Graph[x] : Known(y)'
                      /\ \A i \in 1 .. Len(stack') : \A y \in Graph[stack'[i]] :
                             Known(y)' \/ \E j \in i + 1 .. Len(stack') : stack'[j] = y
    BY <1>3 DEF KnownAbove
  <2>1. \A i \in 1 .. Len(stack) : \A y \in Graph[stack[i]] : Known(y) \/ \E j \in i + 1 .. Len(stack) : stack[j] = y
    BY DEF LazyInv, KnownAbove
  <2>2. \A x \in Nodes : Graph[x] \subseteq Nodes
    BY GraphAssumption DEF Graphs
  <2>3. \A x \in Nodes : Known(x) => \A y \in Graph[x] : Known(y)'
    BY <2>2 DEF LazyInv, KnownAbove
  <2>4. \A y \in Graph[top] : Known(y)'
    <3>1. \A y \in Graph[top] : Known(y)
      <4>1. Len(stack) \in 1 .. Len(stack) /\ Len(stack) + 1 .. Len(stack) = {} /\ stack[Len(stack)] = top
        BY <1>1, <1>2
      <4> QED BY <2>1, <4>1
    <3> QED BY <2>2, <3>1
  <2>5. ASSUME NEW i \in 1 .. Len(stack'), NEW y \in Graph[stack'[i]]
        PROVE  Known(y)' \/ \E j \in i + 1 .. Len(stack') : stack'[j] = y
    <3>1. i \in 1 .. Len(stack) /\ i \in 1 .. Len(stack) - 1 /\ stack'[i] = stack[i] /\ stack[i] \in Nodes /\ y \in Nodes
      <4>1. i \in 1 .. Len(stack) - 1 /\ stack'[i] \in Nodes
        BY <1>1
      <4> QED BY <1>1, <2>2, <4>1
    <3>2. CASE Known(y)
      BY <3>1, <3>2
    <3>3. ASSUME NEW j \in i + 1 .. Len(stack), stack[j] = y PROVE Known(y)' \/ \E k \in i + 1 .. Len(stack') : stack'[k] = y
      <4>1. CASE j = Len(stack)
        <5>1. y = top
          BY <1>1, <1>2, <3>3, <4>1
        <5> QED BY <1>2, <5>1 DEF Known
      <4>2. CASE j # Len(stack)
        <5>1. j \in i + 1 .. Len(stack') /\ stack'[j] = stack[j]
          <6>1. j \in Nat /\ i + 1 <= j /\ j <= Len(stack) - 1 /\ i \in Nat /\ Len(stack) - 1 \in Nat
            <7>1. Len(stack) \in Nat /\ Len(stack) # 0 /\ i \in Nat
              BY <1>1, <3>1
            <7>2. j \in Nat /\ i + 1 <= j /\ j <= Len(stack)
              BY <3>3, <7>1
            <7> QED BY <4>2, <7>1, <7>2
          <6>2. j \in 1 .. Len(stack) - 1
            BY <6>1
          <6> QED BY <1>1, <6>1, <6>2
        <5> QED BY <3>3, <5>1
      <4> QED BY <4>1, <4>2
    <3> QED BY <2>1, <3>1, <3>2, <3>3
  <2>6. \A x \in Nodes : Known(x)' => Known(x) \/ x = top
    BY <1>2
  <2> QED BY <2>3, <2>4, <2>5, <2>6
<1>5. Called'
  <2>1. \A x \in Nodes : (Known(x) => Known(x)') /\ (Waiting(x) => Known(x)' \/ Waiting(x)')
    <3>1. ASSUME NEW x \in Nodes, NEW i \in 1 .. Len(stack), stack[i] = x PROVE Known(x)' \/ Waiting(x)'
      <4>1. CASE i = Len(stack)
        <5>1. x = top
          BY <1>1, <1>2, <3>1, <4>1
        <5> QED BY <1>2, <5>1 DEF Known
      <4>2. CASE i # Len(stack)
        <5>1. i \in 1 .. Len(stack') /\ stack'[i] = x
          BY <1>1, <3>1, <4>2
        <5> QED BY <5>1 DEF Waiting
      <4> QED BY <4>1, <4>2
    <3> QED BY <3>1 DEF Waiting
  <2>2. \A c \in CallRecord : CallFits(c) => CallFits(c)'
    <3>1. UNCHANGED <<customizationVars, target>> /\ Types
      BY DEF LazyInv
    <3> QED BY <1>1, <2>1, <3>1, FitsStill
  <2>3. PICK list : list = calls
    OBVIOUS
  <2>4. /\ variant = "stack" => list = <<>>
        /\ list \in Seq(CallRecord) /\ \A i \in 1 .. Len(list) : CallFits(list[i])
    BY <2>3 DEF LazyInv, Called
  <2>5. \A i \in 1 .. Len(list) : CallFits(list[i])'
    BY <2>2, <2>4
  <2> QED BY <1>3, <2>3, <2>4, <2>5 DEF Called
<1> QED BY <1>1, <1>4, <1>5

(* The distances that potentials are said to have.                         *)
LEMMA LeftIsDistance ==
    ASSUME target \in Nodes, NEW x \in Nodes
    PROVE  Left(x) = customized.dist[IF toTarget THEN <<x, target>> ELSE <<target, x>>]
<1>1. CASE toTarget
  BY <1>1 DEF Left, Remaining
<1>2. CASE ~toTarget
  <2>1. Remaining = Back(customized.dist)
    BY <1>2 DEF Remaining
  <2>2. Back(customized.dist)[<<x, target>>] = customized.dist[<<target, x>>]
    BY DEF Back
  <2> QED BY <1>2, <2>1, <2>2 DEF Left
<1> QED BY <1>1, <1>2

LEMMA KnownIsPopped == LazyInv /\ PopKnown => LazyInv'
<1> SUFFICES ASSUME LazyInv, PopKnown PROVE LazyInv'
  OBVIOUS
<1>1. /\ stack # <<>> /\ potentials[Top] # None /\ stack' = Front(stack)
      /\ UNCHANGED <<customizationVars, target, potentials, dists, parents, calls>>
  BY DEF PopKnown
<1>2. Searched' /\ PotentialsAreDistances' /\ Parented'
  BY <1>1, PotentialsStay
<1>3. \A x \in Nodes : Known(x)' <=> Known(x)
  BY <1>1 DEF Known
<1>4. stack' \in Seq(Nodes) /\ KnownAbove' /\ Called'
  BY <1>1, <1>3, TopLeaves
<1>5. target \in Nodes /\ target # None
  BY <1>1, OnTheStack, NodeFacts
<1>6. Types'
  BY <1>1, <1>4, <1>5 DEF LazyInv, Types, customizationVars
<1> QED BY <1>2, <1>4, <1>6 DEF LazyInv

LEMMA MissingArePushed == LazyInv /\ PushMissing => LazyInv'
<1> SUFFICES ASSUME LazyInv, PushMissing PROVE LazyInv'
  OBVIOUS
<1>1. /\ stack # <<>> /\ Missing(Top) # {} /\ stack' = stack \o Ascending(Missing(Top))
      /\ UNCHANGED <<customizationVars, target, potentials, dists, parents, calls>>
  BY DEF PushMissing
<1>2. Searched' /\ PotentialsAreDistances' /\ Parented'
  BY <1>1, PotentialsStay
<1>3. variant = "stack" /\ variant' = "stack"
  BY <1>1 DEF Missing, LazyInv, Types, customizationVars
<1>4. calls = <<>> /\ calls' = <<>>
  BY <1>1, <1>3 DEF LazyInv, Called
<1>5. Called'
  <2>1. calls' \in Seq(CallRecord) /\ Len(calls') = 0
    BY <1>4
  <2> QED BY <1>4, <2>1 DEF Called
<1>6. KnownAbove'
  BY <1>3 DEF KnownAbove
<1>7. stack' \in Seq(Nodes)
  <2>1. Missing(Top) \in SUBSET Nodes
    BY DEF Missing, Heads
  <2>2. Ascending(Missing(Top)) \in Seq(Missing(Top))
    BY <2>1, AscendingFacts
  <2>3. Ascending(Missing(Top)) \in Seq(Nodes) /\ stack \in Seq(Nodes)
    BY <2>1, <2>2 DEF LazyInv, Types
  <2> QED BY <1>1, <2>3
<1>8. target \in Nodes /\ target # None
  BY <1>1, OnTheStack, NodeFacts
<1>9. Types'
  BY <1>1, <1>7, <1>8 DEF LazyInv, Types, customizationVars
<1> QED BY <1>2, <1>5, <1>6, <1>9 DEF LazyInv

LEMMA TopIsEvaluated == LazyInv /\ EvaluateTop => LazyInv'
<1> SUFFICES ASSUME LazyInv, EvaluateTop PROVE LazyInv'
  OBVIOUS
<1>1. /\ stack # <<>> /\ potentials[Top] = None /\ Missing(Top) = {} /\ stack' = Front(stack)
      /\ UNCHANGED <<customizationVars, target, dists, calls>>
  BY DEF EvaluateTop
<1>2. PICK x \in Nodes : x = Top
  BY <1>1, OnTheStack
<1>3. PICK low : low = Min({dists[x]} \cup {Via(x, y) : y \in Heads(x)})
  OBVIOUS
<1>4. /\ potentials' = [potentials EXCEPT ![x] = low]
      /\ IF variant = "tree" /\ low < dists[x]
         THEN parents' = [parents EXCEPT ![x] = Min({y \in Heads(x) : Via(x, y) = low})]
         ELSE parents' = parents
  BY <1>2, <1>3 DEF EvaluateTop
<1>5. /\ Types /\ Searched /\ target \in Nodes /\ target # None /\ ~Known(x)
      /\ stack[Len(stack)] = x /\ Len(stack) \in Nat \ {0}
  BY <1>1, <1>2, OnTheStack, NodeFacts DEF LazyInv, Known, Top
<1>6. \A y \in Heads(x) : Known(y)
  <2>1. CASE variant = "tree"
    <3>1. Len(stack) \in 1 .. Len(stack) /\ Len(stack) + 1 .. Len(stack) = {}
      BY <1>5
    <3>2. \A y \in Graph[x] : Known(y)
      BY <1>5, <2>1, <3>1 DEF LazyInv, KnownAbove
    <3> QED BY <1>5, <3>2, HeadsFacts
  <2>2. CASE variant # "tree"
    BY <1>1, <1>2, <2>2 DEF Missing, Known
  <2> QED BY <2>1, <2>2
<1>7. \A y \in Nodes : Known(y) => potentials[y] = Left(y)
  BY <1>5, LeftIsDistance DEF LazyInv, PotentialsAreDistances, Known
<1>8. /\ low = Left(x) /\ low \in Nat /\ dists[x] \in Nat /\ low <= dists[x] /\ dists[x] <= Inf
      /\ low < dists[x] => \E y \in Heads(x) : Via(x, y) = low
  <2>1. \A y \in Heads(x) : potentials[y] = Left(y)
    BY <1>5, <1>6, <1>7, HeadsFacts
  <2> QED BY <1>3, <1>5, <2>1, EvaluatedIsLeft
<1>9. ASSUME low < dists[x]
      PROVE  \E p \in Nodes : p = Min({y \in Heads(x) : Via(x, y) = low}) /\ (low < Inf => TightLink(x, p))
  <2> DEFINE S == {y \in Heads(x) : Via(x, y) = low}
  <2>1. S \in SUBSET Nat /\ S # {}
    BY <1>5, <1>8, <1>9, HeadsFacts, NodeFacts
  <2>2. Min(S) \in S
    <3> HIDE DEF S
    <3> QED BY <2>1, LeastIsChosen
  <2>3. PICK p \in Heads(x) : p = Min(S) /\ Via(x, p) = low
    BY <2>2
  <2>4. p \in Nodes /\ Neighbor(x, p) /\ Cost(x, p) = LinkWeight[<<x, p>>] /\ LinkWeight[<<x, p>>] \in Nat
    BY <1>5, HeadsFacts
  <2>5. potentials[p] = Left(p)
    BY <1>6, <1>7, <2>4
  <2>6. Cost(x, p) + Left(p) = low
    BY <2>3, <2>4, <2>5 DEF Via
  <2>7. Cost(x, p) + Left(p) <= Left(x)
    BY <1>8, <2>6
  <2>8. low < Inf => TightLink(x, p)
    BY <1>8, <2>4, <2>7 DEF TightLink, Follows
  <2> QED BY <2>3, <2>4, <2>8
<1>10. /\ \A v \in Nodes : v # x => potentials'[v] = potentials[v] /\ parents'[v] = parents[v]
       /\ potentials'[x] = low /\ low # None
       /\ potentials' \in [Nodes -> Nat \cup {None}] /\ parents' \in [Nodes -> Nodes \cup {N}]
       /\ ~(variant = "tree" /\ low < dists[x]) => parents'[x] = parents[x]
       /\ variant = "tree" /\ low < dists[x] => parents'[x] = Min({y \in Heads(x) : Via(x, y) = low})
  <2>1. potentials \in [Nodes -> Nat \cup {None}] /\ parents \in [Nodes -> Nodes \cup {N}]
    BY <1>5 DEF Types
  <2>2. low # None
    BY <1>8 DEF None
  <2>3. /\ \A v \in Nodes : v # x => potentials'[v] = potentials[v]
        /\ potentials'[x] = low /\ potentials' \in [Nodes -> Nat \cup {None}]
    BY <1>4, <1>8, <2>1
  <2>4. CASE variant = "tree" /\ low < dists[x]
    <3>1. PICK p \in Nodes : p = Min({y \in Heads(x) : Via(x, y) = low})
      BY <1>9, <2>4
    <3>2. parents' = [parents EXCEPT ![x] = p]
      BY <1>4, <2>4, <3>1
    <3> QED BY <2>1, <2>2, <2>3, <2>4, <3>1, <3>2
  <2>5. CASE ~(variant = "tree" /\ low < dists[x])
    BY <1>4, <2>1, <2>2, <2>3, <2>5
  <2> QED BY <2>4, <2>5
<1>11. Searched'
  BY <1>1, Frame DEF LazyInv, Searched
<1>12. PotentialsAreDistances'
  <2>1. UNCHANGED <<customized, toTarget, target>>
    BY <1>1 DEF customizationVars
  <2>2. ASSUME NEW v \in Nodes, potentials'[v] # None
        PROVE  potentials'[v] = customized.dist[IF toTarget THEN <<v, target>> ELSE <<target, v>>]
    <3>1. potentials'[v] = Left(v)
      <4>1. CASE v = x
        BY <1>8, <1>10, <4>1
      <4>2. CASE v # x
        BY <1>7, <1>10, <2>2, <4>2 DEF Known
      <4> QED BY <4>1, <4>2
    <3> QED BY <1>5, <3>1, LeftIsDistance
  <2> QED BY <2>1, <2>2 DEF PotentialsAreDistances
<1>13. stack' \in Seq(Nodes) /\ KnownAbove' /\ Called'
  <2>1. potentials'[Top] # None
    BY <1>2, <1>10
  <2>2. \A v \in Nodes : (Known(v) => Known(v)') /\ (Known(v)' => Known(v) \/ v = Top)
    BY <1>2, <1>10 DEF Known
  <2> QED BY <1>1, <2>1, <2>2, TopLeaves
<1>14. Types'
  BY <1>1, <1>5, <1>10, <1>13 DEF Types, customizationVars
<1>15. Parented'
  <2>1. variant' = variant /\ target' = target /\ dists' = dists
    BY <1>1 DEF customizationVars
  <2>2. ASSUME variant = "tree", NEW v \in Nodes, NEW p \in Nodes \cup {N}, parents'[v] = p
        PROVE  /\ Known(v)' /\ potentials'[v] < Inf => Ends(v, p)' \/ TightLink(v, p)'
               /\ ~Known(v)' /\ dists'[v] < Inf => Ends(v, p)' \/ Follows(v, p, dists[v])'
    <3>1. /\ (TightLink(v, p)' <=> TightLink(v, p)) /\ (Ends(v, p)' <=> Ends(v, p))
          /\ (Follows(v, p, dists[v])' <=> Follows(v, p, dists[v]))
      BY <1>1, <2>1, Frame
    <3>2. CASE v # x
      <4>1. parents[v] = p /\ potentials'[v] = potentials[v] /\ (Known(v)' <=> Known(v))
        BY <1>10, <2>2, <3>2 DEF Known
      <4> QED BY <1>5, <2>1, <2>2, <3>1, <4>1 DEF LazyInv, Parented
    <3>3. CASE v = x
      <4>1. Known(v)' /\ potentials'[v] = low
        BY <1>10, <3>3 DEF Known
      <4>2. ASSUME low < Inf PROVE Ends(v, p) \/ TightLink(v, p)
        <5>1. CASE low < dists[x]
          BY <1>9, <1>10, <2>2, <3>3, <4>2, <5>1
        <5>2. CASE ~(low < dists[x])
          <6>1. parents[x] = p /\ dists[x] = Left(x) /\ dists[x] < Inf
            BY <1>8, <1>10, <2>2, <3>3, <4>2, <5>2
          <6>2. Ends(x, p) \/ Follows(x, p, dists[x])
            BY <1>5, <2>2, <6>1 DEF LazyInv, Parented
          <6> QED BY <3>3, <6>1, <6>2 DEF TightLink
        <5> QED BY <5>1, <5>2
      <4> QED BY <3>1, <4>1, <4>2
    <3> QED BY <3>2, <3>3
  <2> QED BY <2>1, <2>2 DEF Parented
<1> QED BY <1>11, <1>12, <1>13, <1>14, <1>15 DEF LazyInv

-----------------------------------------------------------------------------
(* The potential of a node is asked for.                                   *)
LEMMA PathIsPushed ==
    ASSUME Types, KnownAbove, variant = "tree", NEW x \in Nodes, stack' = PathTo(x),
           UNCHANGED <<customizationVars, potentials>>
    PROVE  stack' \in Seq(Nodes) /\ KnownAbove' /\ (Known(x)' \/ Waiting(x)')
<1>1. PICK list : list = PathTo(x)
  OBVIOUS
<1>2. /\ list \in Seq(Nodes)
      /\ Known(x) \/ \E i \in 1 .. Len(list) : list[i] = x
      /\ \A i \in 1 .. Len(list) : \A y \in Graph[list[i]] : Known(y) \/ \E j \in i + 1 .. Len(list) : list[j] = y
  <2>1. Climbs(x, list)
    BY <1>1, PathFits, Zenon
  <2> QED BY <2>1 DEF Climbs
<1>3. stack' = list /\ potentials' = potentials /\ variant' = variant
  BY <1>1 DEF customizationVars
<1>4. KnownAbove'
  BY <1>2, <1>3 DEF KnownAbove, Known
<1> QED BY <1>2, <1>3, <1>4 DEF Known, Waiting

LEMMA PotentialIsAsked == LazyInv /\ Ask => LazyInv'
<1> SUFFICES ASSUME LazyInv, Ask PROVE LazyInv'
  OBVIOUS
<1>1. /\ calls = <<>> /\ target # None
      /\ UNCHANGED <<customizationVars, target, potentials, dists, parents, calls>>
  BY DEF Ask, Idle
<1>2. PICK x \in Nodes : stack' = IF variant = "tree" THEN PathTo(x) ELSE <<x>>
  BY DEF Ask
<1>3. Searched' /\ PotentialsAreDistances' /\ Parented'
  BY <1>1, PotentialsStay
<1>4. stack' \in Seq(Nodes) /\ KnownAbove'
  <2>1. CASE variant = "tree"
    BY <1>1, <1>2, <2>1, PathIsPushed DEF LazyInv
  <2>2. CASE variant # "tree"
    <3>1. variant' # "tree"
      BY <1>1, <2>2 DEF customizationVars
    <3> QED BY <1>2, <2>2, <3>1 DEF KnownAbove
  <2> QED BY <2>1, <2>2
<1>5. Called'
  <2>1. calls' = <<>> /\ calls' \in Seq(CallRecord) /\ Len(calls') = 0
    BY <1>1
  <2> QED BY <2>1 DEF Called
<1>6. Types'
  BY <1>1, <1>4 DEF LazyInv, Types, customizationVars
<1> QED BY <1>3, <1>4, <1>5, <1>6 DEF LazyInv

(* The step of a call, which asks for a potential or for none.             *)
LEMMA HereFacts ==
    ASSUME LazyInv, calls # <<>>, stack = <<>>
    PROVE  /\ Here \in CallRecord /\ CallFits(Here) /\ variant = "tree" /\ target \in Nodes /\ target # None
           /\ \A x \in Nodes : ~Waiting(x)
<1>1. /\ variant = "tree" /\ target \in Nodes /\ target # None /\ calls \in Seq(CallRecord)
      /\ \A i \in 1 .. Len(calls) : CallFits(calls[i])
  BY NodeFacts DEF LazyInv, Types, Called, Idle
<1>2. Len(calls) \in Nat \ {0} /\ Len(calls) \in 1 .. Len(calls) /\ calls[Len(calls)] \in CallRecord
  BY <1>1, FrontFacts
<1>3. \A x \in Nodes : ~Waiting(x)
  <2>1. Len(stack) = 0
    OBVIOUS
  <2> QED BY <2>1 DEF Waiting
<1> QED BY <1>1, <1>2, <1>3 DEF Here

LEMMA LastCalls ==
    ASSUME LazyInv, calls # <<>>, stack = <<>>, UNCHANGED <<customizationVars, target, potentials>>
    PROVE  /\ calls' = Outer => Called'
           /\ \A c \in CallRecord : CallFits(c)' /\ calls' = Append(Outer, c) => Called'
           /\ \A c, d \in CallRecord : CallFits(c)' /\ CallFits(d)' /\ calls' = Outer \o <<c, d>> => Called'
<1>1. variant = "tree" /\ target \in Nodes /\ Types /\ Called
  BY HereFacts DEF LazyInv
<1>2. calls \in Seq(CallRecord) /\ Outer \in Seq(CallRecord)
  <2>1. calls \in Seq(CallRecord)
    BY <1>1 DEF Called
  <2> QED BY <2>1, FrontFacts DEF Outer
<1>3. ASSUME NEW more \in Seq(CallRecord), \A i \in 1 .. Len(more) : CallFits(more[i])', calls' = Outer \o more
      PROVE  Called'
  BY <1>1, <1>3, MoreCalls
<1>4. ASSUME calls' = Outer PROVE Called'
  <2>1. PICK more : more = <<>>
    OBVIOUS
  <2>2. more \in Seq(CallRecord) /\ Len(more) = 0 /\ Outer \o more = Outer
    BY <1>2, <2>1
  <2>3. calls' = Outer \o more
    BY <1>4, <2>2, Zenon
  <2>4. \A i \in 1 .. Len(more) : CallFits(more[i])'
    <3>1. 1 .. Len(more) = {}
      BY <2>2
    <3> QED BY <3>1
  <2> QED BY <1>3, <2>2, <2>3, <2>4
<1>5. ASSUME NEW c \in CallRecord, CallFits(c)', calls' = Append(Outer, c) PROVE Called'
  <2>1. PICK more : more = <<c>>
    OBVIOUS
  <2>2. more \in Seq(CallRecord) /\ Len(more) = 1 /\ more[1] = c /\ Outer \o more = Append(Outer, c)
    BY <1>2, <2>1
  <2>3. \A i \in 1 .. Len(more) : more[i] = c
    BY <2>2
  <2>4. \A i \in 1 .. Len(more) : CallFits(more[i])'
    BY <1>5, <2>3
  <2> QED BY <1>3, <1>5, <2>2, <2>4
<1>6. ASSUME NEW c \in CallRecord, NEW d \in CallRecord, CallFits(c)', CallFits(d)', calls' = Outer \o <<c, d>> PROVE Called'
  <2>1. PICK more : more = <<c, d>>
    OBVIOUS
  <2>2. more \in Seq(CallRecord) /\ Len(more) = 2 /\ more[1] = c /\ more[2] = d
    BY <2>1
  <2>3. \A i \in 1 .. Len(more) : more[i] = c \/ more[i] = d
    BY <2>2
  <2>4. \A i \in 1 .. Len(more) : CallFits(more[i])'
    BY <1>6, <2>3
  <2>5. calls' = Outer \o more
    BY <1>6, <2>1, Zenon
  <2> QED BY <1>3, <2>2, <2>4, <2>5
<1> QED BY <1>4, <1>5, <1>6

(* A new call.                                                             *)
LEMMA NewCall ==
    ASSUME NEW x \in Nodes, Left(x) < Inf, UNCHANGED <<customizationVars, target>>
    PROVE  Call(x) \in CallRecord /\ CallFits(Call(x))'
<1>1. Call(x).node = x /\ Call(x).parent = None /\ Call(x).done = "nothing"
  BY DEF Call
<1>2. Call(x) \in CallRecord
  BY DEF Call, CallRecord
<1>3. Left(Call(x).node)' < Inf
  <2>1. Left(x)' < Inf
    BY Frame
  <2> QED BY <1>1, <2>1
<1> QED BY <1>1, <1>2, <1>3 DEF CallFits

LEMMA PathIsAsked == LazyInv /\ AskPath => LazyInv'
<1> SUFFICES ASSUME LazyInv, AskPath PROVE LazyInv'
  OBVIOUS
<1>1. /\ variant = "tree" /\ stack = <<>> /\ calls = <<>> /\ target # None /\ target \in Nodes
      /\ UNCHANGED <<customizationVars, target, potentials, dists, parents, unpacked, stack>>
  BY DEF AskPath, Idle, LazyInv, Types
<1>2. PICK x \in Nodes : potentials[x] \notin {None, Inf} /\ calls' = <<Call(x)>>
  BY DEF AskPath
<1>3. Searched' /\ PotentialsAreDistances' /\ Parented' /\ KnownAbove'
  BY <1>1, PotentialsStay
<1>4. Left(x) < Inf
  <2>1. potentials[x] = Left(x)
    BY <1>1, <1>2, LeftIsDistance DEF LazyInv, PotentialsAreDistances
  <2>2. Left(x) \in Nat /\ Left(x) <= Inf
    BY <1>1, RemainingFacts DEF LazyInv, Left
  <2> QED BY <1>2, <2>1, <2>2, InfAssumption
<1>5. Called'
  <2>1. PICK c \in CallRecord : c = Call(x) /\ CallFits(c)'
    BY <1>1, <1>4, NewCall
  <2>2. calls' = <<c>> /\ calls' \in Seq(CallRecord) /\ \A i \in 1 .. Len(calls') : calls'[i] = c
    BY <1>2, <2>1
  <2>3. variant' = "tree"
    BY <1>1 DEF customizationVars
  <2>4. PICK list : list = <<c>>
    OBVIOUS
  <2>5. calls' = list /\ list \in Seq(CallRecord) /\ \A i \in 1 .. Len(list) : CallFits(list[i])'
    <3>1. \A i \in 1 .. Len(list) : list[i] = c
      BY <2>4
    <3>2. \A i \in 1 .. Len(list) : CallFits(list[i])'
      BY <2>1, <3>1
    <3> QED BY <2>2, <2>4, <3>2
  <2> QED BY <2>3, <2>5 DEF Called
<1>6. Types'
  BY <1>1 DEF LazyInv, Types, customizationVars
<1> QED BY <1>3, <1>5, <1>6 DEF LazyInv

-----------------------------------------------------------------------------
(* The steps of the last call.                                             *)
LEMMA CallChanges ==
    ASSUME NEW c \in CallRecord, NEW d \in CallRecord, d.node = c.node, d.parent = c.parent
    PROVE  MiddleOf(d) = MiddleOf(c)
BY DEF MiddleOf

LEMMA CallIsEntered == LazyInv /\ Enter => LazyInv'
<1> SUFFICES ASSUME LazyInv, Enter PROVE LazyInv'
  OBVIOUS
<1>1. /\ stack = <<>> /\ calls # <<>> /\ Here.done = "nothing"
      /\ UNCHANGED <<customizationVars, target, potentials, dists, parents, unpacked>>
  BY DEF Enter, Running
<1>2. PICK c \in CallRecord : c = Here /\ CallFits(c)
  BY <1>1, HereFacts
<1>3. variant = "tree" /\ target \in Nodes /\ target # None /\ c.node \in Nodes
  BY <1>1, HereFacts DEF CallRecord
<1>4. Searched' /\ PotentialsAreDistances' /\ Parented'
  BY <1>1, PotentialsStay
<1>5. CASE c.node \in unpacked
  <2>1. calls' = Outer /\ stack' = stack
    BY <1>2, <1>5 DEF Enter
  <2>2. Called' /\ KnownAbove'
    BY <1>1, <2>1, LastCalls, PotentialsStay
  <2>3. Types'
    BY <1>1, <1>3, <2>1 DEF LazyInv, Types, customizationVars
  <2> QED BY <1>4, <2>2, <2>3 DEF LazyInv
<1>6. CASE c.node \notin unpacked
  <2>1. PICK d : d = [c EXCEPT !.done = "potential"]
    OBVIOUS
  <2>2. d \in CallRecord /\ d.node = c.node /\ d.parent = c.parent /\ d.done = "potential"
    BY <2>1 DEF CallRecord
  <2>3. calls' = Append(Outer, d) /\ stack' = PathTo(c.node)
    BY <1>2, <1>6, <2>1 DEF Enter
  <2>4. stack' \in Seq(Nodes) /\ KnownAbove' /\ (Known(c.node)' \/ Waiting(c.node)')
    BY <1>1, <1>3, <2>3, PathIsPushed DEF LazyInv
  <2>5. CallFits(d)'
    <3>1. Left(d.node)' < Inf
      BY <1>1, <1>2, <2>2, Frame DEF CallFits
    <3> QED BY <2>2, <2>4, <3>1 DEF CallFits
  <2>6. Called'
    BY <1>1, <2>2, <2>3, <2>5, LastCalls
  <2>7. Types'
    BY <1>1, <1>3, <2>4 DEF LazyInv, Types, customizationVars
  <2> QED BY <1>4, <2>4, <2>6, <2>7 DEF LazyInv
<1> QED BY <1>5, <1>6

LEMMA ParentIsRead == LazyInv /\ ReadParent => LazyInv'
<1> SUFFICES ASSUME LazyInv, ReadParent PROVE LazyInv'
  OBVIOUS
<1>1. /\ stack = <<>> /\ calls # <<>> /\ Here.done = "potential"
      /\ UNCHANGED <<customizationVars, target, potentials, dists, parents>>
  BY DEF ReadParent, Running
<1>2. PICK c \in CallRecord : c = Here /\ CallFits(c)
  BY <1>1, HereFacts
<1>3. variant = "tree" /\ target \in Nodes /\ target # None /\ c.node \in Nodes /\ c.done = "potential"
  BY <1>1, <1>2, HereFacts DEF CallRecord
<1>4. Searched' /\ PotentialsAreDistances' /\ Parented'
  BY <1>1, PotentialsStay
<1>5. PICK p \in Nodes \cup {N} : p = parents[c.node]
  BY <1>3 DEF LazyInv, Types
<1>6. CASE p = c.node /\ calls' = Outer /\ stack' = stack
  <2>1. Called' /\ KnownAbove'
    BY <1>1, <1>6, LastCalls, PotentialsStay
  <2>2. Types'
    BY <1>1, <1>3, <1>6 DEF LazyInv, Types, customizationVars
  <2> QED BY <1>4, <2>1, <2>2 DEF LazyInv
<1>7. CASE p # c.node /\ calls' = Append(Outer, [c EXCEPT !.parent = p, !.done = "read"]) /\ stack' = PathTo(p)
  <2>1. Known(c.node) /\ Left(c.node) < Inf
    BY <1>1, <1>2, <1>3, HereFacts DEF CallFits
  <2>2. potentials[c.node] < Inf
    BY <1>3, <2>1, LeftIsDistance DEF LazyInv, PotentialsAreDistances, Known
  <2>3. TightLink(c.node, p)
    <3>1. Ends(c.node, p) \/ TightLink(c.node, p)
      BY <1>3, <1>5, <2>1, <2>2 DEF LazyInv, Parented
    <3> QED BY <1>7, <3>1 DEF Ends
  <2>4. p \in Nodes
    BY <2>3 DEF TightLink, Follows, Neighbor
  <2>5. PICK d : d = [c EXCEPT !.parent = p, !.done = "read"]
    OBVIOUS
  <2>6. d \in CallRecord /\ d.node = c.node /\ d.parent = p /\ d.done = "read"
    BY <2>4, <2>5 DEF CallRecord
  <2>7. stack' \in Seq(Nodes) /\ KnownAbove'
    BY <1>1, <1>3, <1>7, <2>4, PathIsPushed DEF LazyInv
  <2>8. CallFits(d)'
    <3>1. Left(d.node)' < Inf
      BY <1>1, <2>1, <2>6, Frame
    <3>2. Known(d.node)'
      BY <1>1, <2>1, <2>6 DEF Known
    <3>3. TightLink(d.node, d.parent)'
      BY <1>1, <2>3, <2>6, Frame
    <3> QED BY <2>6, <3>1, <3>2, <3>3 DEF CallFits
  <2>9. Called'
    BY <1>1, <1>7, <2>5, <2>6, <2>8, LastCalls
  <2>10. Types'
    BY <1>1, <1>3, <2>7 DEF LazyInv, Types, customizationVars
  <2> QED BY <1>4, <2>7, <2>9, <2>10 DEF LazyInv
<1>8. \/ p = c.node /\ calls' = Outer /\ stack' = stack
      \/ p # c.node /\ calls' = Append(Outer, [c EXCEPT !.parent = p, !.done = "read"]) /\ stack' = PathTo(p)
  BY <1>2, <1>5 DEF ReadParent, Leave
<1> QED BY <1>6, <1>7, <1>8

(* A call that goes on, perhaps with one for another node.                 *)
LEMMA CallGoesOn ==
    ASSUME LazyInv, stack = <<>>, calls # <<>>, UNCHANGED <<customizationVars, target, potentials>>,
           NEW c \in CallRecord, c = Here, c.done \in {"read", "parent", "middle", "edge", "all"},
           NEW done \in {"read", "parent", "edge", "all"}, NEW d, d = [c EXCEPT !.done = done]
    PROVE  d \in CallRecord /\ d.node = c.node /\ d.parent = c.parent /\ d.done = done /\ CallFits(d)'
<1>1. d \in CallRecord /\ d.node = c.node /\ d.parent = c.parent /\ d.done = done
  BY DEF CallRecord
<1>2. CallFits(c)
  BY HereFacts
<1>3. Left(d.node)' < Inf /\ Known(d.node)' /\ TightLink(d.node, d.parent)'
  <2>1. Left(d.node) < Inf /\ Known(d.node) /\ TightLink(d.node, d.parent)
    BY <1>1, <1>2 DEF CallFits
  <2>2. UNCHANGED <<customizationVars, target>> /\ potentials' = potentials
    OBVIOUS
  <2> QED BY <2>1, <2>2, Frame DEF Known
<1> QED BY <1>1, <1>3 DEF CallFits

LEMMA ParentIsUnpacked == LazyInv /\ UnpackParent => LazyInv'
<1> SUFFICES ASSUME LazyInv, UnpackParent PROVE LazyInv'
  OBVIOUS
<1>1. /\ stack = <<>> /\ calls # <<>> /\ Here.done = "read"
      /\ UNCHANGED <<customizationVars, target, potentials, dists, parents, unpacked, stack>>
  BY DEF UnpackParent, Running
<1>2. PICK c \in CallRecord : c = Here /\ CallFits(c) /\ c.done = "read"
  BY <1>1, HereFacts
<1>3. PICK d : d = [c EXCEPT !.done = "parent"]
  OBVIOUS
<1>4. d \in CallRecord /\ CallFits(d)'
  BY <1>1, <1>2, <1>3, CallGoesOn
<1>5. target \in Nodes /\ TightLink(c.node, c.parent) /\ c.node \in Nodes
  BY <1>1, <1>2, HereFacts DEF CallFits, CallRecord
<1>6. c.parent \in Nodes /\ Left(c.parent) < Inf
  BY <1>5, TightFacts DEF LazyInv
<1>7. PICK k \in CallRecord : k = Call(c.parent) /\ CallFits(k)'
  BY <1>1, <1>6, NewCall
<1>8. calls' = Outer \o <<d, k>>
  BY <1>2, <1>3, <1>7 DEF UnpackParent
<1>9. Called'
  BY <1>1, <1>4, <1>7, <1>8, LastCalls
<1>10. Types'
  BY <1>1, <1>5, NodeFacts DEF LazyInv, Types, customizationVars
<1> QED BY <1>1, <1>9, <1>10, PotentialsStay DEF LazyInv

LEMMA EdgeIsRead == LazyInv /\ ReadEdge => LazyInv'
<1> SUFFICES ASSUME LazyInv, ReadEdge PROVE LazyInv'
  OBVIOUS
<1>1. /\ stack = <<>> /\ calls # <<>> /\ Here.done = "parent"
      /\ UNCHANGED <<customizationVars, target, potentials, dists>>
  BY DEF ReadEdge, Running
<1>2. PICK c \in CallRecord : c = Here /\ CallFits(c) /\ c.done = "parent"
  BY <1>1, HereFacts
<1>3. /\ variant = "tree" /\ target \in Nodes /\ target # None /\ c.node \in Nodes
      /\ Known(c.node) /\ TightLink(c.node, c.parent) /\ Left(c.node) < Inf
  BY <1>1, <1>2, HereFacts DEF CallFits, CallRecord
<1>4. Searched' /\ PotentialsAreDistances'
  BY <1>1, PotentialsStay
<1>5. PICK middle : middle = MiddleOf(c)
  OBVIOUS
<1>6. CASE middle = None
  <2>1. calls' = Outer /\ parents' = parents /\ stack' = stack
    BY <1>2, <1>5, <1>6 DEF ReadEdge, Leave
  <2>2. Called' /\ KnownAbove' /\ Parented'
    BY <1>1, <2>1, LastCalls, PotentialsStay
  <2>3. Types'
    BY <1>1, <1>3, <2>1 DEF LazyInv, Types, customizationVars
  <2> QED BY <1>4, <2>2, <2>3 DEF LazyInv
<1>7. CASE middle # None
  <2>1. middle \in Nodes /\ TightLink(c.node, middle)
    BY <1>3, <1>5, <1>7, MiddleIsTight DEF LazyInv
  <2>2. parents' = [parents EXCEPT ![c.node] = middle]
    BY <1>2, <1>5, <1>7 DEF ReadEdge
  <2>3. Parented' /\ parents' \in [Nodes -> Nodes \cup {N}]
    BY <1>1, <1>3, <2>1, <2>2, ParentIsSet
  <2>4. CASE middle \in unpacked
    <3>1. PICK d : d = [c EXCEPT !.done = "edge"]
      OBVIOUS
    <3>2. calls' = Append(Outer, d) /\ stack' = stack
      BY <1>2, <1>5, <1>7, <2>4, <3>1 DEF ReadEdge
    <3>3. d \in CallRecord /\ CallFits(d)'
      BY <1>1, <1>2, <3>1, CallGoesOn
    <3>4. Called' /\ KnownAbove'
      BY <1>1, <3>2, <3>3, LastCalls, PotentialsStay
    <3>5. Types'
      BY <1>1, <1>3, <2>3, <3>2 DEF LazyInv, Types, customizationVars
    <3> QED BY <1>4, <2>3, <3>4, <3>5 DEF LazyInv
  <2>5. CASE middle \notin unpacked
    <3>1. PICK d : d = [c EXCEPT !.done = "middle"]
      OBVIOUS
    <3>2. calls' = Append(Outer, d) /\ stack' = PathTo(middle)
      BY <1>2, <1>5, <1>7, <2>5, <3>1 DEF ReadEdge
    <3>3. d \in CallRecord /\ d.node = c.node /\ d.parent = c.parent /\ d.done = "middle"
      BY <3>1 DEF CallRecord
    <3>4. stack' \in Seq(Nodes) /\ KnownAbove' /\ (Known(middle)' \/ Waiting(middle)')
      BY <1>1, <1>3, <2>1, <3>2, PathIsPushed DEF LazyInv
    <3>5. Left(d.node)' < Inf /\ Known(d.node)' /\ TightLink(d.node, d.parent)' /\ MiddleOf(d)' = middle
      <4>1. Left(d.node) < Inf /\ Known(d.node) /\ TightLink(d.node, d.parent) /\ MiddleOf(d) = middle
        BY <1>3, <1>5, <3>3, CallChanges
      <4> QED BY <1>1, <4>1, Frame DEF Known
    <3>6. CallFits(d)'
      <4>1. MiddleOf(d)' # None /\ (Known(MiddleOf(d)) \/ Waiting(MiddleOf(d)))'
        BY <1>7, <3>4, <3>5 DEF Known, Waiting
      <4> QED BY <3>3, <3>5, <4>1 DEF CallFits
    <3>7. Called'
      BY <1>1, <3>2, <3>3, <3>6, LastCalls
    <3>8. Types'
      BY <1>1, <1>3, <2>3, <3>4 DEF LazyInv, Types, customizationVars
    <3> QED BY <1>4, <2>3, <3>4, <3>7, <3>8 DEF LazyInv
  <2> QED BY <2>4, <2>5
<1> QED BY <1>6, <1>7

LEMMA MiddleIsUnpacked == LazyInv /\ UnpackMiddle => LazyInv'
<1> SUFFICES ASSUME LazyInv, UnpackMiddle PROVE LazyInv'
  OBVIOUS
<1>1. /\ stack = <<>> /\ calls # <<>> /\ Here.done = "middle"
      /\ UNCHANGED <<customizationVars, target, potentials, dists, unpacked, stack>>
  BY DEF UnpackMiddle, Running
<1>2. PICK c \in CallRecord : c = Here /\ CallFits(c) /\ c.done = "middle"
  BY <1>1, HereFacts
<1>3. PICK middle : middle = MiddleOf(c)
  OBVIOUS
<1>4. /\ target \in Nodes /\ target # None /\ c.node \in Nodes /\ TightLink(c.node, c.parent)
      /\ middle # None /\ (Known(middle) \/ Waiting(middle))
  BY <1>1, <1>2, <1>3, HereFacts DEF CallFits, CallRecord
<1>5. middle \in Nodes /\ TightLink(middle, c.parent) /\ c.parent \in Nodes /\ Left(middle) < Inf
  <2>1. middle \in Nodes /\ TightLink(middle, c.parent)
    BY <1>3, <1>4, MiddleIsTight DEF LazyInv
  <2> QED BY <2>1 DEF TightLink, Follows, Neighbor
<1>6. Known(middle)
  BY <1>1, <1>4, <1>5, HereFacts
<1>7. parents' = [parents EXCEPT ![middle] = c.parent]
  BY <1>2, <1>3 DEF UnpackMiddle
<1>8. Parented' /\ parents' \in [Nodes -> Nodes \cup {N}]
  BY <1>1, <1>5, <1>6, <1>7, ParentIsSet
<1>9. PICK d : d = [c EXCEPT !.done = "edge"]
  OBVIOUS
<1>10. d \in CallRecord /\ CallFits(d)'
  BY <1>1, <1>2, <1>9, CallGoesOn
<1>11. PICK k \in CallRecord : k = Call(middle) /\ CallFits(k)'
  BY <1>1, <1>5, NewCall
<1>12. calls' = Outer \o <<d, k>>
  BY <1>2, <1>3, <1>9, <1>11 DEF UnpackMiddle
<1>13. Called'
  BY <1>1, <1>10, <1>11, <1>12, LastCalls
<1>14. Types'
  BY <1>1, <1>4, <1>8 DEF LazyInv, Types, customizationVars
<1> QED BY <1>1, <1>8, <1>13, <1>14, PotentialsStay DEF LazyInv

LEMMA NodeIsUnpackedAgain == LazyInv /\ UnpackAgain => LazyInv'
<1> SUFFICES ASSUME LazyInv, UnpackAgain PROVE LazyInv'
  OBVIOUS
<1>1. /\ stack = <<>> /\ calls # <<>> /\ Here.done = "edge"
      /\ UNCHANGED <<customizationVars, target, potentials, dists, parents, unpacked, stack>>
  BY DEF UnpackAgain, Running
<1>2. PICK c \in CallRecord : c = Here /\ CallFits(c) /\ c.done = "edge"
  BY <1>1, HereFacts
<1>3. PICK d : d = [c EXCEPT !.done = "all"]
  OBVIOUS
<1>4. d \in CallRecord /\ CallFits(d)'
  BY <1>1, <1>2, <1>3, CallGoesOn
<1>5. target \in Nodes /\ c.node \in Nodes /\ Left(c.node) < Inf
  BY <1>1, <1>2, HereFacts DEF CallFits, CallRecord
<1>6. PICK k \in CallRecord : k = Call(c.node) /\ CallFits(k)'
  BY <1>1, <1>5, NewCall
<1>7. calls' = Outer \o <<d, k>>
  BY <1>2, <1>3, <1>6 DEF UnpackAgain
<1>8. Called'
  BY <1>1, <1>4, <1>6, <1>7, LastCalls
<1>9. Types'
  BY <1>1, <1>5, NodeFacts DEF LazyInv, Types, customizationVars
<1> QED BY <1>1, <1>8, <1>9, PotentialsStay DEF LazyInv

LEMMA CallIsLeft == LazyInv /\ LeaveCall => LazyInv'
<1> SUFFICES ASSUME LazyInv, LeaveCall PROVE LazyInv'
  OBVIOUS
<1>1. /\ stack = <<>> /\ calls # <<>> /\ calls' = Outer
      /\ UNCHANGED <<customizationVars, target, potentials, dists, parents, stack>>
  BY DEF LeaveCall, Running, Leave
<1>2. Called'
  BY <1>1, LastCalls
<1>3. Types'
  <2>1. target # None
    BY <1>1, HereFacts
  <2> QED BY <1>1, <2>1 DEF LazyInv, Types, customizationVars
<1> QED BY <1>1, <1>2, <1>3, PotentialsStay DEF LazyInv

LEMMA LazyStep ==
    ASSUME LazyInv, [NextPotential]_potentialVars
    PROVE  LazyInv'
<1>1. CASE SetTarget
  BY <1>1, TargetIsSet
<1>2. CASE Ask
  BY <1>2, PotentialIsAsked
<1>3. CASE AskPath
  BY <1>3, PathIsAsked
<1>4. CASE PopKnown
  BY <1>4, KnownIsPopped
<1>5. CASE PushMissing
  BY <1>5, MissingArePushed
<1>6. CASE EvaluateTop
  BY <1>6, TopIsEvaluated
<1>7. CASE Enter
  BY <1>7, CallIsEntered
<1>8. CASE ReadParent
  BY <1>8, ParentIsRead
<1>9. CASE UnpackParent
  BY <1>9, ParentIsUnpacked
<1>10. CASE ReadEdge
  BY <1>10, EdgeIsRead
<1>11. CASE UnpackMiddle
  BY <1>11, MiddleIsUnpacked
<1>12. CASE UnpackAgain
  BY <1>12, NodeIsUnpackedAgain
<1>13. CASE LeaveCall
  BY <1>13, CallIsLeft
<1>14. CASE UNCHANGED potentialVars
  <2>1. UNCHANGED <<customizationVars, target, potentials, dists, parents, unpacked, stack, calls>>
    BY <1>14 DEF potentialVars
  <2>2. Searched' /\ PotentialsAreDistances' /\ Parented' /\ KnownAbove'
    BY <2>1, PotentialsStay
  <2>3. Types'
    BY <2>1 DEF LazyInv, Types, customizationVars, Idle
  <2>4. Called'
    BY <2>1, Frame DEF LazyInv, Called, CallFits, Known, Waiting, customizationVars
  <2> QED BY <2>2, <2>3, <2>4 DEF LazyInv
<1> QED
  BY <1>1, <1>2, <1>3, <1>4, <1>5, <1>6, <1>7, <1>8, <1>9, <1>10, <1>11, <1>12, <1>13, <1>14 DEF NextPotential, Compute

(* Every known potential is the distance to, or from, the target.          *)
THEOREM PotentialsAreExact == SpecPotential => []PotentialsAreDistances
<1>1. LazyInv => PotentialsAreDistances
  BY DEF LazyInv
<1> QED BY InitLazy, LazyStep, <1>1, PTL DEF SpecPotential

-----------------------------------------------------------------------------
(* The paths that are unpacked.  A call only waits for calls of nodes that *)
(* come later on a shortest path than its own, so none of them unpacks its *)
(* node, or gives it another parent.                                       *)

(* The middle node for which the edge on a path from x to y stands.        *)
EdgeMiddle(x, y) == IF toTarget THEN Middle(customized, x, y) ELSE Middle(customized, y, x)

(* A shortest path from x leads over y.                                    *)
On(x, y) == Left(x) < Inf /\ Remaining[<<x, y>>] + Left(y) <= Left(x)

(* Only without cycles of length 0 does it never lead back.                *)
LEMMA OnFacts ==
    ASSUME Types, target \in Nodes
    PROVE  /\ \A x \in Nodes : Left(x) < Inf => On(x, x)
           /\ \A x, y \in Nodes : TightLink(x, y) => On(x, y)
           /\ \A x, y, z \in Nodes : On(x, y) /\ On(y, z) => On(x, z)
           /\ ~ZeroCycles => \A x, y \in Nodes : ~(TightLink(x, y) /\ On(y, x))
<1>1. /\ \A x \in Nodes : Left(x) \in Nat
      /\ \A x, y \in Nodes : Remaining[<<x, y>>] \in Nat
      /\ \A x \in Nodes : Remaining[<<x, x>>] = 0
      /\ \A x, y, z \in Nodes : Remaining[<<x, z>>] <= Remaining[<<x, y>>] + Remaining[<<y, z>>]
  BY RemainingFacts DEF Left
<1>2. \A x \in Nodes : Left(x) < Inf => On(x, x)
  BY <1>1 DEF On
<1>3. ASSUME NEW x \in Nodes, NEW y \in Nodes, TightLink(x, y)
      PROVE  Left(x) < Inf /\ Neighbor(x, y) /\ Cost(x, y) \in Nat /\ Cost(x, y) + Left(y) <= Left(x) /\ Remaining[<<x, y>>] <= Cost(x, y)
  <2>1. Left(x) < Inf /\ Neighbor(x, y) /\ Cost(x, y) \in Nat /\ Cost(x, y) + Left(y) <= Left(x)
    BY <1>3 DEF TightLink, Follows
  <2> QED BY <2>1, CostFacts
<1>4. ASSUME NEW x \in Nodes, NEW y \in Nodes, TightLink(x, y) PROVE On(x, y)
  <2>1. PICK c \in Nat : c = Cost(x, y) /\ c + Left(y) <= Left(x) /\ Remaining[<<x, y>>] <= c /\ Left(x) < Inf
    BY <1>3, <1>4
  <2>2. Remaining[<<x, y>>] \in Nat /\ Left(x) \in Nat /\ Left(y) \in Nat
    BY <1>1
  <2> QED BY <2>1, <2>2 DEF On
<1>5. ASSUME NEW x \in Nodes, NEW y \in Nodes, NEW z \in Nodes, On(x, y), On(y, z) PROVE On(x, z)
  <2>1. /\ Left(x) \in Nat /\ Left(y) \in Nat /\ Left(z) \in Nat
        /\ Remaining[<<x, y>>] \in Nat /\ Remaining[<<y, z>>] \in Nat /\ Remaining[<<x, z>>] \in Nat
        /\ Remaining[<<x, z>>] <= Remaining[<<x, y>>] + Remaining[<<y, z>>]
    BY <1>1
  <2> QED BY <1>5, <2>1 DEF On
<1>6. ASSUME NEW x \in Nodes, NEW y \in Nodes, TightLink(x, y), On(y, x) PROVE ZeroCycles
  <2>1. PICK c \in Nat : c + Left(y) <= Left(x) /\ Remaining[<<x, y>>] <= c
    BY <1>3, <1>6
  <2>2. Remaining[<<y, x>>] + Left(x) <= Left(y)
    BY <1>6 DEF On
  <2>3. Remaining[<<x, y>>] = 0 /\ Remaining[<<y, x>>] = 0
    <3>1. Left(x) \in Nat /\ Left(y) \in Nat /\ Remaining[<<x, y>>] \in Nat /\ Remaining[<<y, x>>] \in Nat
      BY <1>1
    <3> QED BY <2>1, <2>2, <3>1
  <2>4. customized.dist[<<x, y>>] = 0 /\ customized.dist[<<y, x>>] = 0
    <3>1. CASE toTarget
      BY <2>3, <3>1 DEF Remaining
    <3>2. CASE ~toTarget
      BY <2>3, <3>2 DEF Remaining, Back
    <3> QED BY <3>1, <3>2
  <2>5. y \in Graph[x] \/ x \in Graph[y]
    BY <1>3, <1>6 DEF Neighbor
  <2>8. ASSUME NEW a \in Edges, customized.dist[a] = 0, customized.dist[<<a[2], a[1]>>] = 0 PROVE ZeroCycles
    <3>1. customized.dist[a] + customized.dist[<<a[2], a[1]>>] = 0
      BY <2>8
    <3> QED BY <3>1 DEF ZeroCycles
  <2>6. CASE y \in Graph[x]
    <3>1. PICK a \in Edges : a = <<x, y>>
      BY <2>6 DEF Edges
    <3>2. a[1] = x /\ a[2] = y
      BY <3>1
    <3> QED BY <2>4, <2>8, <3>1, <3>2
  <2>7. CASE x \in Graph[y]
    <3>1. PICK a \in Edges : a = <<y, x>>
      BY <2>7 DEF Edges
    <3>2. a[1] = y /\ a[2] = x
      BY <3>1
    <3> QED BY <2>4, <2>8, <3>1, <3>2
  <2> QED BY <2>5, <2>6, <2>7
<1> QED BY <1>2, <1>4, <1>5, <1>6

-----------------------------------------------------------------------------
(* What a call waits for when it has called itself for x.                  *)
Waits(c, x) ==
    \/ c.done = "parent" /\ x = c.parent
    \/ c.done = "edge" /\ TightLink(c.node, x)
    \/ c.done = "all" /\ x = c.node

(* Until its last call of itself, a call has a node that is not unpacked,  *)
(* with the parent that it read.                                           *)
Holds(c, par, done) ==
    /\ c.done \in {"potential", "read", "parent", "middle", "edge"} => c.node \notin done
    /\ c.done \in {"read", "parent"} => par[c.node] = c.parent
    /\ c.done = "middle" => MiddleOf(c) \notin done

Returned(c, done) ==
    /\ c.done = "parent" => c.parent \in done
    /\ c.done = "all" => c.node \in done

Nested(list, par, done) ==
    /\ \A i \in 1 .. Len(list) : Holds(list[i], par, done)
    /\ \A i \in 1 .. Len(list) - 1 : Waits(list[i], list[i + 1].node)
    /\ list # <<>> => Returned(list[Len(list)], done)

(* Parents lead from unpacked nodes to others over arcs of shortest paths. *)
Unfolded(par, done) ==
    /\ done \subseteq Nodes
    /\ \A x \in done : Known(x) /\ Left(x) < Inf
    /\ \A x \in done \ {target} : par[x] \in done /\ TightLink(x, par[x]) /\ EdgeMiddle(x, par[x]) = None

UnpackInv == LazyInv /\ (~ZeroCycles => Unfolded(parents, unpacked) /\ Nested(calls, parents, unpacked))

(* The steps of calls leave everything as it is that was said of given     *)
(* calls, parents and unpacked nodes.                                      *)
LEMMA Carries ==
    ASSUME UNCHANGED <<customizationVars, target>>, NEW list, NEW par, NEW done,
           \A x \in Nodes : Known(x) => Known(x)'
    PROVE  /\ ZeroCycles' <=> ZeroCycles
           /\ Nested(list, par, done) => Nested(list, par, done)'
           /\ Unfolded(par, done) => Unfolded(par, done)'
<1>1. customized' = customized /\ toTarget' = toTarget /\ target' = target
  BY DEF customizationVars
<1>2. \A c, x : Waits(c, x)' <=> Waits(c, x)
  BY Frame DEF Waits
<1>3. \A c : Holds(c, par, done)' <=> Holds(c, par, done)
  BY Frame DEF Holds
<1>4. \A c : Returned(c, done)' <=> Returned(c, done)
  BY DEF Returned
<1>5. Nested(list, par, done) => Nested(list, par, done)'
  BY <1>2, <1>3, <1>4 DEF Nested
<1>6. \A x, y : EdgeMiddle(x, y)' = EdgeMiddle(x, y)
  BY <1>1 DEF EdgeMiddle
<1>7. \A x : (Left(x)' = Left(x)) /\ \A y : TightLink(x, y)' <=> TightLink(x, y)
  BY Frame
<1>8. Unfolded(par, done) => Unfolded(par, done)'
  BY <1>1, <1>6, <1>7 DEF Unfolded
<1>9. ZeroCycles' <=> ZeroCycles
  BY <1>1 DEF ZeroCycles
<1> QED BY <1>5, <1>8, <1>9

-----------------------------------------------------------------------------
(* The node of a call is on the path of each that waits for it, and not    *)
(* that of one that waits for its parent or a middle node.                 *)
LEMMA WaitsFacts ==
    ASSUME LazyInv, target \in Nodes, NEW i \in 1 .. Len(calls), NEW x \in Nodes, Waits(calls[i], x)
    PROVE  /\ calls[i].node \in Nodes /\ On(calls[i].node, x) /\ calls[i].done \in {"parent", "edge", "all"}
           /\ calls[i].done # "all" => TightLink(calls[i].node, x)
<1>1. PICK c \in CallRecord : c = calls[i] /\ CallFits(c)
  <2>1. calls \in Seq(CallRecord) /\ CallFits(calls[i])
    BY DEF LazyInv, Called
  <2>2. calls[i] \in CallRecord
    BY <2>1
  <2> QED BY <2>1, <2>2
<1>2. c.node \in Nodes /\ Left(c.node) < Inf /\ Waits(c, x) /\ Types
  BY <1>1 DEF CallRecord, CallFits, LazyInv
<1>3. CASE c.done = "parent" /\ x = c.parent
  <2>1. TightLink(c.node, x)
    BY <1>1, <1>3 DEF CallFits
  <2> QED BY <1>1, <1>2, <1>3, <2>1, OnFacts
<1>4. CASE c.done = "edge" /\ TightLink(c.node, x)
  BY <1>1, <1>2, <1>4, OnFacts
<1>5. CASE c.done = "all" /\ x = c.node
  BY <1>1, <1>2, <1>5, OnFacts
<1> QED BY <1>2, <1>3, <1>4, <1>5 DEF Waits

LEMMA HereIsOn ==
    ASSUME LazyInv, target \in Nodes, calls # <<>>, NEW par, NEW done, Nested(calls, par, done)
    PROVE  \A i \in 1 .. Len(calls) : On(calls[i].node, Here.node)
<1>1. calls \in Seq(CallRecord) /\ \A i \in 1 .. Len(calls) : CallFits(calls[i])
  BY DEF LazyInv, Called
<1>2. PICK n \in Nat \ {0} : n = Len(calls)
  BY <1>1, FrontFacts
<1>3. \A i \in 1 .. n : calls[i].node \in Nodes /\ Left(calls[i].node) < Inf
  <2>1. ASSUME NEW i \in 1 .. n PROVE calls[i].node \in Nodes /\ Left(calls[i].node) < Inf
    <3>1. calls[i] \in CallRecord /\ CallFits(calls[i])
      BY <1>1, <1>2
    <3> QED BY <3>1 DEF CallRecord, CallFits
  <2> QED BY <2>1
<1>4. PICK h \in Nodes : h = Here.node /\ h = calls[n].node
  BY <1>2, <1>3 DEF Here
<1> DEFINE T == {k \in 0 .. n - 1 : On(calls[n - k].node, h)}
<1>5. ASSUME NEW k \in 0 .. n - 1, 0 .. k - 1 \subseteq T PROVE k \in T
  <2>1. CASE k = 0
    <3>1. On(h, h)
      BY <1>2, <1>3, <1>4, OnFacts DEF LazyInv
    <3>2. n - k = n
      BY <2>1
    <3> QED BY <1>4, <3>1, <3>2
  <2>2. CASE k # 0
    <3>1. k - 1 \in 0 .. k - 1 /\ n - (k - 1) = (n - k) + 1 /\ n - k \in 1 .. n - 1 /\ n - k \in 1 .. n /\ (n - k) + 1 \in 1 .. n
      BY <2>2
    <3>2. On(calls[(n - k) + 1].node, h)
      BY <1>5, <3>1
    <3>3. PICK i \in 1 .. n - 1 : i = n - k
      BY <3>1
    <3>4. i \in 1 .. n /\ i + 1 \in 1 .. n /\ On(calls[i + 1].node, h)
      BY <3>1, <3>2, <3>3
    <3>5. Waits(calls[i], calls[i + 1].node)
      BY <1>2 DEF Nested
    <3>6. On(calls[i].node, calls[i + 1].node)
      BY <1>2, <1>3, <3>4, <3>5, WaitsFacts
    <3>7. On(calls[i].node, h)
      BY <1>3, <3>4, <3>6, OnFacts DEF LazyInv
    <3> QED BY <3>3, <3>7
  <2> QED BY <2>1, <2>2
<1>6. 0 .. n - 1 \subseteq T
  <2>1. n - 1 \in Nat
    BY <1>2
  <2> HIDE DEF T
  <2> QED BY <1>5, <2>1, InductionUpTo
<1>7. ASSUME NEW i \in 1 .. n PROVE On(calls[i].node, h)
  <2>1. n - i \in 0 .. n - 1 /\ n - (n - i) = i
    OBVIOUS
  <2>2. On(calls[n - (n - i)].node, h)
    BY <1>6, <2>1
  <2> QED BY <2>1, <2>2
<1> QED BY <1>2, <1>4, <1>7

LEMMA Apart ==
    ASSUME LazyInv, target \in Nodes, calls # <<>>, NEW par, NEW done, Nested(calls, par, done), ~ZeroCycles,
           NEW y \in Nodes, On(Here.node, y), NEW i \in 1 .. Len(calls) - 1, calls[i].done # "all"
    PROVE  calls[i].node # y
<1>1. calls \in Seq(CallRecord)
  BY DEF LazyInv, Called
<1>2. Len(calls) \in Nat /\ i \in 1 .. Len(calls) /\ i + 1 \in 1 .. Len(calls) /\ Len(calls) \in 1 .. Len(calls)
  BY <1>1
<1>3. PICK x, w, h \in Nodes : x = calls[i].node /\ w = calls[i + 1].node /\ h = Here.node
  <2>1. ASSUME NEW j \in 1 .. Len(calls) PROVE calls[j].node \in Nodes
    <3>1. calls[j] \in CallRecord
      BY <1>1
    <3> QED BY <3>1 DEF CallRecord
  <2> QED BY <1>2, <2>1 DEF Here
<1>4. TightLink(x, w)
  <2>1. Waits(calls[i], w)
    BY <1>3 DEF Nested
  <2> QED BY <1>2, <1>3, <2>1, WaitsFacts
<1>5. On(w, h) /\ On(h, y)
  BY <1>2, <1>3, HereIsOn
<1>6. On(w, y)
  BY <1>5, OnFacts DEF LazyInv
<1> QED BY <1>3, <1>4, <1>6, OnFacts DEF LazyInv

(* What was said of the calls that wait still holds when other nodes have  *)
(* new parents or are unpacked.                                            *)
LEMMA OthersHold ==
    ASSUME LazyInv, target \in Nodes, calls # <<>>, ~ZeroCycles, Nested(calls, parents, unpacked),
           NEW par, NEW done,
           \A v \in Nodes : ~On(Here.node, v) => par[v] = parents[v] /\ (v \in done => v \in unpacked)
    PROVE  \A i \in 1 .. Len(calls) - 1 : Holds(calls[i], par, done)
<1>1. ASSUME NEW i \in 1 .. Len(calls) - 1 PROVE Holds(calls[i], par, done)
  <2>1. calls \in Seq(CallRecord)
    BY DEF LazyInv, Called
  <2>2. i \in 1 .. Len(calls) /\ i + 1 \in 1 .. Len(calls)
    BY <2>1
  <2>3. calls[i] \in CallRecord /\ calls[i + 1] \in CallRecord
    BY <2>1, <2>2
  <2>4. calls[i].node \in Nodes /\ calls[i + 1].node \in Nodes
    BY <2>3 DEF CallRecord
  <2>5. calls[i].done \in {"parent", "edge", "all"}
    <3>1. Waits(calls[i], calls[i + 1].node)
      BY DEF Nested
    <3> QED BY <2>2, <2>4, <3>1, WaitsFacts
  <2>6. Holds(calls[i], parents, unpacked)
    BY <2>2 DEF Nested
  <2>7. calls[i].done # "all" => ~On(Here.node, calls[i].node)
    BY <2>4, Apart
  <2> QED BY <2>4, <2>5, <2>6, <2>7 DEF Holds
<1> QED BY <1>1

LEMMA OuterFacts ==
    ASSUME LazyInv, calls # <<>>
    PROVE  \E n \in Nat, rest \in Seq(CallRecord) :
               /\ rest = Outer /\ n = Len(calls) - 1 /\ n + 1 = Len(calls) /\ Len(rest) = n
               /\ \A i \in 1 .. n : rest[i] = calls[i]
               /\ calls[n + 1] \in CallRecord /\ calls[n + 1] = Here /\ Here.node \in Nodes
<1>1. calls \in Seq(CallRecord)
  BY DEF LazyInv, Called
<1>2. PICK rest : rest = Outer
  OBVIOUS
<1>3. PICK n \in Nat : n = Len(calls) - 1 /\ n + 1 = Len(calls) /\ Len(rest) = n /\ rest \in Seq(CallRecord) /\ \A i \in 1 .. n : rest[i] = calls[i]
  BY <1>1, <1>2, FrontFacts DEF Outer
<1>4. calls[n + 1] \in CallRecord
  BY <1>1, <1>3
<1>5. calls[n + 1] = Here /\ Here.node \in Nodes
  BY <1>3, <1>4 DEF Here, CallRecord
<1> QED BY <1>2, <1>3, <1>4, <1>5

(* The last call returns.                                                  *)
LEMMA CallReturns ==
    ASSUME LazyInv, target \in Nodes, calls # <<>>, ~ZeroCycles, Nested(calls, parents, unpacked),
           NEW done, done = unpacked \cup {Here.node}
    PROVE  Nested(Outer, parents, done)
<1>3. PICK n \in Nat, list \in Seq(CallRecord) :
           /\ list = Outer /\ n = Len(calls) - 1 /\ n + 1 = Len(calls) /\ Len(list) = n
           /\ \A i \in 1 .. n : list[i] = calls[i]
           /\ calls[n + 1] \in CallRecord /\ calls[n + 1] = Here /\ Here.node \in Nodes
  BY OuterFacts
<1>4. PICK h \in Nodes : h = Here.node /\ h = calls[n + 1].node
  BY <1>3
<1>5. On(h, h)
  <2>1. n + 1 \in 1 .. Len(calls)
    BY <1>3
  <2> QED BY <1>4, <2>1, HereIsOn
<1>6. \A i \in 1 .. n : Holds(list[i], parents, done)
  <2>1. \A v \in Nodes : ~On(h, v) => parents[v] = parents[v] /\ (v \in done => v \in unpacked)
    BY <1>4, <1>5
  <2>2. \A i \in 1 .. Len(calls) - 1 : Holds(calls[i], parents, done)
    BY <1>4, <2>1, OthersHold
  <2> QED BY <1>3, <2>2
<1>7. \A i \in 1 .. n : Waits(calls[i], calls[i + 1].node)
  BY <1>3 DEF Nested
<1>8. \A i \in 1 .. n - 1 : Waits(list[i], list[i + 1].node)
  <2>1. \A i \in 1 .. n - 1 : i \in 1 .. n /\ i + 1 \in 1 .. n
    BY <1>3
  <2> QED BY <1>3, <1>7, <2>1
<1>9. ASSUME n # 0 PROVE Returned(list[n], done)
  <2>1. n \in 1 .. n
    BY <1>9
  <2>2. Waits(list[n], h)
    BY <1>3, <1>4, <1>7, <2>1
  <2>3. h \in done
    BY <1>4
  <2> QED BY <2>2, <2>3 DEF Waits, Returned
<1>10. list # <<>> => n # 0
  BY <1>3
<1> QED BY <1>3, <1>6, <1>8, <1>9, <1>10 DEF Nested

(* The last call goes on, perhaps with another.                            *)
LEMMA CallsGoOn ==
    ASSUME LazyInv, target \in Nodes, calls # <<>>, ~ZeroCycles, Nested(calls, parents, unpacked),
           NEW par, \A v \in Nodes : ~On(Here.node, v) => par[v] = parents[v],
           NEW more \in Seq(CallRecord), more # <<>>, more[1].node = Here.node,
           \A i \in 1 .. Len(more) : Holds(more[i], par, unpacked),
           \A i \in 1 .. Len(more) - 1 : Waits(more[i], more[i + 1].node),
           Returned(more[Len(more)], unpacked)
    PROVE  Nested(Outer \o more, par, unpacked)
<1>3. PICK n \in Nat, rest \in Seq(CallRecord) :
           /\ rest = Outer /\ n = Len(calls) - 1 /\ n + 1 = Len(calls) /\ Len(rest) = n
           /\ \A i \in 1 .. n : rest[i] = calls[i]
           /\ calls[n + 1] \in CallRecord /\ calls[n + 1] = Here /\ Here.node \in Nodes
  BY OuterFacts
<1>4. PICK m \in Nat \ {0} : m = Len(more)
  OBVIOUS
<1>5. PICK list : list = rest \o more
  OBVIOUS
<1>6. list \in Seq(CallRecord) /\ Len(list) = n + m /\ \A i \in 1 .. n + m : list[i] = IF i <= n THEN rest[i] ELSE more[i - n]
  <2>1. /\ rest \o more \in Seq(CallRecord) /\ Len(rest \o more) = Len(rest) + Len(more)
        /\ \A i \in 1 .. Len(rest) + Len(more) :
               (rest \o more)[i] = IF i <= Len(rest) THEN rest[i] ELSE more[i - Len(rest)]
    <3>1. rest \in Seq(CallRecord) /\ more \in Seq(CallRecord)
      BY <1>3
    <3> QED BY <3>1, ConcatProperties, Zenon
  <2> QED BY <1>3, <1>4, <1>5, <2>1, Zenon
<1>7. /\ \A i \in 1 .. n : i \in 1 .. n + m /\ list[i] = calls[i]
      /\ \A i \in n + 1 .. n + m : i - n \in 1 .. m /\ list[i] = more[i - n]
  <2>1. ASSUME NEW i \in 1 .. n PROVE i \in 1 .. n + m /\ list[i] = calls[i]
    <3>1. i \in 1 .. n + m /\ i <= n
      OBVIOUS
    <3> QED BY <1>3, <1>6, <3>1
  <2>2. ASSUME NEW i \in n + 1 .. n + m PROVE i - n \in 1 .. m /\ list[i] = more[i - n]
    <3>1. i \in 1 .. n + m /\ ~(i <= n) /\ i - n \in 1 .. m
      OBVIOUS
    <3> QED BY <1>6, <3>1
  <2> QED BY <2>1, <2>2
<1>8. \A i \in 1 .. n + m : Holds(list[i], par, unpacked)
  <2>1. \A i \in 1 .. n : Holds(calls[i], par, unpacked)
    BY <1>3, OthersHold
  <2>2. ASSUME NEW i \in 1 .. n + m PROVE Holds(list[i], par, unpacked)
    <3>1. i \in 1 .. n \/ i \in n + 1 .. n + m
      OBVIOUS
    <3> QED BY <1>4, <1>7, <2>1, <3>1
  <2> QED BY <2>2
<1>9. ASSUME NEW i \in 1 .. n + m - 1 PROVE Waits(list[i], list[i + 1].node)
  <2>1. CASE i <= n - 1
    <3>1. i \in 1 .. n /\ i + 1 \in 1 .. n
      BY <2>1
    <3>2. Waits(calls[i], calls[i + 1].node)
      BY <1>3, <3>1 DEF Nested
    <3> QED BY <1>7, <3>1, <3>2
  <2>2. CASE i = n
    <3>1. n \in 1 .. n /\ n + 1 \in n + 1 .. n + m /\ (n + 1) - n = 1
      BY <2>2
    <3>2. Waits(calls[n], calls[n + 1].node)
      BY <1>3, <3>1 DEF Nested
    <3>3. list[n] = calls[n] /\ list[n + 1] = more[1]
      BY <1>7, <3>1
    <3>4. calls[n + 1].node = Here.node
      BY <1>3
    <3> QED BY <2>2, <3>2, <3>3, <3>4
  <2>3. CASE i > n
    <3>1. /\ i \in n + 1 .. n + m /\ i + 1 \in n + 1 .. n + m /\ i - n \in 1 .. m - 1
          /\ (i + 1) - n = (i - n) + 1
      BY <2>3
    <3>2. Waits(more[i - n], more[(i - n) + 1].node)
      BY <1>4, <3>1
    <3>3. list[i] = more[i - n] /\ list[i + 1] = more[(i - n) + 1]
      BY <1>7, <3>1
    <3> QED BY <3>2, <3>3
  <2> QED BY <2>1, <2>2, <2>3
<1>10. Returned(list[n + m], unpacked)
  <2>1. n + m \in n + 1 .. n + m /\ (n + m) - n = m
    OBVIOUS
  <2> QED BY <1>4, <1>7, <2>1
<1>11. Nested(list, par, unpacked)
  BY <1>6, <1>8, <1>9, <1>10 DEF Nested
<1> QED BY <1>3, <1>5, <1>11

LEMMA OneOrTwoCalls ==
    ASSUME LazyInv, target \in Nodes, calls # <<>>, ~ZeroCycles, Nested(calls, parents, unpacked),
           NEW par, \A v \in Nodes : ~On(Here.node, v) => par[v] = parents[v],
           NEW d \in CallRecord, d.node = Here.node, Holds(d, par, unpacked)
    PROVE  /\ Returned(d, unpacked) => Nested(Append(Outer, d), par, unpacked)
           /\ \A k \in CallRecord : k.done = "nothing" /\ Waits(d, k.node) => Nested(Outer \o <<d, k>>, par, unpacked)
<1>1. ASSUME Returned(d, unpacked) PROVE Nested(Append(Outer, d), par, unpacked)
  <2>1. PICK more : more = <<d>>
    OBVIOUS
  <2>2. more \in Seq(CallRecord) /\ Len(more) = 1 /\ more # <<>> /\ more[1] = d
    BY <2>1
  <2>3. Outer \o more = Append(Outer, d)
    <3>1. calls \in Seq(CallRecord)
      BY DEF LazyInv, Called
    <3>2. Outer \in Seq(CallRecord)
      BY <3>1, FrontFacts DEF Outer
    <3> QED BY <2>1, <3>2
  <2>4. 1 .. Len(more) - 1 = {} /\ \A i \in 1 .. Len(more) : more[i] = d
    BY <2>2
  <2>5. Nested(Outer \o more, par, unpacked)
    BY <1>1, <2>2, <2>4, CallsGoOn
  <2> QED BY <2>3, <2>5
<1>2. ASSUME NEW k \in CallRecord, k.done = "nothing", Waits(d, k.node) PROVE Nested(Outer \o <<d, k>>, par, unpacked)
  <2>1. PICK more : more = <<d, k>>
    OBVIOUS
  <2>2. more \in Seq(CallRecord) /\ Len(more) = 2 /\ more # <<>> /\ more[1] = d /\ more[2] = k
    BY <2>1
  <2>3. Holds(k, par, unpacked) /\ Returned(k, unpacked)
    BY <1>2 DEF Holds, Returned
  <2>4. \A i \in 1 .. Len(more) : Holds(more[i], par, unpacked)
    BY <2>2, <2>3
  <2>5. \A i \in 1 .. Len(more) - 1 : Waits(more[i], more[i + 1].node)
    <3>1. \A i \in 1 .. Len(more) - 1 : i = 1 /\ i + 1 = 2
      BY <2>2
    <3> QED BY <1>2, <2>2, <3>1
  <2>6. Nested(Outer \o more, par, unpacked)
    BY <2>2, <2>3, <2>4, <2>5, CallsGoOn
  <2> QED BY <2>1, <2>6
<1> QED BY <1>1, <1>2

-----------------------------------------------------------------------------
LEMMA UnfoldedFacts ==
    ASSUME Unfolded(parents, unpacked)
    PROVE  /\ \A par : (\A v \in unpacked : par[v] = parents[v]) => Unfolded(par, unpacked)
           /\ \A x \in Nodes : \A done :
                  /\ done = unpacked \cup {x} /\ Known(x) /\ Left(x) < Inf
                  /\ \/ x \in unpacked \/ x = target
                     \/ parents[x] \in unpacked /\ TightLink(x, parents[x]) /\ EdgeMiddle(x, parents[x]) = None
                  => Unfolded(parents, done)
<1>1. ASSUME NEW par, \A v \in unpacked : par[v] = parents[v] PROVE Unfolded(par, unpacked)
  BY <1>1 DEF Unfolded
<1>2. ASSUME NEW x \in Nodes, NEW done, done = unpacked \cup {x}, Known(x), Left(x) < Inf,
             \/ x \in unpacked \/ x = target
             \/ parents[x] \in unpacked /\ TightLink(x, parents[x]) /\ EdgeMiddle(x, parents[x]) = None
      PROVE  Unfolded(parents, done)
  BY <1>2 DEF Unfolded
<1> QED BY <1>1, <1>2

(* A step after which this is said of the calls, parents and unpacked nodes*)
(* that it leaves.                                                         *)
LEMMA UnpackStep ==
    ASSUME LazyInv', UNCHANGED <<customizationVars, target>>, \A x \in Nodes : Known(x) => Known(x)',
           NEW list, list = calls', NEW par, par = parents', NEW done, done = unpacked',
           ~ZeroCycles => Unfolded(par, done) /\ Nested(list, par, done)
    PROVE  UnpackInv'
<1>1. ASSUME ~ZeroCycles' PROVE Unfolded(par, done)' /\ Nested(list, par, done)'
  BY <1>1, Carries
<1>2. ~ZeroCycles' => Unfolded(parents, unpacked)' /\ Nested(calls, parents, unpacked)'
  BY <1>1
<1> QED BY <1>2 DEF UnpackInv

LEMMA InitUnpack == InitPotential => UnpackInv
<1> SUFFICES ASSUME InitPotential PROVE UnpackInv
  OBVIOUS
<1>1. calls = <<>> /\ unpacked = {} /\ Len(calls) = 0
  BY DEF InitPotential, InitPotentialFor
<1>2. Unfolded(parents, unpacked) /\ Nested(calls, parents, unpacked)
  BY <1>1 DEF Unfolded, Nested
<1> QED BY <1>2, InitLazy DEF UnpackInv

LEMMA NewTargetUnpack == UnpackInv /\ SetTarget => UnpackInv'
<1> SUFFICES ASSUME UnpackInv, SetTarget PROVE UnpackInv'
  OBVIOUS
<1>1. LazyInv'
  BY TargetIsSet DEF UnpackInv
<1>2. calls' = <<>> /\ unpacked' = {} /\ Len(calls') = 0
  BY DEF SetTarget, Idle
<1>3. Unfolded(parents, unpacked)' /\ Nested(calls, parents, unpacked)'
  BY <1>2 DEF Unfolded, Nested
<1> QED BY <1>1, <1>3 DEF UnpackInv

(* Steps that only compute potentials.                                     *)
LEMMA StackStep ==
    ASSUME UnpackInv, LazyInv', UNCHANGED <<customizationVars, target, potentials, parents, unpacked, calls>>
    PROVE  UnpackInv'
<1>1. PICK list, par, done : list = calls /\ par = parents /\ done = unpacked
  OBVIOUS
<1>2. \A x \in Nodes : Known(x) => Known(x)'
  BY DEF Known
<1>3. ~ZeroCycles => Unfolded(par, done) /\ Nested(list, par, done)
  BY <1>1 DEF UnpackInv
<1>4. list = calls' /\ par = parents' /\ done = unpacked'
  BY <1>1
<1> QED BY <1>2, <1>3, <1>4, UnpackStep

LEMMA EvaluationUnpack == UnpackInv /\ EvaluateTop => UnpackInv'
<1> SUFFICES ASSUME UnpackInv, EvaluateTop PROVE UnpackInv'
  OBVIOUS
<1>1. LazyInv /\ LazyInv'
  BY TopIsEvaluated DEF UnpackInv
<1>2. /\ stack # <<>> /\ potentials[Top] = None
      /\ UNCHANGED <<customizationVars, target, unpacked, calls>>
  BY DEF EvaluateTop
<1>3. PICK x \in Nodes : x = Top /\ ~Known(x)
  BY <1>1, <1>2, OnTheStack DEF Known
<1>4. \A v \in Nodes : v # x => parents'[v] = parents[v] /\ potentials'[v] = potentials[v]
  <2>1. potentials \in [Nodes -> Nat \cup {None}] /\ parents \in [Nodes -> Nodes \cup {N}]
    BY <1>1 DEF LazyInv, Types
  <2>2. \A v \in Nodes : v # x => potentials'[v] = potentials[v]
    BY <1>3, <2>1 DEF EvaluateTop
  <2>3. \A v \in Nodes : v # x => parents'[v] = parents[v]
    BY <1>3, <2>1 DEF EvaluateTop
  <2> QED BY <2>2, <2>3
<1>5. \A v \in Nodes : Known(v) => Known(v)'
  BY <1>3, <1>4 DEF Known
<1>6. PICK list, par, done : list = calls /\ par = parents' /\ done = unpacked
  OBVIOUS
<1>7. ASSUME ~ZeroCycles PROVE Unfolded(par, done) /\ Nested(list, par, done)
  <2>1. Unfolded(parents, unpacked) /\ Nested(calls, parents, unpacked)
    BY <1>7 DEF UnpackInv
  <2>2. \A v \in Nodes : Known(v) => par[v] = parents[v]
    BY <1>3, <1>4, <1>6
  <2>3. Unfolded(par, unpacked)
    <3>1. \A v \in unpacked : par[v] = parents[v]
      BY <2>1, <2>2 DEF Unfolded
    <3> QED BY <2>1, <3>1, UnfoldedFacts
  <2>4. ASSUME NEW i \in 1 .. Len(calls) PROVE Holds(calls[i], par, unpacked)
    <3>1. PICK c \in CallRecord : c = calls[i] /\ CallFits(c)
      <4>1. calls \in Seq(CallRecord) /\ CallFits(calls[i])
        BY <1>1 DEF LazyInv, Called
      <4>2. calls[i] \in CallRecord
        BY <4>1
      <4> QED BY <4>1, <4>2
    <3>2. c.node \in Nodes
      BY <3>1 DEF CallRecord
    <3>3. c.done \in {"read", "parent"} => par[c.node] = parents[c.node]
      BY <2>2, <3>1, <3>2 DEF CallFits
    <3>4. Holds(c, parents, unpacked)
      BY <2>1, <3>1 DEF Nested
    <3> QED BY <3>1, <3>3, <3>4 DEF Holds
  <2>5. Nested(calls, par, unpacked)
    BY <2>1, <2>4 DEF Nested
  <2> QED BY <1>6, <2>3, <2>5
<1>8. list = calls' /\ par = parents' /\ done = unpacked'
  BY <1>2, <1>6
<1> QED BY <1>1, <1>2, <1>5, <1>7, <1>8, UnpackStep

LEMMA AskedUnpack == UnpackInv /\ AskPath => UnpackInv'
<1> SUFFICES ASSUME UnpackInv, AskPath PROVE UnpackInv'
  OBVIOUS
<1>1. LazyInv /\ LazyInv'
  BY PathIsAsked DEF UnpackInv
<1>2. UNCHANGED <<customizationVars, target, potentials, parents, unpacked>>
  BY DEF AskPath
<1>3. PICK x \in Nodes : calls' = <<Call(x)>>
  BY DEF AskPath
<1>4. PICK list, par, done : list = <<Call(x)>> /\ par = parents /\ done = unpacked
  OBVIOUS
<1>5. Nested(list, par, done)
  <2>1. Len(list) = 1 /\ list[1] = Call(x) /\ \A i \in 1 .. Len(list) : i = 1
    BY <1>4
  <2>2. Holds(Call(x), par, done) /\ Returned(Call(x), done)
    BY DEF Call, Holds, Returned
  <2> QED BY <2>1, <2>2 DEF Nested
<1>6. ~ZeroCycles => Unfolded(par, done)
  BY <1>4 DEF UnpackInv
<1>7. \A v \in Nodes : Known(v) => Known(v)'
  BY <1>2 DEF Known
<1>8. list = calls' /\ par = parents' /\ done = unpacked'
  BY <1>2, <1>3, <1>4
<1> QED BY <1>1, <1>2, <1>5, <1>6, <1>7, <1>8, UnpackStep

-----------------------------------------------------------------------------
(* What is known of the last call when it makes a step.                    *)
LEMMA HereIsNested ==
    ASSUME UnpackInv, stack = <<>>, calls # <<>>, ~ZeroCycles
    PROVE  /\ LazyInv /\ Types /\ Unfolded(parents, unpacked) /\ Nested(calls, parents, unpacked)
           /\ Here \in CallRecord /\ CallFits(Here) /\ target \in Nodes /\ Here.node \in Nodes
           /\ Holds(Here, parents, unpacked) /\ Returned(Here, unpacked) /\ On(Here.node, Here.node)
<1>1. LazyInv /\ Types /\ Unfolded(parents, unpacked) /\ Nested(calls, parents, unpacked)
  BY DEF UnpackInv, LazyInv
<1>2. Here \in CallRecord /\ CallFits(Here) /\ target \in Nodes
  BY <1>1, HereFacts
<1>3. Len(calls) \in 1 .. Len(calls)
  <2>1. calls \in Seq(CallRecord)
    BY <1>1 DEF LazyInv, Called
  <2> QED BY <2>1
<1>4. Holds(Here, parents, unpacked) /\ Returned(Here, unpacked)
  BY <1>1, <1>3 DEF Nested, Here
<1>5. Here.node \in Nodes
  BY <1>2 DEF CallRecord
<1>6. On(Here.node, Here.node)
  BY <1>1, <1>2, <1>5, OnFacts DEF CallFits
<1> QED BY <1>1, <1>2, <1>4, <1>5, <1>6

(* A call that returns has unpacked its node.                              *)
LEMMA ReturnUnpack ==
    ASSUME UnpackInv, LazyInv', stack = <<>>, calls # <<>>,
           UNCHANGED <<customizationVars, target, potentials, parents>>,
           calls' = Outer, unpacked' = unpacked \cup {Here.node},
           Known(Here.node) \/ Here.node \in unpacked,
           ~ZeroCycles =>
               \/ Here.node \in unpacked \/ Here.node = target
               \/ /\ parents[Here.node] \in unpacked /\ TightLink(Here.node, parents[Here.node])
                  /\ EdgeMiddle(Here.node, parents[Here.node]) = None
    PROVE  UnpackInv'
<1>1. PICK list, par, done : list = Outer /\ par = parents /\ done = unpacked \cup {Here.node}
  OBVIOUS
<1>2. ASSUME ~ZeroCycles PROVE Unfolded(par, done) /\ Nested(list, par, done)
  <2>1. /\ LazyInv /\ Types /\ Unfolded(parents, unpacked) /\ Nested(calls, parents, unpacked)
        /\ CallFits(Here) /\ target \in Nodes /\ Here.node \in Nodes
    BY <1>2, HereIsNested
  <2>2. Nested(Outer, parents, done)
    BY <1>1, <1>2, <2>1, CallReturns
  <2>3. Known(Here.node) /\ Left(Here.node) < Inf
    BY <2>1 DEF Unfolded, CallFits
  <2>4. PICK x \in Nodes : x = Here.node
    BY <2>1
  <2>5. Unfolded(parents, done)
    BY <1>1, <1>2, <2>1, <2>3, <2>4, UnfoldedFacts
  <2> QED BY <1>1, <2>2, <2>5
<1>3. \A v \in Nodes : Known(v) => Known(v)'
  BY DEF Known
<1>4. list = calls' /\ par = parents' /\ done = unpacked'
  BY <1>1
<1> QED BY <1>2, <1>3, <1>4, UnpackStep

LEMMA GoOnUnpack ==
    ASSUME UnpackInv, LazyInv', stack = <<>>, calls # <<>>,
           UNCHANGED <<customizationVars, target, potentials, unpacked>>,
           NEW list, list = calls', NEW par, par = parents',
           NEW d \in CallRecord, d.node = Here.node,
           ~ZeroCycles =>
               /\ Holds(d, par, unpacked)
               /\ \A v \in Nodes : ~On(Here.node, v) \/ v \in unpacked => par[v] = parents[v]
               /\ \/ list = Append(Outer, d) /\ Returned(d, unpacked)
                  \/ \E k \in CallRecord : list = Outer \o <<d, k>> /\ k.done = "nothing" /\ Waits(d, k.node)
    PROVE  UnpackInv'
<1>1. PICK done : done = unpacked
  OBVIOUS
<1>2. ASSUME ~ZeroCycles PROVE Unfolded(par, done) /\ Nested(list, par, done)
  <2>1. /\ LazyInv /\ Types /\ Unfolded(parents, unpacked) /\ Nested(calls, parents, unpacked) /\ target \in Nodes
    BY <1>2, HereIsNested
  <2>2. Unfolded(par, unpacked)
    <3>1. \A v \in unpacked : par[v] = parents[v]
      BY <1>2, <2>1 DEF Unfolded
    <3> QED BY <2>1, <3>1, UnfoldedFacts
  <2>3. /\ Returned(d, unpacked) => Nested(Append(Outer, d), par, unpacked)
        /\ \A k \in CallRecord : k.done = "nothing" /\ Waits(d, k.node) => Nested(Outer \o <<d, k>>, par, unpacked)
    BY <1>2, <2>1, OneOrTwoCalls
  <2>4. \/ list = Append(Outer, d) /\ Returned(d, unpacked)
        \/ \E k \in CallRecord : list = Outer \o <<d, k>> /\ k.done = "nothing" /\ Waits(d, k.node)
    BY <1>2
  <2>5. Nested(list, par, unpacked)
    BY <2>3, <2>4, Zenon
  <2> QED BY <1>1, <2>2, <2>5
<1>3. \A v \in Nodes : Known(v) => Known(v)'
  BY DEF Known
<1>4. done = unpacked'
  BY <1>1
<1> QED BY <1>2, <1>3, <1>4, UnpackStep

LEMMA EnterUnpack == UnpackInv /\ Enter => UnpackInv'
<1> SUFFICES ASSUME UnpackInv, Enter PROVE UnpackInv'
  OBVIOUS
<1>1. LazyInv /\ LazyInv'
  BY CallIsEntered DEF UnpackInv
<1>2. /\ stack = <<>> /\ calls # <<>> /\ Here.done = "nothing"
      /\ UNCHANGED <<customizationVars, target, potentials, dists, parents, unpacked>>
  BY DEF Enter, Running
<1>3. CASE Here.node \in unpacked
  <2>1. calls' = Outer /\ unpacked' = unpacked \cup {Here.node}
    BY <1>2, <1>3 DEF Enter
  <2> QED BY <1>1, <1>2, <1>3, <2>1, ReturnUnpack
<1>4. CASE Here.node \notin unpacked
  <2>1. PICK c \in CallRecord : c = Here
    BY <1>1, <1>2, HereFacts
  <2>2. PICK d : d = [c EXCEPT !.done = "potential"]
    OBVIOUS
  <2>3. d \in CallRecord /\ d.node = c.node /\ d.done = "potential"
    BY <2>2 DEF CallRecord
  <2>4. PICK list, par : list = Append(Outer, d) /\ par = parents
    OBVIOUS
  <2>5. calls' = list /\ parents' = par
    BY <1>2, <1>4, <2>1, <2>2, <2>4 DEF Enter
  <2>6. Holds(d, par, unpacked) /\ Returned(d, unpacked)
    BY <1>4, <2>1, <2>3 DEF Holds, Returned
  <2>7. \A v \in Nodes : ~On(Here.node, v) \/ v \in unpacked => par[v] = parents[v]
    BY <2>4
  <2>8. d.node = Here.node
    BY <2>1, <2>3
  <2> QED BY <1>1, <1>2, <2>3, <2>4, <2>5, <2>6, <2>7, <2>8, GoOnUnpack
<1> QED BY <1>3, <1>4

LEMMA ParentReadUnpack == UnpackInv /\ ReadParent => UnpackInv'
<1> SUFFICES ASSUME UnpackInv, ReadParent PROVE UnpackInv'
  OBVIOUS
<1>1. LazyInv /\ LazyInv'
  BY ParentIsRead DEF UnpackInv
<1>2. /\ stack = <<>> /\ calls # <<>> /\ Here.done = "potential"
      /\ UNCHANGED <<customizationVars, target, potentials, dists, parents>>
  BY DEF ReadParent, Running
<1>3. PICK c \in CallRecord : c = Here /\ CallFits(c) /\ c.done = "potential" /\ c.node \in Nodes
  BY <1>1, <1>2, HereFacts DEF CallRecord
<1>4. variant = "tree" /\ target \in Nodes /\ target # None /\ Known(c.node) /\ Left(c.node) < Inf
  BY <1>1, <1>2, <1>3, HereFacts DEF CallFits
<1>5. PICK p \in Nodes \cup {N} : p = parents[c.node]
  BY <1>1, <1>3 DEF LazyInv, Types
<1>6. CASE p = c.node /\ Leave
  <2>1. calls' = Outer /\ unpacked' = unpacked \cup {Here.node}
    BY <1>6 DEF Leave
  <2>2. potentials[c.node] < Inf
    BY <1>1, <1>3, <1>4, LeftIsDistance DEF LazyInv, PotentialsAreDistances, Known
  <2>3. Ends(c.node, p) \/ TightLink(c.node, p)
    BY <1>1, <1>3, <1>4, <1>5, <2>2 DEF LazyInv, Parented
  <2>4. Here.node = target
    <3>1. TightLink(c.node, p) => p # c.node
      BY <1>1, <1>3, <1>4, TightFacts DEF LazyInv
    <3> QED BY <1>3, <1>6, <2>3, <3>1 DEF Ends
  <2>5. Known(Here.node)
    BY <1>3, <1>4
  <2> QED BY <1>1, <1>2, <2>1, <2>4, <2>5, ReturnUnpack
<1>7. CASE calls' = Append(Outer, [c EXCEPT !.parent = p, !.done = "read"]) /\ p # c.node /\ UNCHANGED unpacked
  <2>1. PICK d : d = [c EXCEPT !.parent = p, !.done = "read"]
    OBVIOUS
  <2>2. potentials[c.node] < Inf
    BY <1>1, <1>3, <1>4, LeftIsDistance DEF LazyInv, PotentialsAreDistances, Known
  <2>3. p \in Nodes
    <3>1. Ends(c.node, p) \/ TightLink(c.node, p)
      BY <1>1, <1>3, <1>4, <1>5, <2>2 DEF LazyInv, Parented
    <3> QED BY <1>7, <3>1 DEF Ends, TightLink, Follows, Neighbor
  <2>4. d \in CallRecord /\ d.node = Here.node /\ d.parent = p /\ d.done = "read"
    BY <1>3, <2>1, <2>3 DEF CallRecord
  <2>5. PICK list, par : list = Append(Outer, d) /\ par = parents
    OBVIOUS
  <2>6. list = calls' /\ par = parents'
    BY <1>2, <1>7, <2>1, <2>5
  <2>7. ASSUME ~ZeroCycles PROVE Holds(d, par, unpacked) /\ Returned(d, unpacked)
    <3>1. Holds(c, parents, unpacked)
      BY <1>2, <1>3, <2>7, HereIsNested
    <3>2. c.node \notin unpacked
      BY <1>3, <3>1 DEF Holds
    <3> QED BY <1>3, <1>5, <2>4, <2>5, <3>2 DEF Holds, Returned
  <2>8. \A v \in Nodes : ~On(Here.node, v) \/ v \in unpacked => par[v] = parents[v]
    BY <2>5
  <2> QED BY <1>1, <1>2, <1>7, <2>4, <2>5, <2>6, <2>7, <2>8, GoOnUnpack
<1>8. \/ p = c.node /\ Leave
      \/ p # c.node /\ calls' = Append(Outer, [c EXCEPT !.parent = p, !.done = "read"]) /\ UNCHANGED unpacked
  BY <1>3, <1>5 DEF ReadParent
<1> QED BY <1>6, <1>7, <1>8

LEMMA CallFacts ==
    ASSUME NEW x \in Nodes
    PROVE  Call(x) \in CallRecord /\ Call(x).node = x /\ Call(x).done = "nothing"
<1>1. Call(x) = [node |-> x, parent |-> None, done |-> "nothing"]
  BY DEF Call
<1> QED BY <1>1 DEF CallRecord

LEMMA ParentUnpack == UnpackInv /\ UnpackParent => UnpackInv'
<1> SUFFICES ASSUME UnpackInv, UnpackParent PROVE UnpackInv'
  OBVIOUS
<1>1. LazyInv /\ LazyInv'
  BY ParentIsUnpacked DEF UnpackInv
<1>2. /\ stack = <<>> /\ calls # <<>> /\ Here.done = "read"
      /\ UNCHANGED <<customizationVars, target, potentials, parents, unpacked>>
  BY DEF UnpackParent, Running
<1>3. PICK c \in CallRecord : c = Here /\ CallFits(c) /\ c.done = "read" /\ c.node \in Nodes
  BY <1>1, <1>2, HereFacts DEF CallRecord
<1>4. c.parent \in Nodes /\ target \in Nodes
  BY <1>1, <1>2, <1>3, HereFacts DEF CallFits, TightLink, Follows, Neighbor
<1>5. PICK d : d = [c EXCEPT !.done = "parent"]
  OBVIOUS
<1>6. d \in CallRecord /\ d.node = Here.node /\ d.parent = c.parent /\ d.done = "parent"
  BY <1>3, <1>5 DEF CallRecord
<1>7. PICK k \in CallRecord : k = Call(c.parent) /\ k.node = c.parent /\ k.done = "nothing"
  BY <1>4, CallFacts
<1>8. PICK list, par : list = Outer \o <<d, k>> /\ par = parents
  OBVIOUS
<1>9. list = calls' /\ par = parents'
  BY <1>2, <1>3, <1>5, <1>7, <1>8 DEF UnpackParent
<1>10. ASSUME ~ZeroCycles PROVE Holds(d, par, unpacked)
  <2>1. Holds(c, parents, unpacked)
    BY <1>2, <1>3, <1>10, HereIsNested
  <2> QED BY <1>3, <1>6, <1>8, <2>1 DEF Holds
<1>11. Waits(d, k.node)
  BY <1>6, <1>7 DEF Waits
<1>12. \A v \in Nodes : ~On(Here.node, v) \/ v \in unpacked => par[v] = parents[v]
  BY <1>8
<1> QED BY <1>1, <1>2, <1>6, <1>7, <1>8, <1>9, <1>10, <1>11, <1>12, GoOnUnpack

LEMMA EdgeReadUnpack == UnpackInv /\ ReadEdge => UnpackInv'
<1> SUFFICES ASSUME UnpackInv, ReadEdge PROVE UnpackInv'
  OBVIOUS
<1>1. LazyInv /\ LazyInv'
  BY EdgeIsRead DEF UnpackInv
<1>2. /\ stack = <<>> /\ calls # <<>> /\ Here.done = "parent"
      /\ UNCHANGED <<customizationVars, target, potentials, dists>>
  BY DEF ReadEdge, Running
<1>3. PICK c \in CallRecord : c = Here /\ CallFits(c) /\ c.done = "parent" /\ c.node \in Nodes
  BY <1>1, <1>2, HereFacts DEF CallRecord
<1>4. target \in Nodes /\ Known(c.node) /\ TightLink(c.node, c.parent)
  BY <1>1, <1>2, <1>3, HereFacts DEF CallFits
<1>5. PICK middle : middle = MiddleOf(c)
  OBVIOUS
<1>6. CASE middle = None
  <2>1. calls' = Outer /\ unpacked' = unpacked \cup {Here.node} /\ parents' = parents
    BY <1>3, <1>5, <1>6 DEF ReadEdge, Leave
  <2>2. ASSUME ~ZeroCycles
        PROVE  /\ parents[Here.node] \in unpacked /\ TightLink(Here.node, parents[Here.node])
               /\ EdgeMiddle(Here.node, parents[Here.node]) = None
    <3>1. Holds(c, parents, unpacked) /\ Returned(c, unpacked)
      BY <1>2, <1>3, <2>2, HereIsNested
    <3>2. parents[c.node] = c.parent /\ c.parent \in unpacked
      BY <1>3, <3>1 DEF Holds, Returned
    <3>3. EdgeMiddle(c.node, c.parent) = None
      BY <1>5, <1>6 DEF EdgeMiddle, MiddleOf
    <3> QED BY <1>3, <1>4, <3>2, <3>3
  <2>3. Known(Here.node)
    BY <1>3, <1>4
  <2> QED BY <1>1, <1>2, <2>1, <2>2, <2>3, ReturnUnpack
<1>7. CASE middle # None
  <2>1. middle \in Nodes /\ TightLink(c.node, middle)
    BY <1>1, <1>3, <1>4, <1>5, <1>7, MiddleIsTight DEF LazyInv
  <2>2. parents' = [parents EXCEPT ![c.node] = middle] /\ unpacked' = unpacked
    BY <1>3, <1>5, <1>7 DEF ReadEdge
  <2>3. PICK state \in {"edge", "middle"} : /\ state = (IF middle \in unpacked THEN "edge" ELSE "middle")
                                           /\ calls' = Append(Outer, [c EXCEPT !.done = state])
    <3>1. CASE middle \in unpacked
      <4>1. calls' = Append(Outer, [c EXCEPT !.done = "edge"])
        BY <1>3, <1>5, <1>7, <3>1 DEF ReadEdge
      <4> QED BY <3>1, <4>1
    <3>2. CASE middle \notin unpacked
      <4>1. calls' = Append(Outer, [c EXCEPT !.done = "middle"])
        BY <1>3, <1>5, <1>7, <3>2 DEF ReadEdge
      <4> QED BY <3>2, <4>1
    <3> QED BY <3>1, <3>2
  <2>4. PICK d : d = [c EXCEPT !.done = state]
    OBVIOUS
  <2>5. d \in CallRecord /\ d.node = c.node /\ d.node = Here.node /\ d.parent = c.parent /\ d.done = state
    BY <1>3, <2>4 DEF CallRecord
  <2>6. PICK list, par : list = Append(Outer, d) /\ par = parents'
    OBVIOUS
  <2>7. list = calls'
    BY <2>3, <2>4, <2>6
  <2>8. ASSUME ~ZeroCycles
        PROVE  /\ Holds(d, par, unpacked) /\ Returned(d, unpacked)
               /\ \A v \in Nodes : ~On(Here.node, v) \/ v \in unpacked => par[v] = parents[v]
    <3>1. Holds(c, parents, unpacked) /\ On(Here.node, Here.node)
      BY <1>2, <1>3, <2>8, HereIsNested
    <3>2. c.node \notin unpacked
      BY <1>3, <3>1 DEF Holds
    <3>3. MiddleOf(d) = middle
      BY <1>3, <1>5, <2>5, CallChanges
    <3>4. Holds(d, par, unpacked) /\ Returned(d, unpacked)
      BY <2>3, <2>5, <3>2, <3>3 DEF Holds, Returned
    <3>5. \A v \in Nodes : v # c.node => par[v] = parents[v]
      BY <1>1, <2>2, <2>6 DEF LazyInv, Types
    <3> QED BY <1>3, <3>1, <3>2, <3>4, <3>5
  <2> QED BY <1>1, <1>2, <2>2, <2>5, <2>6, <2>7, <2>8, GoOnUnpack
<1> QED BY <1>6, <1>7

LEMMA MiddleUnpack == UnpackInv /\ UnpackMiddle => UnpackInv'
<1> SUFFICES ASSUME UnpackInv, UnpackMiddle PROVE UnpackInv'
  OBVIOUS
<1>1. LazyInv /\ LazyInv'
  BY MiddleIsUnpacked DEF UnpackInv
<1>2. /\ stack = <<>> /\ calls # <<>> /\ Here.done = "middle"
      /\ UNCHANGED <<customizationVars, target, potentials, unpacked>>
  BY DEF UnpackMiddle, Running
<1>3. PICK c \in CallRecord : c = Here /\ CallFits(c) /\ c.done = "middle" /\ c.node \in Nodes
  BY <1>1, <1>2, HereFacts DEF CallRecord
<1>4. PICK middle : middle = MiddleOf(c)
  OBVIOUS
<1>5. middle \in Nodes /\ TightLink(c.node, middle) /\ target \in Nodes
  <2>1. target \in Nodes /\ TightLink(c.node, c.parent) /\ middle # None
    BY <1>1, <1>2, <1>3, <1>4, HereFacts DEF CallFits
  <2> QED BY <1>1, <1>3, <1>4, <2>1, MiddleIsTight DEF LazyInv
<1>6. PICK d : d = [c EXCEPT !.done = "edge"]
  OBVIOUS
<1>7. d \in CallRecord /\ d.node = c.node /\ d.node = Here.node /\ d.done = "edge"
  BY <1>3, <1>6 DEF CallRecord
<1>8. PICK k \in CallRecord : k = Call(middle) /\ k.node = middle /\ k.done = "nothing"
  BY <1>5, CallFacts
<1>9. PICK list, par : list = Outer \o <<d, k>> /\ par = parents'
  OBVIOUS
<1>10. list = calls' /\ parents' = [parents EXCEPT ![middle] = c.parent]
  BY <1>3, <1>4, <1>6, <1>8, <1>9 DEF UnpackMiddle
<1>11. Waits(d, k.node)
  BY <1>5, <1>7, <1>8 DEF Waits
<1>12. ASSUME ~ZeroCycles
       PROVE  /\ Holds(d, par, unpacked)
              /\ \A v \in Nodes : ~On(Here.node, v) \/ v \in unpacked => par[v] = parents[v]
  <2>1. Holds(c, parents, unpacked)
    BY <1>2, <1>3, <1>12, HereIsNested
  <2>2. c.node \notin unpacked /\ middle \notin unpacked
    BY <1>3, <1>4, <2>1 DEF Holds
  <2>3. Holds(d, par, unpacked)
    BY <1>7, <2>2 DEF Holds
  <2>4. \A v \in Nodes : v # middle => par[v] = parents[v]
    BY <1>1, <1>9, <1>10 DEF LazyInv, Types
  <2>5. On(Here.node, middle)
    BY <1>1, <1>3, <1>5, OnFacts DEF LazyInv
  <2> QED BY <2>2, <2>3, <2>4, <2>5
<1> QED BY <1>1, <1>2, <1>7, <1>8, <1>9, <1>10, <1>11, <1>12, GoOnUnpack

LEMMA AgainUnpack == UnpackInv /\ UnpackAgain => UnpackInv'
<1> SUFFICES ASSUME UnpackInv, UnpackAgain PROVE UnpackInv'
  OBVIOUS
<1>1. LazyInv /\ LazyInv'
  BY NodeIsUnpackedAgain DEF UnpackInv
<1>2. /\ stack = <<>> /\ calls # <<>> /\ Here.done = "edge"
      /\ UNCHANGED <<customizationVars, target, potentials, parents, unpacked>>
  BY DEF UnpackAgain, Running
<1>3. PICK c \in CallRecord : c = Here /\ c.node \in Nodes
  BY <1>1, <1>2, HereFacts DEF CallRecord
<1>4. PICK d : d = [c EXCEPT !.done = "all"]
  OBVIOUS
<1>5. d \in CallRecord /\ d.node = Here.node /\ d.done = "all"
  BY <1>3, <1>4 DEF CallRecord
<1>6. PICK k \in CallRecord : k = Call(c.node) /\ k.node = c.node /\ k.done = "nothing"
  BY <1>3, CallFacts
<1>7. PICK list, par : list = Outer \o <<d, k>> /\ par = parents
  OBVIOUS
<1>8. list = calls' /\ par = parents'
  BY <1>2, <1>3, <1>4, <1>6, <1>7 DEF UnpackAgain
<1>9. Holds(d, par, unpacked) /\ Waits(d, k.node)
  BY <1>3, <1>5, <1>6 DEF Holds, Waits
<1>10. \A v \in Nodes : ~On(Here.node, v) \/ v \in unpacked => par[v] = parents[v]
  BY <1>7
<1> QED BY <1>1, <1>2, <1>5, <1>6, <1>7, <1>8, <1>9, <1>10, GoOnUnpack

LEMMA LeaveUnpack == UnpackInv /\ LeaveCall => UnpackInv'
<1> SUFFICES ASSUME UnpackInv, LeaveCall PROVE UnpackInv'
  OBVIOUS
<1>1. LazyInv /\ LazyInv'
  BY CallIsLeft DEF UnpackInv
<1>2. /\ stack = <<>> /\ calls # <<>> /\ Here.done = "all"
      /\ calls' = Outer /\ unpacked' = unpacked \cup {Here.node}
      /\ UNCHANGED <<customizationVars, target, potentials, parents>>
  BY DEF LeaveCall, Running, Leave
<1>3. Known(Here.node)
  BY <1>1, <1>2, HereFacts DEF CallFits
<1>4. ~ZeroCycles => Here.node \in unpacked
  BY <1>2, HereIsNested DEF Returned
<1> QED BY <1>1, <1>2, <1>3, <1>4, ReturnUnpack

-----------------------------------------------------------------------------
(* Parents lead from an unpacked node to the target, because they never    *)
(* lead to a node twice.                                                   *)
LEMMA UnpackedReaches ==
    ASSUME UnpackInv, ~ZeroCycles, target \in Nodes, NEW x \in unpacked
    PROVE  Reaches(x)
<1> DEFINE F(f) == [k \in 0 .. N |-> IF k = 0 THEN x ELSE parents[f[k - 1]]]
           at == CHOOSE f : f = F(f)
<1>1. at = F(at)
  <2>1. \E f : f = F(f)
    <3>1. PICK g : Leads(g, parents, x)
      BY FollowExists
    <3>2. g = F(g)
      BY <3>1 DEF Leads
    <3> HIDE DEF F
    <3> QED BY <3>2
  <2> HIDE DEF F
  <2> QED BY <2>1
<1>2. SUFFICES \E k \in 0 .. N - 1 : at[k] = target
  BY DEF Reaches
<1> HIDE DEF at
<1>3. SUFFICES ASSUME \A k \in 0 .. N - 1 : at[k] # target PROVE FALSE
  OBVIOUS
<1>4. N \in Nat /\ N # 0 /\ Nodes = 0 .. N - 1
  <2>1. N \in Nat /\ Nodes = 0 .. N - 1
    BY NodesAreLevels, NodeFacts
  <2> QED BY <2>1
<1>5. at[0] = x /\ \A k \in 0 .. N - 1 : at[k + 1] = parents[at[k]]
  <2>1. at[0] = x
    BY <1>1, <1>4
  <2>2. ASSUME NEW k \in 0 .. N - 1 PROVE at[k + 1] = parents[at[k]]
    <3>1. k + 1 \in 0 .. N /\ k + 1 # 0 /\ (k + 1) - 1 = k
      BY <1>4
    <3> QED BY <1>1, <3>1
  <2> QED BY <2>1, <2>2
<1>6. Types /\ Unfolded(parents, unpacked)
  BY DEF UnpackInv, LazyInv
<1> DEFINE T == {k \in 0 .. N : at[k] \in unpacked}
<1>7. ASSUME NEW k \in 0 .. N, 0 .. k - 1 \subseteq T PROVE k \in T
  <2>1. CASE k = 0
    BY <1>5, <2>1
  <2>2. CASE k # 0
    <3>1. k - 1 \in 0 .. k - 1 /\ k - 1 \in 0 .. N - 1 /\ (k - 1) + 1 = k
      BY <1>4, <2>2
    <3>2. at[k - 1] \in unpacked /\ at[k - 1] # target /\ at[k] = parents[at[k - 1]]
      <4>1. at[(k - 1) + 1] = parents[at[k - 1]]
        BY <1>5, <3>1
      <4> QED BY <1>3, <1>7, <3>1, <4>1
    <3> QED BY <1>6, <3>2 DEF Unfolded
  <2> QED BY <2>1, <2>2
<1>8. \A k \in 0 .. N : at[k] \in unpacked /\ at[k] \in Nodes /\ Left(at[k]) < Inf
  <2>1. 0 .. N \subseteq T
    <3> HIDE DEF T
    <3> QED BY <1>4, <1>7, InductionUpTo
  <2> QED BY <1>6, <2>1 DEF Unfolded
<1>9. ASSUME NEW k \in 0 .. N - 1 PROVE k \in 0 .. N /\ k + 1 \in 0 .. N /\ TightLink(at[k], at[k + 1])
  <2>1. k \in 0 .. N /\ k + 1 \in 0 .. N
    BY <1>4
  <2>2. at[k] \in unpacked \ {target}
    BY <1>3, <1>8, <2>1
  <2>3. TightLink(at[k], parents[at[k]])
    BY <1>6, <2>2 DEF Unfolded
  <2> QED BY <1>5, <2>1, <2>3
<1>10. ASSUME NEW i \in 0 .. N, NEW j \in 0 .. N, i <= j PROVE On(at[i], at[j])
  <2> DEFINE S == {k \in 0 .. N : i <= k => On(at[i], at[k])}
  <2>1. ASSUME NEW k \in 0 .. N, 0 .. k - 1 \subseteq S PROVE k \in S
    <3>1. CASE k = i
      <4>1. On(at[i], at[i])
        BY <1>6, <1>8, OnFacts
      <4> QED BY <3>1, <4>1
    <3>2. CASE i < k
      <4>1. k - 1 \in 0 .. k - 1 /\ k - 1 \in 0 .. N - 1 /\ (k - 1) + 1 = k /\ i <= k - 1
        BY <1>4, <3>2
      <4>2. On(at[i], at[k - 1])
        BY <2>1, <4>1
      <4>3. TightLink(at[k - 1], at[k])
        <5>1. TightLink(at[k - 1], at[(k - 1) + 1])
          BY <1>9, <4>1
        <5> QED BY <4>1, <5>1
      <4>4. at[i] \in Nodes /\ at[k - 1] \in Nodes /\ at[k] \in Nodes
        BY <1>8, <1>9, <4>1
      <4>5. On(at[i], at[k])
        BY <1>6, <4>2, <4>3, <4>4, OnFacts
      <4> QED BY <4>5
    <3>3. CASE ~(i <= k)
      BY <3>3
    <3> QED BY <1>4, <3>1, <3>2, <3>3
  <2>2. 0 .. N \subseteq S
    <3> HIDE DEF S
    <3> QED BY <1>4, <2>1, InductionUpTo
  <2> QED BY <1>10, <2>2
<1>11. ASSUME NEW i \in 0 .. N, NEW j \in 0 .. N, i < j, at[i] = at[j] PROVE FALSE
  <2>1. i \in 0 .. N - 1 /\ i + 1 \in 0 .. N /\ i + 1 <= j
    BY <1>4, <1>11
  <2>2. TightLink(at[i], at[i + 1]) /\ On(at[i + 1], at[i])
    <3>1. On(at[i + 1], at[j])
      BY <1>10, <2>1
    <3> QED BY <1>9, <1>11, <2>1, <3>1
  <2> QED BY <1>6, <1>8, <2>1, <2>2, OnFacts
<1>12. PICK i, j \in 0 .. N : i # j /\ at[i] = at[j]
  <2>1. IsFiniteSet(0 .. N) /\ Cardinality(0 .. N) = N + 1
    BY <1>4, FS_Interval
  <2>2. IsFiniteSet(Nodes) /\ Cardinality(Nodes) = N
    BY <1>4, FS_Interval
  <2>3. Cardinality(Nodes) < Cardinality(0 .. N)
    BY <1>4, <2>1, <2>2
  <2>4. at \in [0 .. N -> Nodes]
    <3>1. at = [k \in 0 .. N |-> at[k]]
      BY <1>1
    <3> QED BY <1>8, <3>1
  <2> QED BY <2>1, <2>2, <2>3, <2>4, FS_PigeonHole
<1>13. i < j \/ j < i
  BY <1>4, <1>12
<1> QED BY <1>11, <1>12, <1>13

(* The edge to the parent of an unpacked node is an arc, as long as the    *)
(* part of the way that it leads.                                          *)
LEMMA TightArc ==
    ASSUME Types, target \in Nodes, NEW x \in Nodes, NEW p, TightLink(x, p), EdgeMiddle(x, p) = None
    PROVE  LET arc == customized.metric[IF toTarget THEN <<x, p>> ELSE <<p, x>>]
           IN  arc # {} /\ Left(x) = Left(p) + Lowest(arc)
<1>1. PICK m \in Metrics : customized = Perfect(m)
  BY DEF Types
<1>2. /\ customized.dist = Distances(m) /\ customized.metric = m
      /\ customized.up = BasicUp(m) /\ customized.down = BasicDown(m)
  BY <1>1, PerfectFacts
<1> DEFINE D == DistancesBelow(m)
<1>3. /\ customized.dist = D[N]
      /\ \A e \in Edges : customized.up[e] = D[e[1]][e] /\ customized.down[e] = D[e[1]][<<e[2], e[1]>>]
  BY <1>2 DEF Distances, BasicUp, BasicDown
<1> HIDE DEF D
<1>4. p \in Nodes /\ p # x /\ Neighbor(x, p) /\ Left(x) < Inf /\ Cost(x, p) \in Nat /\ Cost(x, p) + Left(p) <= Left(x)
  BY TightFacts DEF TightLink, Follows
<1>5. PICK c, r, a, b \in Nat : c = Cost(x, p) /\ r = Remaining[<<x, p>>] /\ a = Left(x) /\ b = Left(p)
  BY <1>4, RemainingFacts DEF Left
<1>6. r <= c /\ a <= r + b
  BY <1>4, <1>5, CostFacts, RemainingFacts DEF Left
<1>7. r = c /\ a = b + r /\ r < Inf
  BY <1>4, <1>5, <1>6, InfAssumption
<1>8. \A v, w \in Nodes : w \in Graph[v] => v < w /\ <<v, w>> \in Edges
  BY GraphAssumption DEF Edges
<1>9. \A v, w \in Nodes : w \in Graph[v] => customized.up[<<v, w>>] = D[v][<<v, w>>] /\ customized.down[<<v, w>>] = D[v][<<w, v>>]
  <2>1. ASSUME NEW v \in Nodes, NEW w \in Nodes, w \in Graph[v]
        PROVE  customized.up[<<v, w>>] = D[v][<<v, w>>] /\ customized.down[<<v, w>>] = D[v][<<w, v>>]
    <3>1. PICK e \in Edges : e = <<v, w>>
      BY <1>8, <2>1
    <3>2. e[1] = v /\ e[2] = w
      BY <3>1
    <3> QED BY <1>3, <3>1, <3>2
  <2> QED BY <2>1
<1>10. PICK f, t \in Nodes : <<f, t>> = IF toTarget THEN <<x, p>> ELSE <<p, x>>
  <2>1. CASE toTarget
    BY <1>4, <2>1
  <2>2. CASE ~toTarget
    BY <1>4, <2>2
  <2> QED BY <2>1, <2>2
<1>11. IF toTarget THEN f = x /\ t = p ELSE f = p /\ t = x
  BY <1>10
<1>12. D[N][<<f, t>>] = r
  <2>1. CASE toTarget
    BY <1>3, <1>5, <1>11, <2>1 DEF Remaining
  <2>2. CASE ~toTarget
    <3>1. Remaining = Back(customized.dist)
      BY <2>2 DEF Remaining
    <3>2. Back(customized.dist)[<<x, p>>] = customized.dist[<<p, x>>]
      BY <1>4 DEF Back
    <3> QED BY <1>3, <1>5, <1>11, <2>2, <3>1, <3>2
  <2> QED BY <2>1, <2>2
<1>13. D[IF f < t THEN f ELSE t][<<f, t>>] = c
  <2>1. \A v, w \in Nodes : v < w => ~(w < v)
    BY NodeFacts
  <2>2. CASE p \in Graph[x]
    <3>1. x < p /\ ~(p < x) /\ c = LinkWeight[<<x, p>>]
      BY <1>4, <1>5, <1>8, <2>1, <2>2 DEF Cost
    <3>2. (IF f < t THEN f ELSE t) = x
      BY <1>11, <3>1
    <3>3. D[x][<<f, t>>] = c
      <4>1. CASE toTarget
        <5>1. f = x /\ t = p
          BY <1>11, <4>1
        <5>2. LinkWeight = customized.up
          BY <4>1 DEF LinkWeight
        <5>3. customized.up[<<x, p>>] = D[x][<<x, p>>]
          BY <1>4, <1>9, <2>2
        <5> QED BY <3>1, <5>1, <5>2, <5>3
      <4>2. CASE ~toTarget
        <5>1. f = p /\ t = x
          BY <1>11, <4>2
        <5>2. LinkWeight = customized.down
          BY <4>2 DEF LinkWeight
        <5>3. customized.down[<<x, p>>] = D[x][<<p, x>>]
          BY <1>4, <1>9, <2>2
        <5> QED BY <3>1, <5>1, <5>2, <5>3
      <4> QED BY <4>1, <4>2
    <3> QED BY <3>2, <3>3
  <2>3. CASE x \in Graph[p]
    <3>1. p < x /\ ~(x < p) /\ c = BackWeight[<<p, x>>]
      BY <1>4, <1>5, <1>8, <2>1, <2>3 DEF Cost
    <3>2. (IF f < t THEN f ELSE t) = p
      BY <1>11, <3>1
    <3>3. D[p][<<f, t>>] = c
      <4>1. CASE toTarget
        <5>1. f = x /\ t = p
          BY <1>11, <4>1
        <5>2. BackWeight = customized.down
          BY <4>1 DEF BackWeight
        <5>3. customized.down[<<p, x>>] = D[p][<<x, p>>]
          BY <1>4, <1>9, <2>3
        <5> QED BY <3>1, <5>1, <5>2, <5>3
      <4>2. CASE ~toTarget
        <5>1. f = p /\ t = x
          BY <1>11, <4>2
        <5>2. BackWeight = customized.up
          BY <4>2 DEF BackWeight
        <5>3. customized.up[<<p, x>>] = D[p][<<p, x>>]
          BY <1>4, <1>9, <2>3
        <5> QED BY <3>1, <5>1, <5>2, <5>3
      <4> QED BY <4>1, <4>2
    <3> QED BY <3>2, <3>3
  <2> QED BY <1>4, <2>2, <2>3 DEF Neighbor
<1>14. Piece(D, f, t)
  <2>1. Adjacent(Graph, f, t)
    BY <1>4, <1>11 DEF Neighbor, Adjacent
  <2> QED BY <1>7, <1>12, <1>13, <2>1 DEF Piece
<1>15. Middle(customized, f, t) = None
  BY <1>11 DEF EdgeMiddle
<1>16. HasArc(m, D, f, t)
  BY <1>1, <1>14, <1>15, MiddleSplits DEF D
<1>17. m[<<f, t>>] # {} /\ Lowest(m[<<f, t>>]) = r
  BY <1>12, <1>16 DEF HasArc
<1>18. a = b + Lowest(m[<<f, t>>])
  BY <1>7, <1>17
<1> QED BY <1>2, <1>5, <1>10, <1>17, <1>18

LEMMA UnpackedIsShortest == UnpackInv => UnpackedPathsAreShortest
<1> SUFFICES ASSUME UnpackInv, ~ZeroCycles, NEW x \in unpacked \ {target}
             PROVE  /\ Reaches(x)
                    /\ parents[x] \in unpacked
                    /\ Arc(x) # {} /\ potentials[x] = potentials[parents[x]] + Lowest(Arc(x))
  BY DEF UnpackedPathsAreShortest
<1>1. LazyInv /\ Types /\ Unfolded(parents, unpacked)
  BY DEF UnpackInv, LazyInv
<1>2. PICK p : p = parents[x]
  OBVIOUS
<1>3. x \in Nodes /\ Known(x) /\ p \in unpacked /\ p \in Nodes /\ Known(p) /\ TightLink(x, p) /\ EdgeMiddle(x, p) = None
  BY <1>1, <1>2 DEF Unfolded
<1>4. target \in Nodes
  <2>1. target # None
    BY <1>1, <1>3 DEF Types, Nowhere, Known
  <2> QED BY <1>1, <2>1 DEF Types
<1>5. Reaches(x)
  BY <1>4, UnpackedReaches
<1>6. potentials[x] = Left(x) /\ potentials[p] = Left(p)
  BY <1>1, <1>3, <1>4, LeftIsDistance DEF LazyInv, PotentialsAreDistances, Known
<1>7. Arc(x) # {} /\ Left(x) = Left(p) + Lowest(Arc(x))
  BY <1>1, <1>2, <1>3, <1>4, TightArc DEF Arc
<1> QED BY <1>2, <1>3, <1>5, <1>6, <1>7

(* Unless there are cycles of length 0: whatever was unpacked before, the  *)
(* parents of an unpacked node lead over arcs to the target, and each arc  *)
(* is as long as the part of the distance that it leads.                   *)
THEOREM UnpackedPathsAreExact == SpecPotential => []UnpackedPathsAreShortest
<1>1. ASSUME UnpackInv, [NextPotential]_potentialVars PROVE UnpackInv'
  <2>0. LazyInv'
    BY <1>1, LazyStep DEF UnpackInv
  <2>1. CASE SetTarget
    BY <1>1, <2>1, NewTargetUnpack
  <2>2. CASE Ask
    <3>1. UNCHANGED <<customizationVars, target, potentials, parents, unpacked, calls>>
      BY <2>2 DEF Ask
    <3> QED BY <1>1, <2>0, <3>1, StackStep
  <2>3. CASE AskPath
    BY <1>1, <2>3, AskedUnpack
  <2>4. CASE PopKnown
    <3>1. UNCHANGED <<customizationVars, target, potentials, parents, unpacked, calls>>
      BY <2>4 DEF PopKnown
    <3> QED BY <1>1, <2>0, <3>1, StackStep
  <2>5. CASE PushMissing
    <3>1. UNCHANGED <<customizationVars, target, potentials, parents, unpacked, calls>>
      BY <2>5 DEF PushMissing
    <3> QED BY <1>1, <2>0, <3>1, StackStep
  <2>6. CASE EvaluateTop
    BY <1>1, <2>6, EvaluationUnpack
  <2>7. CASE Enter
    BY <1>1, <2>7, EnterUnpack
  <2>8. CASE ReadParent
    BY <1>1, <2>8, ParentReadUnpack
  <2>9. CASE UnpackParent
    BY <1>1, <2>9, ParentUnpack
  <2>10. CASE ReadEdge
    BY <1>1, <2>10, EdgeReadUnpack
  <2>11. CASE UnpackMiddle
    BY <1>1, <2>11, MiddleUnpack
  <2>12. CASE UnpackAgain
    BY <1>1, <2>12, AgainUnpack
  <2>13. CASE LeaveCall
    BY <1>1, <2>13, LeaveUnpack
  <2>14. CASE UNCHANGED potentialVars
    <3>1. UNCHANGED <<customizationVars, target, potentials, parents, unpacked, calls>>
      BY <2>14 DEF potentialVars
    <3> QED BY <1>1, <2>0, <3>1, StackStep
  <2> QED
    BY <1>1, <2>1, <2>2, <2>3, <2>4, <2>5, <2>6, <2>7, <2>8, <2>9, <2>10, <2>11, <2>12, <2>13, <2>14 DEF NextPotential, Compute
<1> QED BY InitUnpack, <1>1, UnpackedIsShortest, PTL DEF SpecPotential
=============================================================================

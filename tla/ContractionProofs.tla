-------------------------- MODULE ContractionProofs -------------------------
(***************************************************************************)
(* Contraction yields a chordal graph, and a parent in the elimination     *)
(* tree knows all other neighbors of its children, for every graph and     *)
(* every node order of every size.  It yields no edge that is not needed:  *)
(* edges are exactly the pairs that paths over lower nodes join.  And any  *)
(* other order with children before their parents yields the same edges.   *)
(*                                                                         *)
(* Contraction with weights and witnesses, in ContractionHierarchy, keeps  *)
(* the distances between the nodes that are left; queries that only go up  *)
(* from both ends find them, and so do the labels of HubLabels.            *)
(***************************************************************************)
EXTENDS CCHContraction, HubLabels, CCHWeightsProofs, FiniteSets, FiniteSetTheorems, FunctionTheorems, NaturalsInduction,
        WellFoundedInduction, TLAPS

-----------------------------------------------------------------------------

IInv == TypeOK /\ PendingTriangles /\ ParentCollects

LEMMA InitIInv == Init => IInv
<1> SUFFICES ASSUME Init PROVE IInv
  OBVIOUS
<1>1. PICK input \in Inputs :
        links = input.links /\ rank = input.rank /\ edges = UpNeighbors(input.links, input.rank)
  BY DEF Init
<1>2. links \subseteq Nodes \X Nodes /\ rank \in [Nodes -> Nodes]
  BY <1>1, InputsAssumption
<1>3. edges \in Graphs /\ \A x \in Nodes : edges[x] \subseteq x + 1 .. N - 1
  BY <1>1, NAssumption DEF UpNeighbors, Graphs, Nodes
<1>4. contracted = 0 /\ contracted \in 0 .. N
  BY NAssumption DEF Init
<1> QED BY <1>2, <1>3, <1>4 DEF IInv, TypeOK, PendingTriangles, ParentCollects

(* Contracting the lowest node keeps all three parts.  The duties of the   *)
(* node that is split off go to its lowest neighbor, which is still to be  *)
(* contracted, and lists of contracted nodes no longer change.             *)
LEMMA ContractIInv == IInv /\ ContractLowest => IInv'
<1> SUFFICES ASSUME IInv, ContractLowest PROVE IInv'
  OBVIOUS
<1> DEFINE k == contracted
           p == Lowest(edges[k])
<1>1. k \in Nodes /\ k \in Nat /\ k' = k + 1 /\ N \in Nat
  BY NAssumption DEF IInv, TypeOK, ContractLowest, Nodes
<1>2. edges \in [Nodes -> SUBSET Nodes] /\ \A x \in Nodes : edges[x] \subseteq x + 1 .. N - 1
  BY DEF IInv, TypeOK, Graphs
<1>3. CASE edges[k] = {}
  <2>1. edges' = edges
    BY <1>3 DEF ContractLowest, MergeIntoLowest
  <2>2. TypeOK'
    BY <1>1, <2>1 DEF IInv, TypeOK, ContractLowest
  <2>3. PendingTriangles'
    <3> SUFFICES ASSUME NEW x \in 0 .. k, NEW y \in edges[x], NEW z \in edges[x], y < z
                 PROVE  \/ z \in edges[y]
                        \/ \E c \in k + 1 .. N - 1 : c < y /\ {y, z} \subseteq edges[c]
      BY <1>1, <2>1 DEF PendingTriangles
    <3>1. x # k
      BY <1>3
    <3>2. \/ z \in edges[y]
          \/ \E c \in k .. N - 1 : c < y /\ {y, z} \subseteq edges[c]
      BY <1>1, <3>1 DEF IInv, PendingTriangles
    <3> QED BY <1>1, <1>3, <3>2
  <2>4. ParentCollects'
    BY <1>1, <1>3, <2>1 DEF IInv, ParentCollects
  <2> QED BY <2>2, <2>3, <2>4 DEF IInv
<1>4. CASE edges[k] # {}
  <2>1. p \in edges[k] /\ \A y \in edges[k] : p <= y
    BY <1>1, <1>2, <1>4, LowestIsLeast, NodesAreNat
  <2>2. p \in k + 1 .. N - 1 /\ p \in Nodes
    BY <1>1, <1>2, <2>1 DEF Nodes
  <2> HIDE DEF p
  <2>3. edges' = [edges EXCEPT ![p] = edges[p] \cup (edges[k] \ {p})]
    BY <1>4 DEF ContractLowest, MergeIntoLowest, p
  <2>4. edges' \in [Nodes -> SUBSET Nodes]
    BY <1>1, <1>2, <2>2, <2>3
  <2>5. edges'[p] = edges[p] \cup (edges[k] \ {p})
    BY <1>2, <2>2, <2>3
  <2>6. \A x \in Nodes : x # p => edges'[x] = edges[x]
    BY <1>2, <2>2, <2>3
  <2>7. TypeOK'
    <3>1. edges'[p] \subseteq p + 1 .. N - 1
      BY <1>1, <1>2, <2>1, <2>2, <2>5 DEF Nodes
    <3>2. \A x \in Nodes : edges'[x] \subseteq x + 1 .. N - 1
      BY <1>2, <2>6, <3>1
    <3> QED BY <1>1, <2>4, <3>2 DEF IInv, TypeOK, ContractLowest, Graphs, Nodes
  <2>8. PendingTriangles'
    <3> SUFFICES ASSUME NEW x \in 0 .. k, NEW y \in edges'[x], NEW z \in edges'[x], y < z
                 PROVE  \/ z \in edges'[y]
                        \/ \E c \in k + 1 .. N - 1 : c < y /\ {y, z} \subseteq edges'[c]
      BY <1>1 DEF PendingTriangles
    <3>1. x \in Nodes /\ x # p /\ y \in edges[x] /\ z \in edges[x]
      BY <1>1, <2>2, <2>6 DEF Nodes
    <3>2. y \in Nodes /\ z \in Nodes
      BY <1>2, <3>1
    <3>3. \A c \in Nodes : edges[c] \subseteq edges'[c]
      BY <2>5, <2>6
    <3>4. CASE x = k
      BY <1>1, <1>2, <2>1, <2>2, <2>5, <3>1, <3>2, <3>4 DEF Nodes
    <3>5. CASE x # k
      <4>1. \/ z \in edges[y]
            \/ \E c \in k .. N - 1 : c < y /\ {y, z} \subseteq edges[c]
        BY <1>1, <3>1, <3>5 DEF IInv, PendingTriangles
      <4>2. CASE z \in edges[y]
        BY <3>2, <3>3, <4>2
      <4>3. ASSUME NEW c \in k + 1 .. N - 1, c < y /\ {y, z} \subseteq edges[c]
            PROVE  \E d \in k + 1 .. N - 1 : d < y /\ {y, z} \subseteq edges'[d]
        BY <1>1, <3>3, <4>3 DEF Nodes
      <4>4. CASE {y, z} \subseteq edges[k]
        \* the duty of k goes to p, unless y is p and the edge is now there
        <5>1. CASE y = p
          BY <2>2, <2>5, <4>4, <5>1, <3>2, NodesAreNat
        <5>2. CASE y # p
          <6>1. p < y /\ {y, z} \subseteq edges'[p]
            BY <2>1, <2>2, <2>5, <3>2, <4>4, <5>2, NodesAreNat
          <6> QED BY <2>2, <6>1
        <5> QED BY <5>1, <5>2
      <4> QED BY <1>1, <4>1, <4>2, <4>3, <4>4
    <3> QED BY <3>4, <3>5
  <2>9. ParentCollects'
    <3> SUFFICES ASSUME NEW x \in 0 .. k, edges'[x] # {}
                 PROVE  edges'[x] \ {Lowest(edges'[x])} \subseteq edges'[Lowest(edges'[x])]
      BY <1>1 DEF ParentCollects
    <3>1. x \in Nodes /\ edges'[x] = edges[x]
      BY <1>1, <2>2, <2>6 DEF Nodes
    <3>2. Lowest(edges[x]) \in Nodes
      BY <1>2, <3>1, LowestIsLeast, NodesAreNat
    <3>3. \A c \in Nodes : edges[c] \subseteq edges'[c]
      BY <2>5, <2>6
    <3>4. CASE x = k
      BY <2>5, <3>1, <3>4 DEF p
    <3>5. CASE x # k
      <4>1. edges[x] \ {Lowest(edges[x])} \subseteq edges[Lowest(edges[x])]
        BY <1>1, <3>1, <3>5 DEF IInv, ParentCollects
      <4> QED BY <3>1, <3>2, <3>3, <4>1
    <3> QED BY <3>4, <3>5
  <2> QED BY <2>7, <2>8, <2>9 DEF IInv
<1> QED BY <1>3, <1>4

(* The invariant in every reachable state.                                 *)
LEMMA SpecIInv == Spec => []IInv
<1>1. IInv /\ [ContractLowest]_vars => IInv'
  <2>1. IInv /\ UNCHANGED vars => IInv'
    BY DEF vars, IInv, TypeOK, PendingTriangles, ParentCollects
  <2> QED BY <2>1, ContractIInv
<1> QED BY <1>1, InitIInv, PTL DEF Spec

(* The neighbors of every node are higher nodes throughout contraction.    *)
THEOREM TypeCorrect == Spec => []TypeOK
<1>1. IInv => TypeOK
  BY DEF IInv
<1> QED BY <1>1, SpecIInv, PTL

(* The parent knows the neighbors of its children from the moment they are *)
(* contracted.                                                             *)
THEOREM ParentKnowsNeighbors == Spec => []ParentCollects
<1>1. IInv => ParentCollects
  BY DEF IInv
<1> QED BY <1>1, SpecIInv, PTL

(* Merging into the lowest neighbor only completes the graph to a chordal  *)
(* one: no pending duty is left when no node is left.                      *)
THEOREM ContractionIsChordal == Spec => []ChordalWhenDone
<1>1. IInv => ChordalWhenDone
  <2> SUFFICES ASSUME IInv, contracted = N,
                      NEW x \in Nodes, NEW y \in edges[x], NEW z \in edges[x], y < z
               PROVE  z \in edges[y]
    BY DEF ChordalWhenDone, Chordal
  <2> QED BY NAssumption DEF IInv, PendingTriangles, Nodes
<1> QED BY <1>1, SpecIInv, PTL

-----------------------------------------------------------------------------
(* The nodes that a path over lower nodes reaches                          *)

(* One round of ReachedBelow.                                              *)
Wider(g, x, before) == before \cup {v \in 0 .. x - 1 : \E u \in before : Adjacent(g, u, v)}

Rounds(f, g, x, n) == f[0] = {x} /\ \A k \in 1 .. n : f[k] = Wider(g, x, f[k - 1])

LEMMA RoundsExist ==
    ASSUME NEW g, NEW x \in Nodes, NEW n \in Nat
    PROVE  \E f \in [0 .. n -> SUBSET (0 .. x)] : Rounds(f, g, x, n)
<1> DEFINE Good(m, f) == Rounds(f, g, x, m)
           T == {m \in 0 .. n : \E f \in [0 .. m -> SUBSET (0 .. x)] : Good(m, f)}
<1>1. x \in Nat
  BY NodesAreNat
<1>2. ASSUME NEW m \in 0 .. n, 0 .. m - 1 \subseteq T PROVE m \in T
  <2>1. CASE m = 0
    <3> DEFINE f == [k \in 0 .. 0 |-> {x}]
    <3>1. f \in [0 .. m -> SUBSET (0 .. x)]
      BY <1>1, <2>1
    <3>2. Good(m, f)
      BY <2>1 DEF Rounds
    <3> HIDE DEF f, Good
    <3> QED BY <3>1, <3>2
  <2>2. CASE m > 0
    <3>1. m - 1 \in T /\ m - 1 \in Nat /\ m \in 1 .. n
      BY <1>2, <2>2
    <3>2. PICK h \in [0 .. m - 1 -> SUBSET (0 .. x)] : Good(m - 1, h)
      BY <3>1
    <3> DEFINE f == [k \in 0 .. m |-> IF k = m THEN Wider(g, x, h[m - 1]) ELSE h[k]]
    <3>3. h[m - 1] \in SUBSET (0 .. x) /\ Wider(g, x, h[m - 1]) \in SUBSET (0 .. x)
      BY <1>1, <3>1, <3>2 DEF Wider
    <3>4. f \in [0 .. m -> SUBSET (0 .. x)]
      BY <3>1, <3>3
    <3>5. f[0] = {x}
      BY <2>2, <3>2 DEF Rounds
    <3>6. ASSUME NEW k \in 1 .. m PROVE f[k] = Wider(g, x, f[k - 1])
      <4>1. k - 1 \in 0 .. m /\ f[k - 1] = h[k - 1]
        BY <3>1
      <4>2. CASE k = m
        BY <3>1, <4>1, <4>2
      <4>3. CASE k # m
        BY <3>1, <3>2, <4>1, <4>3 DEF Rounds
      <4> QED BY <4>2, <4>3
    <3>7. Good(m, f)
      BY <3>5, <3>6 DEF Rounds
    <3> HIDE DEF f, Good
    <3> QED BY <3>4, <3>7
  <2> QED BY <2>1, <2>2
<1>3. n \in T
  <2> HIDE DEF T
  <2> QED BY <1>2, InductionUpTo
<1> QED BY <1>3

LEMMA ReachedByRounds ==
    ASSUME NEW g, NEW x \in Nodes
    PROVE  \E f \in [0 .. N -> SUBSET (0 .. x)] : Rounds(f, g, x, N) /\ ReachedBelow(g, x) = f[N]
<1> DEFINE Step(f) == [k \in 0 .. N |-> IF k = 0 THEN {x} ELSE
                           LET before == f[k - 1]
                           IN  before \cup {v \in 0 .. x - 1 : \E u \in before : u \in g[v] \/ v \in g[u]}]
           r == CHOOSE f : f = Step(f)
<1>1. N \in Nat
  BY NAssumption
<1>2. ReachedBelow(g, x) = r[N]
  BY DEF ReachedBelow
<1>3. PICK f \in [0 .. N -> SUBSET (0 .. x)] : Rounds(f, g, x, N)
  BY <1>1, RoundsExist
<1>4. f = Step(f)
  <2>1. \A k \in 0 .. N : f[k] = Step(f)[k]
    BY <1>1, <1>3 DEF Rounds, Wider, Adjacent
  <2> QED BY <2>1
<1>5. r = Step(r)
  <2> HIDE DEF Step
  <2> QED BY <1>4
<1>6. Rounds(r, g, x, N) /\ r = [k \in 0 .. N |-> r[k]]
  <2>1. r[0] = {x} /\ \A k \in 1 .. N : r[k] = Wider(g, x, r[k - 1])
    <3> HIDE DEF r
    <3>1. ASSUME NEW k \in 0 .. N
          PROVE  r[k] = IF k = 0 THEN {x} ELSE Wider(g, x, r[k - 1])
      BY <1>5 DEF Wider, Adjacent
    <3> HIDE DEF Step
    <3> QED BY <1>1, <3>1
  <2>2. r = [k \in 0 .. N |-> r[k]]
    <3> HIDE DEF r
    <3> QED BY <1>5
  <2> QED BY <2>1, <2>2 DEF Rounds
<1> HIDE DEF r, Step
<1>7. \A k \in 0 .. N : r[k] = f[k]
  <2> DEFINE S == {k \in 0 .. N : r[k] = f[k]}
  <2>1. ASSUME NEW k \in 0 .. N, 0 .. k - 1 \subseteq S PROVE k \in S
    <3>1. CASE k = 0
      BY <1>3, <1>6, <3>1 DEF Rounds
    <3>2. CASE k # 0
      <4>1. k \in 1 .. N /\ k - 1 \in S
        BY <2>1, <3>2
      <4> QED BY <1>3, <1>6, <4>1 DEF Rounds
    <3> QED BY <3>1, <3>2
  <2>2. 0 .. N \subseteq S
    <3> HIDE DEF S
    <3> QED BY <1>1, <2>1, InductionUpTo
  <2> QED BY <2>2
<1>8. r[N] = f[N]
  BY <1>1, <1>7
<1> QED BY <1>2, <1>3, <1>8

(* They are closed under adjacency: there are fewer than N nodes to add,   *)
(* and a round that adds none is the last that could.                      *)
LEMMA ReachedIsClosed ==
    ASSUME NEW g, NEW x \in Nodes
    PROVE  /\ ReachedBelow(g, x) \subseteq 0 .. x /\ x \in ReachedBelow(g, x)
           /\ \A u \in ReachedBelow(g, x), v \in 0 .. x - 1 : Adjacent(g, u, v) => v \in ReachedBelow(g, x)
<1>1. N \in Nat /\ x \in Nat /\ x < N
  BY NAssumption DEF Nodes
<1>2. PICK f \in [0 .. N -> SUBSET (0 .. x)] : Rounds(f, g, x, N) /\ ReachedBelow(g, x) = f[N]
  BY ReachedByRounds
<1>3. \A k \in 0 .. N : IsFiniteSet(f[k]) /\ Cardinality(f[k]) \in Nat /\ Cardinality(f[k]) <= x + 1 /\ f[k] \subseteq 0 .. x
  <2> SUFFICES ASSUME NEW k \in 0 .. N
               PROVE  IsFiniteSet(f[k]) /\ Cardinality(f[k]) \in Nat /\ Cardinality(f[k]) <= x + 1 /\ f[k] \subseteq 0 .. x
    OBVIOUS
  <2>1. f[k] \subseteq 0 .. x
    BY <1>2
  <2>2. IsFiniteSet(0 .. x) /\ Cardinality(0 .. x) = x + 1
    BY <1>1, FS_Interval
  <2>3. IsFiniteSet(f[k]) /\ Cardinality(f[k]) <= Cardinality(0 .. x)
    BY <2>1, <2>2, FS_Subset
  <2> QED BY <2>1, <2>2, <2>3, FS_CardinalityType
<1> DEFINE Good(k) == x \in f[k] /\ (Wider(g, x, f[k]) = f[k] \/ Cardinality(f[k]) >= k + 1)
           S == {k \in 0 .. N : Good(k)}
<1>4. ASSUME NEW k \in 0 .. N, 0 .. k - 1 \subseteq S PROVE k \in S
  <2>1. CASE k = 0
    <3>1. f[0] = {x} /\ Cardinality({x}) = 1
      BY <1>2, FS_Singleton DEF Rounds
    <3> QED BY <2>1, <3>1
  <2>2. CASE k # 0
    <3>1. PICK j \in 0 .. N : j = k - 1 /\ k \in 1 .. N
      BY <1>1, <2>2
    <3>2. Good(j) /\ f[k] = Wider(g, x, f[j])
      BY <1>2, <1>4, <3>1 DEF Rounds
    <3>3. CASE Wider(g, x, f[j]) = f[j]
      BY <3>2, <3>3
    <3>4. CASE Wider(g, x, f[j]) # f[j]
      <4>1. f[j] \subseteq f[k] /\ f[k] # f[j]
        BY <3>2, <3>4 DEF Wider
      <4>2. IsFiniteSet(f[k]) /\ IsFiniteSet(f[j]) /\ Cardinality(f[j]) \in Nat /\ Cardinality(f[k]) \in Nat
        BY <1>3
      <4>3. Cardinality(f[j]) < Cardinality(f[k])
        BY <4>1, <4>2, FS_Subset
      <4>4. Cardinality(f[j]) >= j + 1
        BY <3>2, <3>4
      <4>5. Cardinality(f[k]) >= k + 1
        BY <3>1, <4>2, <4>3, <4>4
      <4> QED BY <3>2, <4>1, <4>5
    <3> QED BY <3>3, <3>4
  <2> QED BY <2>1, <2>2
<1>5. N \in S
  <2> HIDE DEF S, Good
  <2>1. 0 .. N \subseteq S
    BY <1>1, <1>4, InductionUpTo
  <2> QED BY <1>1, <2>1
<1>6. x \in f[N] /\ f[N] \subseteq 0 .. x /\ Wider(g, x, f[N]) = f[N]
  <2>1. Cardinality(f[N]) \in Nat /\ Cardinality(f[N]) <= x + 1 /\ f[N] \subseteq 0 .. x
    BY <1>1, <1>3
  <2> QED BY <1>1, <1>5, <2>1
<1>7. \A u \in f[N], v \in 0 .. x - 1 : Adjacent(g, u, v) => v \in Wider(g, x, f[N])
  BY DEF Wider
<1> QED BY <1>2, <1>6, <1>7

(* No others are reached.                                                  *)
LEMMA ReachedIsLeast ==
    ASSUME NEW g, NEW x \in Nodes, NEW S, x \in S,
           \A u \in S : \A v \in 0 .. x - 1 : Adjacent(g, u, v) => v \in S
    PROVE  ReachedBelow(g, x) \subseteq S
<1>1. PICK f \in [0 .. N -> SUBSET (0 .. x)] : Rounds(f, g, x, N) /\ ReachedBelow(g, x) = f[N]
  BY ReachedByRounds
<1>2. N \in Nat
  BY NAssumption
<1> DEFINE T == {k \in 0 .. N : f[k] \subseteq S}
<1>3. ASSUME NEW k \in 0 .. N, 0 .. k - 1 \subseteq T PROVE k \in T
  <2>1. CASE k = 0
    BY <1>1, <2>1 DEF Rounds
  <2>2. CASE k # 0
    <3>1. k \in 1 .. N /\ k - 1 \in T
      BY <1>3, <2>2
    <3>2. f[k] = Wider(g, x, f[k - 1]) /\ f[k - 1] \subseteq S
      BY <1>1, <3>1 DEF Rounds
    <3> QED BY <3>1, <3>2 DEF Wider
  <2> QED BY <2>1, <2>2
<1>4. N \in T
  <2> HIDE DEF T
  <2> QED BY <1>2, <1>3, InductionUpTo, SMTT(20)
<1> QED BY <1>1, <1>4

-----------------------------------------------------------------------------
(* Contraction computes the fill                                           *)

(* Two neighbors that a node has in the fill are joined by a path over it. *)
LEMMA FillJoins ==
    ASSUME NEW g, NEW x \in Nodes, NEW y \in Fill(g)[x], NEW z \in Fill(g)[x], y < z
    PROVE  y \in Nodes /\ z \in Fill(g)[y]
<1>1. /\ x \in Nat /\ y \in Nodes /\ z \in Nodes /\ y \in Nat /\ x < y /\ z \in y + 1 .. N - 1
      /\ \E u \in ReachedBelow(g, x) : y \in g[u]
      /\ \E u \in ReachedBelow(g, x) : z \in g[u]
  BY NAssumption DEF Fill, Nodes
<1>2. PICK u \in ReachedBelow(g, x) : y \in g[u]
  BY <1>1
<1>3. PICK v \in ReachedBelow(g, x) : z \in g[v]
  BY <1>1
<1>4. /\ ReachedBelow(g, x) \subseteq 0 .. x /\ x \in ReachedBelow(g, x)
      /\ y \in ReachedBelow(g, y)
      /\ \A a \in ReachedBelow(g, y), b \in 0 .. y - 1 : Adjacent(g, a, b) => b \in ReachedBelow(g, y)
  BY <1>1, ReachedIsClosed
<1>5. 0 .. x \subseteq 0 .. y - 1 /\ 0 .. x - 1 \subseteq 0 .. y - 1
  BY <1>1
<1>6. u \in ReachedBelow(g, y)
  BY <1>2, <1>4, <1>5 DEF Adjacent
<1>7. x \in ReachedBelow(g, y)
  <2> DEFINE S == {a \in 0 .. x : a \in ReachedBelow(g, y) => x \in ReachedBelow(g, y)}
  <2>1. x \in S
    BY <1>1
  <2>2. ASSUME NEW a \in S, NEW b \in 0 .. x - 1, Adjacent(g, a, b) PROVE b \in S
    <3>1. b \in ReachedBelow(g, y) => a \in ReachedBelow(g, y)
      BY <1>4, <1>5, <2>2 DEF Adjacent
    <3>2. b \in 0 .. x
      BY <1>1
    <3> QED BY <3>1, <3>2
  <2>3. ReachedBelow(g, x) \subseteq S
    <3> HIDE DEF S
    <3> QED BY <2>1, <2>2, ReachedIsLeast
  <2> QED BY <1>6, <2>3
<1>8. ReachedBelow(g, x) \subseteq ReachedBelow(g, y)
  BY <1>4, <1>5, <1>7, ReachedIsLeast
<1> QED BY <1>1, <1>3, <1>8 DEF Fill

(* The nodes from which every walk upwards meets x.                        *)
LeadsTo(e, u, x) == \A S \in SUBSET Nodes : u \in S /\ (\A w \in S : e[w] \subseteq S) => x \in S

(* A chordal graph contains the fill of each of its subgraphs: from a node *)
(* that a path over nodes lower than x connects to x all ways up meet x.   *)
LEMMA FillIsLeast ==
    ASSUME NEW g, NEW e \in Graphs, \A x \in Nodes : e[x] \subseteq x + 1 .. N - 1, Chordal(e),
           \A x \in Nodes : g[x] \subseteq e[x],
           NEW x \in Nodes
    PROVE  Fill(g)[x] \subseteq e[x]
<1>1. /\ \A u \in Nodes : u \in Nat /\ e[u] \subseteq Nodes /\ \A v \in e[u] : v \in Nodes /\ u < v
      /\ x \in Nat /\ 0 .. x \subseteq Nodes
  BY NAssumption DEF Graphs, Nodes
<1> DEFINE A == {u \in 0 .. x : LeadsTo(e, u, x)}
<1>2. x \in A
  BY <1>1 DEF LeadsTo
<1>3. ASSUME NEW u \in A, NEW v \in 0 .. x - 1, Adjacent(g, u, v) PROVE v \in A
  <2>1. v \in 0 .. x /\ v \in Nodes /\ u \in Nodes /\ v \in Nat /\ v < x /\ LeadsTo(e, u, x)
    BY <1>1
  <2> SUFFICES ASSUME NEW S \in SUBSET Nodes, v \in S, \A w \in S : e[w] \subseteq S PROVE x \in S
    BY <2>1 DEF LeadsTo
  <2>2. CASE u \in g[v]
    BY <2>1, <2>2 DEF LeadsTo
  <2>3. CASE v \in g[u]
    <3> DEFINE T == S \cup {w \in Nodes : v \in e[w]}
    <3>1. u \in T
      BY <2>1, <2>3
    <3>2. ASSUME NEW w \in T, NEW y \in e[w] PROVE y \in T
      <4>1. CASE w \in S
        BY <3>2, <4>1
      <4>2. CASE w \in Nodes /\ v \in e[w]
        <5>1. y \in Nodes /\ y \in Nat
          BY <1>1, <4>2
        <5>2. CASE y = v
          BY <5>2
        <5>3. CASE y < v
          BY <3>2, <4>2, <5>1, <5>3 DEF Chordal
        <5>4. CASE v < y
          <6>1. y \in e[v]
            BY <3>2, <4>2, <5>4 DEF Chordal
          <6> QED BY <6>1
        <5> QED BY <2>1, <5>1, <5>2, <5>3, <5>4
      <4> QED BY <4>1, <4>2
    <3>3. x \in T
      <4>1. T \in SUBSET Nodes
        OBVIOUS
      <4> HIDE DEF T
      <4> QED BY <2>1, <3>1, <3>2, <4>1 DEF LeadsTo
    <3>4. v \notin e[x]
      BY <1>1, <2>1
    <3> QED BY <3>3, <3>4
  <2> QED BY <1>3, <2>2, <2>3 DEF Adjacent
<1>4. ReachedBelow(g, x) \subseteq A
  <2> HIDE DEF A
  <2> QED BY <1>2, <1>3, ReachedIsLeast
<1> SUFFICES ASSUME NEW y \in x + 1 .. N - 1, NEW u \in ReachedBelow(g, x), y \in g[u] PROVE y \in e[x]
  BY DEF Fill
<1>5. u \in Nodes /\ u \in 0 .. x /\ LeadsTo(e, u, x) /\ y \in e[u] /\ y \in Nat /\ x < y
  BY <1>1, <1>4
<1> DEFINE T == {w \in Nodes : w > x \/ y \in e[w]}
<1>6. u \in T /\ T \in SUBSET Nodes
  BY <1>5
<1>7. ASSUME NEW w \in T, NEW z \in e[w] PROVE z \in T
  <2>1. w \in Nodes /\ z \in Nodes /\ w \in Nat /\ z \in Nat /\ w < z
    BY <1>1
  <2>2. CASE z > x
    BY <2>1, <2>2
  <2>3. CASE ~(z > x)
    <3>1. y \in e[w] /\ z < y
      BY <1>1, <1>5, <2>1, <2>3
    <3>2. y \in e[z]
      BY <1>7, <2>1, <3>1 DEF Chordal
    <3> QED BY <2>1, <3>2
  <2> QED BY <2>2, <2>3
<1>8. x \in T
  <2> HIDE DEF T
  <2> QED BY <1>5, <1>6, <1>7 DEF LeadsTo
<1> QED BY <1>1, <1>8

(* The input, as FillIsExact has it.                                       *)
InputGraph == [x \in Nodes |->
    {y \in x + 1 .. N - 1 : \E u, v \in Nodes : {rank[u], rank[v]} = {x, y} /\ <<u, v>> \in links}]

(* Edges of the input stay, and others lie on the fill.                    *)
FillInv == \A x \in Nodes : InputGraph[x] \subseteq edges[x] /\ edges[x] \subseteq Fill(InputGraph)[x]

LEMMA FillInitially == Init => FillInv
<1> SUFFICES ASSUME Init, NEW x \in Nodes
             PROVE  InputGraph[x] \subseteq edges[x] /\ edges[x] \subseteq Fill(InputGraph)[x]
  BY DEF FillInv
<1>1. PICK input \in Inputs :
        links = input.links /\ rank = input.rank /\ edges = UpNeighbors(input.links, input.rank)
  BY DEF Init
<1>2. links \subseteq Nodes \X Nodes
  BY <1>1, InputsAssumption
<1>3. edges[x] = {y \in Nodes : y > x /\ \E l \in links : {rank[l[1]], rank[l[2]]} = {x, y}}
  BY <1>1 DEF UpNeighbors
<1>4. x \in Nat /\ N \in Nat /\ \A y : y \in Nodes /\ y > x <=> y \in x + 1 .. N - 1
  BY NAssumption DEF Nodes
<1>5. \A y : (\E l \in links : {rank[l[1]], rank[l[2]]} = {x, y})
             <=> (\E u, v \in Nodes : {rank[u], rank[v]} = {x, y} /\ <<u, v>> \in links)
  <2> SUFFICES ASSUME NEW y
               PROVE  (\E l \in links : {rank[l[1]], rank[l[2]]} = {x, y})
                      <=> (\E u, v \in Nodes : {rank[u], rank[v]} = {x, y} /\ <<u, v>> \in links)
    OBVIOUS
  <2>1. ASSUME NEW l \in links, {rank[l[1]], rank[l[2]]} = {x, y}
        PROVE  \E u, v \in Nodes : {rank[u], rank[v]} = {x, y} /\ <<u, v>> \in links
    <3>1. l[1] \in Nodes /\ l[2] \in Nodes /\ <<l[1], l[2]>> = l
      BY <1>2
    <3> QED BY <2>1, <3>1
  <2>2. ASSUME NEW u \in Nodes, NEW v \in Nodes, {rank[u], rank[v]} = {x, y}, <<u, v>> \in links
        PROVE  \E l \in links : {rank[l[1]], rank[l[2]]} = {x, y}
    <3>1. <<u, v>>[1] = u /\ <<u, v>>[2] = v
      OBVIOUS
    <3> QED BY <2>2, <3>1
  <2> QED BY <2>1, <2>2
<1>6. edges[x] = InputGraph[x]
  BY <1>3, <1>4, <1>5 DEF InputGraph
<1>7. x \in ReachedBelow(InputGraph, x)
  BY ReachedIsClosed
<1>8. InputGraph[x] \subseteq Fill(InputGraph)[x]
  BY <1>4, <1>7 DEF Fill, InputGraph
<1> QED BY <1>6, <1>8

LEMMA FillStep == IInv /\ FillInv /\ ContractLowest => FillInv'
<1> SUFFICES ASSUME IInv, FillInv, ContractLowest, NEW x \in Nodes
             PROVE  InputGraph'[x] \subseteq edges'[x] /\ edges'[x] \subseteq Fill(InputGraph')[x]
  BY DEF FillInv
<1>1. PICK k \in Nodes : k = contracted
  BY NAssumption DEF IInv, TypeOK, ContractLowest, Nodes
<1>2. edges' = MergeIntoLowest(edges, k) /\ InputGraph' = InputGraph
  BY <1>1 DEF ContractLowest, InputGraph
<1>3. edges \in [Nodes -> SUBSET Nodes] /\ Nodes \subseteq Nat
  BY NodesAreNat DEF IInv, TypeOK, Graphs
<1>4. InputGraph[x] \subseteq edges[x] /\ edges[x] \subseteq Fill(InputGraph)[x]
  BY DEF FillInv
<1>5. CASE edges' = edges
  BY <1>2, <1>4, <1>5
<1>6. CASE edges[k] # {}
  <2>1. PICK p \in edges[k] : p = Lowest(edges[k]) /\ \A y \in edges[k] : p <= y
    BY <1>3, <1>6, LowestIsLeast
  <2>2. p \in Nodes /\ edges' = [edges EXCEPT ![p] = edges[p] \cup (edges[k] \ {p})]
    BY <1>2, <1>3, <1>6, <2>1 DEF MergeIntoLowest
  <2>3. ASSUME x = p, NEW z \in edges[k] \ {p} PROVE z \in Fill(InputGraph)[x]
    <3>1. p \in Fill(InputGraph)[k] /\ z \in Fill(InputGraph)[k]
      BY <2>3 DEF FillInv
    <3>2. p < z
      BY <1>3, <2>1, <2>2, <2>3
    <3> QED BY <2>3, <3>1, <3>2, FillJoins
  <2> QED BY <1>2, <1>3, <1>4, <2>2, <2>3
<1> QED BY <1>2, <1>5, <1>6 DEF MergeIntoLowest

(* When all nodes are contracted two nodes are adjacent if and only if     *)
(* they are joined by a path of the input whose inner nodes are lower than *)
(* both.                                                                   *)
THEOREM ContractionComputesFill == Spec => []FillIsExact
<1>1. (IInv /\ FillInv) /\ [ContractLowest]_vars => (IInv /\ FillInv)'
  <2>1. ASSUME IInv, FillInv, UNCHANGED vars PROVE (IInv /\ FillInv)'
    <3>1. InputGraph' = InputGraph /\ edges' = edges
      BY <2>1 DEF vars, InputGraph
    <3>2. FillInv'
      BY <2>1, <3>1 DEF FillInv
    <3> QED BY <2>1, <3>2 DEF vars, IInv, TypeOK, PendingTriangles, ParentCollects
  <2> QED BY <2>1, ContractIInv, FillStep
<1>2. IInv /\ FillInv => FillIsExact
  <2> SUFFICES ASSUME IInv, FillInv, contracted = N PROVE edges = Fill(InputGraph)
    BY DEF FillIsExact, InputGraph
  <2>1. edges \in Graphs /\ \A x \in Nodes : edges[x] \subseteq x + 1 .. N - 1
    BY DEF IInv, TypeOK
  <2>2. Chordal(edges)
    <3> SUFFICES ASSUME NEW x \in Nodes, NEW y \in edges[x], NEW z \in edges[x], y < z PROVE z \in edges[y]
      BY DEF Chordal
    <3> QED BY NAssumption DEF IInv, PendingTriangles, Nodes
  <2>3. \A x \in Nodes : edges[x] = Fill(InputGraph)[x]
    BY <2>1, <2>2, FillIsLeast DEF FillInv
  <2>4. edges = [x \in Nodes |-> edges[x]] /\ Fill(InputGraph) = [x \in Nodes |-> Fill(InputGraph)[x]]
    BY <2>1 DEF Graphs, Fill
  <2> QED BY <2>3, <2>4
<1> QED BY <1>1, <1>2, InitIInv, FillInitially, PTL DEF Spec

-----------------------------------------------------------------------------
(* Other orders                                                            *)

(* The fill is a chordal graph in which neighbors are higher.              *)
LEMMA FillIsChordal ==
    ASSUME NEW g
    PROVE  /\ Fill(g) \in Graphs
           /\ \A x \in Nodes : Fill(g)[x] \subseteq x + 1 .. N - 1
           /\ Chordal(Fill(g))
           /\ \A x \in Nodes : g[x] \subseteq x + 1 .. N - 1 => g[x] \subseteq Fill(g)[x]
<1>1. Fill(g) \in Graphs /\ \A x \in Nodes : Fill(g)[x] \subseteq x + 1 .. N - 1
  BY NAssumption DEF Fill, Graphs, Nodes
<1>2. Chordal(Fill(g))
  BY FillJoins DEF Chordal
<1>3. ASSUME NEW x \in Nodes, g[x] \subseteq x + 1 .. N - 1 PROVE g[x] \subseteq Fill(g)[x]
  <2>1. x \in ReachedBelow(g, x)
    BY ReachedIsClosed
  <2> QED BY <1>3, <2>1 DEF Fill
<1> QED BY <1>1, <1>2, <1>3

(* An order that puts each node before its parent puts it before all its   *)
(* neighbors: the others are neighbors of its parent, which is higher.     *)
LEMMA BeforeAllNeighbors ==
    ASSUME NEW e \in Graphs, \A x \in Nodes : e[x] \subseteq x + 1 .. N - 1, Chordal(e),
           NEW place \in [Nodes -> Nodes],
           \A x \in Nodes : e[x] # {} => place[x] < place[Lowest(e[x])]
    PROVE  \A x \in Nodes : \A y \in e[x] : place[x] < place[y]
<1>1. N \in Nat /\ Nodes \subseteq Nat /\ \A x \in Nodes : e[x] \subseteq Nodes /\ place[x] \in Nat
  BY NAssumption, NodesAreNat DEF Graphs
<1> DEFINE Fine(x) == \A y \in e[x] : place[x] < place[y]
           S == {k \in 0 .. N : \A x \in Nodes : x >= N - k => Fine(x)}
<1>2. ASSUME NEW k \in 0 .. N, 0 .. k - 1 \subseteq S PROVE k \in S
  <2> SUFFICES ASSUME NEW x \in Nodes, x >= N - k, NEW y \in e[x] PROVE place[x] < place[y]
    OBVIOUS
  <2>1. PICK p \in e[x] : p = Lowest(e[x]) /\ p <= y
    BY <1>1, LowestIsLeast
  <2>2. p \in Nodes /\ y \in Nodes /\ place[x] < place[p] /\ x < p /\ x \in Nat /\ p \in Nat /\ y \in Nat
    BY <1>1, <2>1
  <2>3. CASE y = p
    BY <2>2, <2>3
  <2>4. CASE y # p
    <3>1. y \in e[p]
      BY <2>1, <2>2, <2>4 DEF Chordal
    <3>2. k - 1 \in 0 .. k - 1 /\ p >= N - (k - 1)
      <4>1. p > x /\ k > 0
        BY <1>1, <2>2 DEF Nodes
      <4> QED BY <1>1, <2>2, <4>1
    <3>3. Fine(p)
      BY <1>2, <2>2, <3>2
    <3>4. place[p] < place[y]
      BY <3>1, <3>3
    <3> QED BY <1>1, <2>2, <3>4
  <2> QED BY <2>3, <2>4
<1>3. N \in S
  <2> HIDE DEF S
  <2> QED BY <1>1, <1>2, InductionUpTo
<1> QED BY <1>1, <1>3

UpGraphs == {g \in Graphs : \A x \in Nodes : g[x] \subseteq x + 1 .. N - 1}

(* Each map is the inverse of the other.                                   *)
Inverses(p, q) ==
    /\ p \in [Nodes -> Nodes] /\ q \in [Nodes -> Nodes]
    /\ \A x \in Nodes : p[q[x]] = x /\ q[p[x]] = x

(* The fill of a graph, with its nodes renamed so that neighbors are still *)
(* higher, is chordal and contains the renamed graph, hence its fill.      *)
LEMMA RenamedFill ==
    ASSUME NEW g \in UpGraphs, NEW h \in UpGraphs, NEW p, NEW q, Inverses(p, q),
           \A x, y \in Nodes : Adjacent(h, x, y) => Adjacent(g, q[x], q[y]),
           \A x \in Nodes : \A y \in Fill(g)[x] : p[x] < p[y]
    PROVE  \A x \in Nodes : \A y \in Fill(h)[x] : q[y] \in Fill(g)[q[x]]
<1> DEFINE e == [x \in Nodes |-> {y \in Nodes : q[y] \in Fill(g)[q[x]]}]
<1>1. /\ \A x \in Nodes : x \in Nat /\ p[x] \in Nodes /\ q[x] \in Nodes /\ p[q[x]] = x
      /\ \A x \in Nodes : Fill(g)[x] \subseteq Nodes /\ g[x] \subseteq Fill(g)[x]
      /\ \A x \in Nodes : h[x] \subseteq Nodes
      /\ Chordal(Fill(g))
  BY NodesAreNat, FillIsChordal DEF UpGraphs, Graphs, Inverses
<1>2. ASSUME NEW x \in Nodes, NEW y \in e[x] PROVE y \in Nodes /\ x < y /\ q[y] \in Fill(g)[q[x]]
  BY <1>1, <1>2
<1>3. e \in Graphs /\ \A x \in Nodes : e[x] \subseteq x + 1 .. N - 1
  <2>1. \A x \in Nodes : \A y \in Nodes : x < y => y \in x + 1 .. N - 1
    BY NAssumption DEF Nodes
  <2>2. e \in Graphs
    BY DEF Graphs
  <2> QED BY <1>2, <2>1, <2>2
<1>4. Chordal(e)
  <2> SUFFICES ASSUME NEW x \in Nodes, NEW y \in e[x], NEW z \in e[x], y < z PROVE z \in e[y]
    BY DEF Chordal
  <2>1. /\ y \in Nodes /\ z \in Nodes /\ q[y] \in Fill(g)[q[x]] /\ q[z] \in Fill(g)[q[x]]
        /\ y \in Nat /\ z \in Nat /\ q[x] \in Nodes /\ q[y] \in Nodes /\ q[z] \in Nodes
        /\ q[y] \in Nat /\ q[z] \in Nat
    BY <1>1, <1>2
  <2>2. CASE q[y] < q[z]
    <3>1. q[z] \in Fill(g)[q[y]]
      BY <1>1, <2>1, <2>2 DEF Chordal
    <3> QED BY <2>1, <3>1
  <2>3. CASE q[z] < q[y]
    <3>1. q[y] \in Fill(g)[q[z]]
      BY <1>1, <2>1, <2>3 DEF Chordal
    <3>2. z < y
      BY <1>1, <2>1, <3>1
    <3> QED BY <2>1, <3>2
  <2>4. CASE q[y] = q[z]
    BY <1>1, <2>1, <2>4
  <2> QED BY <2>1, <2>2, <2>3, <2>4
<1>5. ASSUME NEW x \in Nodes PROVE h[x] \subseteq e[x]
  <2> SUFFICES ASSUME NEW y \in h[x] PROVE y \in e[x]
    OBVIOUS
  <2>1. y \in Nodes /\ y \in Nat /\ x \in Nat /\ x < y
    <3>1. y \in Nodes /\ y \in Nat /\ x \in Nat
      BY <1>1
    <3>2. y \in x + 1 .. N - 1
      BY DEF UpGraphs
    <3> QED BY <3>1, <3>2, NAssumption
  <2>2. Adjacent(g, q[y], q[x])
    BY <2>1 DEF Adjacent
  <2>3. CASE q[y] \in g[q[x]]
    BY <1>1, <2>1, <2>3
  <2>4. CASE q[x] \in g[q[y]]
    <3>1. q[x] \in Fill(g)[q[y]]
      BY <1>1, <2>1, <2>4
    <3>2. q[x] \in Nodes /\ q[y] \in Nodes /\ p[q[x]] = x /\ p[q[y]] = y
      BY <1>1, <2>1
    <3>3. p[q[y]] < p[q[x]]
      BY <3>1, <3>2
    <3>4. y < x
      BY <3>2, <3>3
    <3> QED BY <2>1, <3>4
  <2> QED BY <2>2, <2>3, <2>4 DEF Adjacent
<1>6. \A x \in Nodes : Fill(h)[x] \subseteq e[x]
  <2> HIDE DEF e
  <2> QED BY <1>3, <1>4, <1>5, FillIsLeast
<1> QED BY <1>6

(* A node order is a permutation: node_order and its inverse, the ranks.   *)
Orders ==
    {order \in [Nodes -> Nodes] :
        /\ \A u, v \in Nodes : order[u] = order[v] => u = v
        /\ \A x \in Nodes : \E u \in Nodes : order[u] = x}

(* Neighbors in the graph of an order are the ends of links, but for       *)
(* loops.                                                                  *)
LEMMA UpNeighborsFacts ==
    ASSUME NEW joins \in SUBSET (Nodes \X Nodes), NEW order \in Orders
    PROVE  /\ UpNeighbors(joins, order) \in UpGraphs
           /\ \A u, v \in Nodes : Adjacent(UpNeighbors(joins, order), order[u], order[v])
                                  <=> u # v /\ (<<u, v>> \in joins \/ <<v, u>> \in joins)
<1> DEFINE g == UpNeighbors(joins, order)
<1>1. g \in UpGraphs
  <2>1. g \in Graphs
    BY DEF UpNeighbors, Graphs
  <2>2. ASSUME NEW x \in Nodes, NEW y \in g[x] PROVE y \in x + 1 .. N - 1
    <3>1. y \in Nodes /\ y > x
      BY <2>2 DEF UpNeighbors
    <3> QED BY <3>1, NAssumption DEF Nodes
  <2> HIDE DEF g
  <2> QED BY <2>1, <2>2 DEF UpGraphs
<1>2. ASSUME NEW u \in Nodes, NEW v \in Nodes
      PROVE  Adjacent(g, order[u], order[v]) <=> u # v /\ (<<u, v>> \in joins \/ <<v, u>> \in joins)
  <2>1. order[u] \in Nodes /\ order[v] \in Nodes /\ order[u] \in Nat /\ order[v] \in Nat
    BY NodesAreNat DEF Orders
  <2>2. order[u] = order[v] <=> u = v
    BY DEF Orders
  <2>3. (\E l \in joins : {order[l[1]], order[l[2]]} = {order[u], order[v]})
        <=> <<u, v>> \in joins \/ <<v, u>> \in joins
          \/ (u = v /\ <<u, u>> \in joins)
    <3>1. ASSUME NEW l \in joins, {order[l[1]], order[l[2]]} = {order[u], order[v]}
          PROVE  <<u, v>> \in joins \/ <<v, u>> \in joins
      <4>1. PICK a \in Nodes, b \in Nodes : l = <<a, b>>
        OBVIOUS
      <4>2. {order[a], order[b]} = {order[u], order[v]}
        BY <3>1, <4>1
      <4>3. \/ order[a] = order[u] /\ order[b] = order[v]
            \/ order[a] = order[v] /\ order[b] = order[u]
        BY <4>2
      <4>4. (a = u /\ b = v) \/ (a = v /\ b = u)
        BY <4>3 DEF Orders
      <4> QED BY <4>1, <4>4
    <3>2. ASSUME NEW a \in {u, v}, NEW b \in {u, v}, {a, b} = {u, v}, <<a, b>> \in joins
          PROVE  \E l \in joins : {order[l[1]], order[l[2]]} = {order[u], order[v]}
      <4>1. <<a, b>>[1] = a /\ <<a, b>>[2] = b
        OBVIOUS
      <4>2. {order[a], order[b]} = {order[u], order[v]}
        BY <3>2
      <4> QED BY <3>2, <4>1, <4>2
    <3> QED BY <3>1, <3>2
  <2>4. Adjacent(g, order[u], order[v])
        <=> order[u] # order[v] /\ \E l \in joins : {order[l[1]], order[l[2]]} = {order[u], order[v]}
    <3> DEFINE Joined == \E l \in joins : {order[l[1]], order[l[2]]} = {order[u], order[v]}
    <3>1. order[v] \in g[order[u]] <=> order[v] > order[u] /\ Joined
      BY <2>1 DEF UpNeighbors
    <3>2. \A a, b : {a, b} = {order[v], order[u]} <=> {a, b} = {order[u], order[v]}
      OBVIOUS
    <3>3. order[u] \in g[order[v]] <=> order[u] > order[v] /\ Joined
      BY <2>1, <3>2 DEF UpNeighbors
    <3>4. order[v] > order[u] \/ order[u] > order[v] <=> order[u] # order[v]
      BY <2>1
    <3>5. Adjacent(g, order[u], order[v]) <=> order[u] \in g[order[v]] \/ order[v] \in g[order[u]]
      BY DEF Adjacent
    <3> HIDE DEF Joined, g
    <3>6. Adjacent(g, order[u], order[v]) <=> order[u] # order[v] /\ Joined
      BY <3>1, <3>3, <3>4, <3>5, Zenon
    <3> QED BY <3>6 DEF Joined
  <2> QED BY <2>2, <2>3, <2>4
<1> QED BY <1>1, <1>2

(* Why fix_order_and_build may reorder nodes for the sake of separators:   *)
(* given and moved are node orders, first and second what contraction with *)
(* them computes.  If the new one still puts children in the elimination   *)
(* tree before their parents, it has the same shortcuts between the same   *)
(* nodes.                                                                  *)
THEOREM ReorderingKeepsShortcuts ==
    ASSUME NEW joins \in SUBSET (Nodes \X Nodes), NEW given \in Orders, NEW moved \in Orders,
           NEW first, first = Fill(UpNeighbors(joins, given)),
           NEW second, second = Fill(UpNeighbors(joins, moved)),
           \A u, v \in Nodes :
               given[v] = EliminationTree(first)[given[u]] => moved[u] < moved[v]
    PROVE  \A u, v \in Nodes : given[v] \in first[given[u]] <=> moved[v] \in second[moved[u]]
<1> DEFINE g == UpNeighbors(joins, given)
           h == UpNeighbors(joins, moved)
           node(order) == [x \in Nodes |-> CHOOSE u \in Nodes : order[u] = x]
           p == [x \in Nodes |-> moved[node(given)[x]]]
           q == [x \in Nodes |-> given[node(moved)[x]]]
<1>1. ASSUME NEW order \in Orders
      PROVE  /\ \A x \in Nodes : node(order)[x] \in Nodes /\ order[node(order)[x]] = x
             /\ \A u \in Nodes : order[u] \in Nodes /\ node(order)[order[u]] = u
  BY DEF Orders
<1>2. \A u \in Nodes : /\ given[u] \in Nodes /\ moved[u] \in Nodes
                       /\ p[given[u]] = moved[u] /\ q[moved[u]] = given[u]
  <2> HIDE DEF node
  <2> QED BY <1>1
<1>3. \A x \in Nodes : (\E u \in Nodes : x = given[u]) /\ (\E u \in Nodes : x = moved[u])
  BY DEF Orders
<1>4. p \in [Nodes -> Nodes] /\ q \in [Nodes -> Nodes]
  <2> HIDE DEF node
  <2> QED BY <1>1
<1> HIDE DEF p, q
<1>5. Inverses(p, q) /\ Inverses(q, p)
  <2>1. ASSUME NEW x \in Nodes PROVE p[q[x]] = x /\ q[p[x]] = x
    <3>1. PICK u \in Nodes : x = given[u]
      BY <1>3
    <3>2. PICK v \in Nodes : x = moved[v]
      BY <1>3
    <3>3. p[q[x]] = x
      BY <1>2, <3>2, Zenon
    <3>4. q[p[x]] = x
      BY <1>2, <3>1, Zenon
    <3> QED BY <3>3, <3>4
  <2> QED BY <1>4, <2>1 DEF Inverses
<1>6. /\ g \in UpGraphs /\ h \in UpGraphs
      /\ \A u, v \in Nodes : Adjacent(g, given[u], given[v]) <=> Adjacent(h, moved[u], moved[v])
  <2> HIDE DEF g, h
  <2>1. ASSUME NEW u \in Nodes, NEW v \in Nodes
        PROVE  Adjacent(g, given[u], given[v]) <=> Adjacent(h, moved[u], moved[v])
    BY UpNeighborsFacts DEF g, h
  <2> QED BY <2>1, UpNeighborsFacts DEF g, h
<1> HIDE DEF g, h
<1>7. /\ \A x, y \in Nodes : Adjacent(h, x, y) => Adjacent(g, q[x], q[y])
      /\ \A x, y \in Nodes : Adjacent(g, x, y) => Adjacent(h, p[x], p[y])
  <2>1. ASSUME NEW x \in Nodes, NEW y \in Nodes, Adjacent(h, x, y) PROVE Adjacent(g, q[x], q[y])
    <3>1. PICK u \in Nodes : x = moved[u]
      BY <1>3
    <3>2. PICK v \in Nodes : y = moved[v]
      BY <1>3
    <3>3. Adjacent(g, given[u], given[v])
      BY <1>6, <2>1, <3>1, <3>2, Zenon
    <3> QED BY <1>2, <3>1, <3>2, <3>3, Zenon
  <2>2. ASSUME NEW x \in Nodes, NEW y \in Nodes, Adjacent(g, x, y) PROVE Adjacent(h, p[x], p[y])
    <3>1. PICK u \in Nodes : x = given[u]
      BY <1>3
    <3>2. PICK v \in Nodes : y = given[v]
      BY <1>3
    <3>3. Adjacent(h, moved[u], moved[v])
      BY <1>6, <2>2, <3>1, <3>2, Zenon
    <3> QED BY <1>2, <3>1, <3>2, <3>3, Zenon
  <2> QED BY <2>1, <2>2
<1>8. first = Fill(g) /\ second = Fill(h)
  BY DEF g, h
<1>9. \A x \in Nodes : \A y \in Fill(g)[x] : p[x] < p[y]
  <2>1. ASSUME NEW x \in Nodes, Fill(g)[x] # {} PROVE p[x] < p[Lowest(Fill(g)[x])]
    <3>1. Lowest(Fill(g)[x]) \in Nodes /\ EliminationTree(first)[x] = Lowest(Fill(g)[x])
      <4>1. Fill(g)[x] \subseteq Nodes /\ Nodes \subseteq Nat
        BY FillIsChordal, NodesAreNat DEF Graphs
      <4>2. Lowest(Fill(g)[x]) \in Nodes
        BY <2>1, <4>1, LowestIsLeast
      <4> QED BY <1>8, <2>1, <4>2 DEF EliminationTree
    <3>2. PICK u \in Nodes : x = given[u]
      BY <1>3
    <3>3. PICK v \in Nodes : Lowest(Fill(g)[x]) = given[v]
      BY <1>3, <3>1
    <3>4. moved[u] < moved[v]
      BY <1>8, <2>1, <3>1, <3>2, <3>3
    <3>5. p[x] = moved[u] /\ p[Lowest(Fill(g)[x])] = moved[v]
      BY <1>2, <3>2, <3>3, Zenon
    <3> QED BY <3>4, <3>5
  <2> QED BY <1>4, <2>1, FillIsChordal, BeforeAllNeighbors
<1>10. \A x \in Nodes : \A y \in Fill(h)[x] : q[y] \in Fill(g)[q[x]]
  BY <1>5, <1>6, <1>7, <1>9, RenamedFill
<1>11. \A x \in Nodes : \A y \in Fill(h)[x] : q[x] < q[y]
  <2> SUFFICES ASSUME NEW x \in Nodes, NEW y \in Fill(h)[x] PROVE q[x] < q[y]
    OBVIOUS
  <2>1. q[x] \in Nodes /\ q[x] \in Nat /\ q[y] \in q[x] + 1 .. N - 1
    BY <1>4, <1>10, FillIsChordal, NodesAreNat
  <2> QED BY <2>1, NAssumption
<1>12. \A x \in Nodes : \A y \in Fill(g)[x] : p[y] \in Fill(h)[p[x]]
  BY <1>5, <1>6, <1>7, <1>11, RenamedFill
<1>13. ASSUME NEW u \in Nodes, NEW v \in Nodes
       PROVE  given[v] \in first[given[u]] <=> moved[v] \in second[moved[u]]
  BY <1>2, <1>8, <1>10, <1>12
<1> QED BY <1>13

-----------------------------------------------------------------------------
(* Distances as the greatest metric below the weights of arcs              *)

(* Up to Inf, and not symmetric.                                           *)
MetricOn(S, d) ==
    /\ \A a, b \in S : d[<<a, b>>] \in Nat /\ d[<<a, b>>] <= Inf
    /\ \A a \in S : d[<<a, a>>] = 0
    /\ \A a, b, c \in S : d[<<a, c>>] <= d[<<a, b>>] + d[<<b, c>>]

(* No longer than any arc.                                                 *)
Under(S, d, arcs) == \A a, b \in S : \A w \in arcs[<<a, b>>] : d[<<a, b>>] <= w

(* The greatest metric that is no longer than any arc.                     *)
Spanned(S, arcs, d) ==
    /\ MetricOn(S, d) /\ Under(S, d, arcs)
    /\ \A e : MetricOn(S, e) /\ Under(S, e, arcs) => \A a, b \in S : e[<<a, b>>] <= d[<<a, b>>]

(* The weights of the parallel arcs between any two nodes.                 *)
ArcSets == [Nodes \X Nodes -> SUBSET (0 .. Inf)]

(* The reference distances are that metric: a path is as long as its arcs, *)
(* and no metric is above a path.                                          *)
LEMMA DistancesAreSpanned ==
    ASSUME NEW arcs \in ArcSets
    PROVE  Spanned(Nodes, arcs, Distances(arcs))
<1> DEFINE D == LengthsOf(arcs, Inf)
           g == [x \in Nodes |-> Nodes]
<1>1. Inf \in Nat /\ N \in Nat /\ N \in 0 .. N
  BY InfAssumption, NAssumption
<1>2. /\ Lengths(D, Inf)
      /\ \A a, b \in Nodes : a # b => D[0][<<a, b>>] = Lowest(arcs[<<a, b>>] \cup {Inf})
  <2>1. ArcsOn(g, arcs)
    BY DEF ArcsOn, Adjacent
  <2> QED BY <1>1, <2>1, LengthsOfArcs DEF ArcSets
<1>3. Distances(arcs) = D[N]
  BY DEF Distances, DistancesBelow, LengthsOf, ArcLengths, NextLengths
<1> HIDE DEF D, g
<1>4. /\ \A k \in 0 .. N : \A a, b \in Nodes : D[k][<<a, b>>] \in Nat /\ D[k][<<a, b>>] <= Inf
      /\ \A x \in Nodes : D[N][<<x, x>>] = 0
  BY <1>1, <1>2, LengthsFacts
<1>5. \A a, b, c \in Nodes : D[N][<<a, c>>] <= D[N][<<a, b>>] + D[N][<<b, c>>]
  <2>1. \A b \in Nodes : b \in 0 .. N - 1
    BY DEF Nodes
  <2> QED BY <1>1, <1>2, <2>1, TriangleInequality
<1>6. MetricOn(Nodes, D[N])
  BY <1>1, <1>4, <1>5 DEF MetricOn
<1>7. \A a, b \in Nodes : a # b => /\ D[0][<<a, b>>] \in arcs[<<a, b>>] \cup {Inf}
                                   /\ \A w \in arcs[<<a, b>>] : D[0][<<a, b>>] <= w
  <2> SUFFICES ASSUME NEW a \in Nodes, NEW b \in Nodes, a # b
               PROVE  /\ D[0][<<a, b>>] \in arcs[<<a, b>>] \cup {Inf}
                      /\ \A w \in arcs[<<a, b>>] : D[0][<<a, b>>] <= w
    OBVIOUS
  <2>1. arcs[<<a, b>>] \cup {Inf} \in SUBSET Nat /\ arcs[<<a, b>>] \cup {Inf} # {}
    BY <1>1 DEF ArcSets
  <2>2. /\ Lowest(arcs[<<a, b>>] \cup {Inf}) \in arcs[<<a, b>>] \cup {Inf}
        /\ \A w \in arcs[<<a, b>>] \cup {Inf} : Lowest(arcs[<<a, b>>] \cup {Inf}) <= w
    BY <2>1, LowestIsLeast
  <2>3. D[0][<<a, b>>] = Lowest(arcs[<<a, b>>] \cup {Inf})
    BY <1>2
  <2> QED BY <2>2, <2>3
<1>8. Under(Nodes, D[N], arcs)
  <2> SUFFICES ASSUME NEW a \in Nodes, NEW b \in Nodes, NEW w \in arcs[<<a, b>>] PROVE D[N][<<a, b>>] <= w
    BY DEF Under
  <2>1. w \in Nat /\ D[N][<<a, b>>] \in Nat /\ D[0][<<a, b>>] \in Nat
    BY <1>1, <1>4 DEF ArcSets
  <2>2. CASE a = b
    BY <1>4, <2>1, <2>2
  <2>3. CASE a # b
    <3>1. D[N][<<a, b>>] <= D[0][<<a, b>>] /\ D[0][<<a, b>>] <= w
      BY <1>1, <1>2, <1>7, <2>3, Composed
    <3> QED BY <2>1, <3>1
  <2> QED BY <2>2, <2>3
<1>9. ASSUME NEW e, MetricOn(Nodes, e), Under(Nodes, e, arcs), NEW a \in Nodes, NEW b \in Nodes
      PROVE  e[<<a, b>>] <= D[N][<<a, b>>]
  <2> DEFINE AreBelow(k) == \A u, v \in Nodes : e[<<u, v>>] <= D[k][<<u, v>>]
             T == {k \in 0 .. N : AreBelow(k)}
  <2>0. \A u, v \in Nodes : e[<<u, v>>] \in Nat /\ e[<<u, v>>] <= Inf
    BY <1>9 DEF MetricOn
  <2>1. ASSUME NEW k \in 0 .. N, 0 .. k - 1 \subseteq T, NEW u \in Nodes, NEW v \in Nodes
        PROVE  e[<<u, v>>] <= D[k][<<u, v>>]
    <3>1. CASE D[k][<<u, v>>] = D[0][<<u, v>>]
      <4>1. CASE u = v
        <5>1. e[<<u, v>>] = 0
          BY <1>9, <4>1 DEF MetricOn
        <5> QED BY <1>4, <5>1
      <4>2. CASE u # v
        <5>1. D[0][<<u, v>>] \in arcs[<<u, v>>] \cup {Inf}
          BY <1>7, <4>2
        <5>2. CASE D[0][<<u, v>>] = Inf
          BY <2>0, <3>1, <5>2
        <5>3. CASE D[0][<<u, v>>] \in arcs[<<u, v>>]
          BY <1>9, <3>1, <5>3 DEF Under
        <5> QED BY <5>1, <5>2, <5>3
      <4> QED BY <4>1, <4>2
    <3>2. CASE Over(D, k, u, v)
      <4>1. PICK z \in 0 .. k - 1 : D[k][<<u, v>>] = D[z][<<u, z>>] + D[z][<<z, v>>]
        BY <3>2 DEF Over
      <4>2. z \in Nodes /\ z \in 0 .. N /\ AreBelow(z)
        BY <1>1, <2>1, <4>1 DEF Nodes
      <4>3. e[<<u, v>>] <= e[<<u, z>>] + e[<<z, v>>]
        BY <1>9, <4>2 DEF MetricOn
      <4>4. e[<<u, z>>] <= D[z][<<u, z>>] /\ e[<<z, v>>] <= D[z][<<z, v>>]
        BY <4>2
      <4>5. /\ e[<<u, z>>] \in Nat /\ e[<<z, v>>] \in Nat /\ e[<<u, v>>] \in Nat
            /\ D[z][<<u, z>>] \in Nat /\ D[z][<<z, v>>] \in Nat
        BY <1>4, <2>0, <4>2
      <4> QED BY <4>1, <4>3, <4>4, <4>5
    <3> QED BY <1>1, <1>2, <3>1, <3>2, Composed
  <2>2. 0 .. N \subseteq T
    <3>1. \A k \in 0 .. N : 0 .. k - 1 \subseteq T => k \in T
      BY <2>1
    <3> HIDE DEF T
    <3> QED BY <1>1, <3>1, InductionUpTo
  <2> QED BY <1>1, <2>2
<1> QED BY <1>3, <1>6, <1>8, <1>9 DEF Spanned

(* Reversed, they are spanned by the reversed arcs.                        *)
Flip(d) == [a \in Nodes \X Nodes |-> d[<<a[2], a[1]>>]]

(* Of the opposite arcs, the opposite metric.                              *)
LEMMA FlipSpanned ==
    ASSUME NEW S \in SUBSET Nodes, NEW arcs, NEW d, Spanned(S, arcs, d)
    PROVE  Spanned(S, Flip(arcs), Flip(d))
<1>1. \A f : \A a, b \in S : Flip(f)[<<a, b>>] = f[<<b, a>>]
  BY DEF Flip
<1>2. ASSUME NEW f, MetricOn(S, f) PROVE MetricOn(S, Flip(f))
  <2>1. \A a, b \in S : f[<<a, b>>] \in Nat /\ f[<<a, b>>] <= Inf
    BY <1>2 DEF MetricOn
  <2>2. \A a, b \in S : Flip(f)[<<a, b>>] \in Nat /\ Flip(f)[<<a, b>>] <= Inf
    BY <1>1, <2>1
  <2>3. \A a \in S : Flip(f)[<<a, a>>] = 0
    BY <1>1, <1>2 DEF MetricOn
  <2>4. ASSUME NEW a \in S, NEW b \in S, NEW c \in S
        PROVE  Flip(f)[<<a, c>>] <= Flip(f)[<<a, b>>] + Flip(f)[<<b, c>>]
    <3>1. f[<<c, a>>] <= f[<<c, b>>] + f[<<b, a>>]
      BY <1>2 DEF MetricOn
    <3>2. Flip(f)[<<a, c>>] = f[<<c, a>>] /\ Flip(f)[<<a, b>>] = f[<<b, a>>] /\ Flip(f)[<<b, c>>] = f[<<c, b>>]
      BY <1>1
    <3> QED BY <2>1, <3>1, <3>2
  <2> QED BY <2>2, <2>3, <2>4 DEF MetricOn
<1>3. MetricOn(S, Flip(d)) /\ Under(S, Flip(d), Flip(arcs))
  <2>1. ASSUME NEW a \in S, NEW b \in S, NEW w \in Flip(arcs)[<<a, b>>] PROVE Flip(d)[<<a, b>>] <= w
    <3>1. Flip(arcs)[<<a, b>>] = arcs[<<b, a>>] /\ Flip(d)[<<a, b>>] = d[<<b, a>>]
      BY <1>1
    <3> QED BY <2>1, <3>1 DEF Spanned, Under
  <2> QED BY <1>2, <2>1 DEF Spanned, Under
<1>4. ASSUME NEW e, MetricOn(S, e), Under(S, e, Flip(arcs)), NEW a \in S, NEW b \in S
      PROVE  e[<<a, b>>] <= Flip(d)[<<a, b>>]
  <2>1. MetricOn(S, Flip(e)) /\ Under(S, Flip(e), arcs)
    <3>1. ASSUME NEW u \in S, NEW v \in S, NEW w \in arcs[<<u, v>>] PROVE Flip(e)[<<u, v>>] <= w
      <4>1. Flip(arcs)[<<v, u>>] = arcs[<<u, v>>] /\ Flip(e)[<<u, v>>] = e[<<v, u>>]
        BY <1>1
      <4> QED BY <1>4, <3>1, <4>1 DEF Under
    <3> QED BY <1>2, <1>4, <3>1 DEF Under
  <2>2. Flip(e)[<<b, a>>] <= d[<<b, a>>]
    BY <2>1 DEF Spanned
  <2> QED BY <1>1, <2>2
<1> QED BY <1>3, <1>4 DEF Spanned

(* The first arc of a shortest path.                                       *)
LEMMA FirstArc ==
    ASSUME NEW S \in SUBSET Nodes, NEW arcs, NEW d, Spanned(S, arcs, d),
           \A a, b \in S : arcs[<<a, b>>] \subseteq Nat,
           NEW x \in S, NEW y \in S, x # y, d[<<x, y>>] < Inf
    PROVE  \E b \in S : \E w \in arcs[<<x, b>>] : w + d[<<b, y>>] <= d[<<x, y>>]
<1> DEFINE Starts(c) == {n \in Nat : \E b \in S : \E w \in arcs[<<x, b>>] : n = w + d[<<b, c>>]}
           e == [a \in S \X S |-> IF a[1] = x /\ a[2] # x THEN Lowest(Starts(a[2]) \cup {Inf}) ELSE d[a]]
<1>1. /\ Inf \in Nat
      /\ \A a, b \in S : d[<<a, b>>] \in Nat /\ d[<<a, b>>] <= Inf
      /\ \A a \in S : d[<<a, a>>] = 0
      /\ \A a, b, c \in S : d[<<a, c>>] <= d[<<a, b>>] + d[<<b, c>>]
      /\ \A a, b \in S : \A w \in arcs[<<a, b>>] : w \in Nat /\ d[<<a, b>>] <= w
  BY InfAssumption DEF Spanned, MetricOn, Under
<1>2. /\ \A c \in S : c # x => e[<<x, c>>] = Lowest(Starts(c) \cup {Inf})
      /\ \A a, b \in S : a # x \/ b = x => e[<<a, b>>] = d[<<a, b>>]
  OBVIOUS
<1>3. ASSUME NEW c \in S, c # x
      PROVE  /\ e[<<x, c>>] \in Starts(c) \cup {Inf} /\ e[<<x, c>>] \in Nat /\ e[<<x, c>>] <= Inf
             /\ \A n \in Starts(c) : e[<<x, c>>] <= n
  <2>1. Starts(c) \cup {Inf} \in SUBSET Nat /\ Starts(c) \cup {Inf} # {}
    BY <1>1
  <2>2. /\ Lowest(Starts(c) \cup {Inf}) \in Starts(c) \cup {Inf}
        /\ \A n \in Starts(c) \cup {Inf} : Lowest(Starts(c) \cup {Inf}) <= n
    <3> HIDE DEF Starts
    <3> QED BY <2>1, LowestIsLeast
  <2> HIDE DEF Starts, e
  <2> QED BY <1>2, <1>3, <2>1, <2>2
<1>4. ASSUME NEW c \in S, NEW b \in S, NEW w \in arcs[<<x, b>>]
      PROVE  w + d[<<b, c>>] \in Starts(c)
  <2>1. w \in Nat /\ d[<<b, c>>] \in Nat
    BY <1>1
  <2>2. w + d[<<b, c>>] \in Nat
    BY <2>1
  <2> QED BY <2>2
<1>5. ASSUME NEW c \in S, NEW n \in Starts(c)
      PROVE  \E b \in S : \E w \in arcs[<<x, b>>] : n = w + d[<<b, c>>]
  OBVIOUS
<1> HIDE DEF Starts, e
<1>6. ASSUME NEW c \in S PROVE d[<<x, c>>] <= e[<<x, c>>] /\ e[<<x, c>>] \in Nat /\ e[<<x, c>>] <= Inf
  <2>1. CASE c = x
    BY <1>1, <1>2, <2>1
  <2>2. CASE c # x /\ e[<<x, c>>] = Inf
    BY <1>1, <2>2
  <2>3. CASE c # x /\ e[<<x, c>>] \in Starts(c)
    <3>1a. PICK b \in S : \E w \in arcs[<<x, b>>] : e[<<x, c>>] = w + d[<<b, c>>]
      BY <1>5, <2>3
    <3>1. PICK w \in arcs[<<x, b>>] : e[<<x, c>>] = w + d[<<b, c>>]
      BY <3>1a
    <3>2. /\ d[<<x, c>>] <= d[<<x, b>>] + d[<<b, c>>] /\ d[<<x, b>>] <= w /\ w \in Nat
          /\ d[<<x, c>>] \in Nat /\ d[<<x, b>>] \in Nat /\ d[<<b, c>>] \in Nat
      BY <1>1
    <3>3. e[<<x, c>>] \in Nat /\ e[<<x, c>>] <= Inf
      BY <1>3, <2>3
    <3> QED BY <3>1, <3>2, <3>3
  <2> QED BY <1>3, <2>1, <2>2, <2>3
<1>7. ASSUME NEW a \in S, NEW b \in S PROVE e[<<a, b>>] \in Nat /\ e[<<a, b>>] <= Inf
  <2>1. CASE a = x
    BY <1>6, <2>1
  <2>2. CASE a # x
    BY <1>1, <1>2, <2>2
  <2> QED BY <2>1, <2>2
<1>8. ASSUME NEW a \in S, NEW b \in S, NEW c \in S PROVE e[<<a, c>>] <= e[<<a, b>>] + e[<<b, c>>]
  <2>1. CASE a # x /\ b # x
    <3>1. e[<<a, c>>] = d[<<a, c>>] /\ e[<<a, b>>] = d[<<a, b>>] /\ e[<<b, c>>] = d[<<b, c>>]
      BY <1>2, <2>1
    <3> QED BY <1>1, <3>1
  <2>2. CASE a # x /\ b = x
    <3>1. e[<<a, c>>] = d[<<a, c>>] /\ e[<<a, x>>] = d[<<a, x>>]
      BY <1>2, <2>2
    <3>2. d[<<x, c>>] <= e[<<x, c>>] /\ e[<<x, c>>] \in Nat
      BY <1>6
    <3>3. d[<<a, c>>] <= d[<<a, x>>] + d[<<x, c>>] /\ d[<<a, x>>] \in Nat /\ d[<<x, c>>] \in Nat /\ d[<<a, c>>] \in Nat
      BY <1>1
    <3>4. d[<<a, c>>] <= d[<<a, x>>] + e[<<x, c>>]
      BY <3>2, <3>3
    <3> QED BY <2>2, <3>1, <3>4
  <2>3. CASE a = x /\ b = x
    <3>1. e[<<x, x>>] = 0
      BY <1>1, <1>2
    <3> QED BY <1>7, <2>3, <3>1
  <2>4. CASE a = x /\ c = x
    <3>1. e[<<x, x>>] = 0
      BY <1>1, <1>2
    <3>2. e[<<a, b>>] \in Nat /\ e[<<b, c>>] \in Nat
      BY <1>7
    <3> QED BY <2>4, <3>1, <3>2
  <2>5. CASE a = x /\ b # x /\ c # x
    <3>1. e[<<b, c>>] = d[<<b, c>>] /\ d[<<b, c>>] \in Nat
      BY <1>1, <1>2, <2>5
    <3>2. CASE e[<<x, b>>] = Inf
      BY <1>3, <2>5, <3>1, <3>2
    <3>3. CASE e[<<x, b>>] \in Starts(b)
      <4>1a. PICK z \in S : \E w \in arcs[<<x, z>>] : e[<<x, b>>] = w + d[<<z, b>>]
        BY <1>5, <3>3
      <4>1. PICK w \in arcs[<<x, z>>] : e[<<x, b>>] = w + d[<<z, b>>]
        BY <4>1a
      <4>2. e[<<x, c>>] <= w + d[<<z, c>>] /\ e[<<x, c>>] \in Nat
        BY <1>3, <1>4, <2>5
      <4>3. /\ d[<<z, c>>] <= d[<<z, b>>] + d[<<b, c>>] /\ w \in Nat
            /\ d[<<z, c>>] \in Nat /\ d[<<z, b>>] \in Nat
        BY <1>1
      <4>4. e[<<x, c>>] <= e[<<x, b>>] + d[<<b, c>>]
        BY <3>1, <4>1, <4>2, <4>3
      <4> QED BY <2>5, <3>1, <4>4
    <3>4. e[<<x, b>>] = Inf \/ e[<<x, b>>] \in Starts(b)
      BY <1>3, <2>5
    <3> QED BY <3>2, <3>3, <3>4
  <2> QED BY <2>1, <2>2, <2>3, <2>4, <2>5
<1>9. MetricOn(S, e)
  <2>1. \A a \in S : e[<<a, a>>] = 0
    BY <1>1, <1>2
  <2> QED BY <1>7, <1>8, <2>1 DEF MetricOn
<1>10. Under(S, e, arcs)
  <2> SUFFICES ASSUME NEW a \in S, NEW b \in S, NEW w \in arcs[<<a, b>>] PROVE e[<<a, b>>] <= w
    BY DEF Under
  <2>1. CASE a # x \/ b = x
    <3>1. e[<<a, b>>] = d[<<a, b>>]
      BY <1>2, <2>1
    <3> QED BY <1>1, <3>1
  <2>2. CASE a = x /\ b # x
    <3>1. w + d[<<b, b>>] \in Starts(b) /\ d[<<b, b>>] = 0 /\ w \in Nat
      BY <1>1, <1>4, <2>2
    <3>2. e[<<x, b>>] <= w + 0
      BY <1>3, <2>2, <3>1
    <3> QED BY <2>2, <3>1, <3>2
  <2> QED BY <2>1, <2>2
<1>11. e[<<x, y>>] <= d[<<x, y>>]
  BY <1>9, <1>10 DEF Spanned
<1>12. e[<<x, y>>] \in Starts(y)
  <2>1. e[<<x, y>>] # Inf
    BY <1>1, <1>7, <1>11
  <2> QED BY <1>3, <2>1
<1>13a. PICK b \in S : \E w \in arcs[<<x, b>>] : e[<<x, y>>] = w + d[<<b, y>>]
  BY <1>5, <1>12
<1>13. PICK w \in arcs[<<x, b>>] : e[<<x, y>>] = w + d[<<b, y>>]
  BY <1>13a
<1> QED BY <1>11, <1>13

(* A node that can be reached is reached over a last arc.                  *)
LEMMA LastArc ==
    ASSUME NEW S \in SUBSET Nodes, NEW arcs, NEW d, Spanned(S, arcs, d),
           \A a, b \in S : arcs[<<a, b>>] \subseteq Nat,
           NEW x \in S, NEW y \in S, x # y, d[<<x, y>>] < Inf
    PROVE  \E b \in S : \E w \in arcs[<<b, y>>] : d[<<x, b>>] + w <= d[<<x, y>>]
<1>1. \A f : \A a, b \in S : Flip(f)[<<a, b>>] = f[<<b, a>>]
  BY DEF Flip
<1>2. Spanned(S, Flip(arcs), Flip(d))
  BY FlipSpanned
<1>3. ASSUME NEW a \in S, NEW b \in S PROVE Flip(arcs)[<<a, b>>] \subseteq Nat
  <2>1. Flip(arcs)[<<a, b>>] = arcs[<<b, a>>]
    BY <1>1
  <2> QED BY <2>1
<1>4. Flip(d)[<<y, x>>] = d[<<x, y>>]
  BY <1>1
<1>5a. PICK b \in S : \E w \in Flip(arcs)[<<y, b>>] : w + Flip(d)[<<b, x>>] <= Flip(d)[<<y, x>>]
  BY <1>2, <1>3, <1>4, FirstArc
<1>5. PICK w \in Flip(arcs)[<<y, b>>] : w + Flip(d)[<<b, x>>] <= Flip(d)[<<y, x>>]
  BY <1>5a
<1>6. w \in arcs[<<b, y>>] /\ Flip(d)[<<b, x>>] = d[<<x, b>>]
  BY <1>1, <1>5
<1>7. w \in Nat /\ d[<<x, b>>] \in Nat
  BY <1>3, <1>5 DEF Spanned, MetricOn
<1>8. d[<<x, b>>] + w <= d[<<x, y>>]
  <2>1. w + d[<<x, b>>] <= d[<<x, y>>]
    BY <1>4, <1>5, <1>6, Zenon
  <2> QED BY <1>7, <2>1
<1> QED BY <1>6, <1>8

(* When a node goes, arcs for the ways over it keep the others' distances. *)
LEMMA NodeIsReplaced ==
    ASSUME NEW S \in SUBSET Nodes, NEW arcs, NEW d, Spanned(S, arcs, d),
           NEW x \in S, NEW T, T = S \ {x}, NEW others, Under(T, d, others),
           \A a, b \in S : arcs[<<a, b>>] \subseteq Nat,
           \A a, b \in T : others[<<a, b>>] \subseteq Nat,
           \A a, b \in T : \A w \in arcs[<<a, b>>] : \E v \in others[<<a, b>>] : v <= w,
           \A a, b \in T : \A u \in arcs[<<a, x>>] : \A v \in arcs[<<x, b>>] :
               \E w \in others[<<a, b>>] : w <= u + v
    PROVE  Spanned(T, others, d)
<1>1. MetricOn(T, d)
  BY DEF Spanned, MetricOn
<1> SUFFICES ASSUME NEW e, MetricOn(T, e), Under(T, e, others)
             PROVE  \A a, b \in T : e[<<a, b>>] <= d[<<a, b>>]
  BY <1>1 DEF Spanned
<1> DEFINE To(a) == {n \in Nat : \E b \in T : \E w \in arcs[<<b, x>>] : n = e[<<a, b>>] + w}
           From(a) == {n \in Nat : \E b \in T : \E w \in arcs[<<x, b>>] : n = w + e[<<b, a>>]}
           f == [p \in S \X S |-> IF p[1] = x /\ p[2] = x THEN 0
                                  ELSE IF p[1] = x THEN Lowest(From(p[2]) \cup {Inf})
                                  ELSE IF p[2] = x THEN Lowest(To(p[1]) \cup {Inf})
                                  ELSE e[p]]
<1>2. /\ Inf \in Nat
      /\ \A a, b \in T : e[<<a, b>>] \in Nat /\ e[<<a, b>>] <= Inf
      /\ \A a \in T : e[<<a, a>>] = 0
      /\ \A a, b, c \in T : e[<<a, c>>] <= e[<<a, b>>] + e[<<b, c>>]
      /\ \A a, b \in T : \A w \in others[<<a, b>>] : w \in Nat /\ e[<<a, b>>] <= w
      /\ T \subseteq S /\ x \notin T /\ S = T \cup {x}
  BY InfAssumption DEF MetricOn, Under
<1>3. /\ f[<<x, x>>] = 0
      /\ \A a \in T : f[<<x, a>>] = Lowest(From(a) \cup {Inf}) /\ f[<<a, x>>] = Lowest(To(a) \cup {Inf})
      /\ \A a, b \in T : f[<<a, b>>] = e[<<a, b>>]
  <2>1. \A a \in T : a \in S /\ a # x /\ x \in S
    BY <1>2
  <2> HIDE DEF To, From
  <2>2. f[<<x, x>>] = 0
    BY <1>2
  <2>3. ASSUME NEW a \in T PROVE f[<<x, a>>] = Lowest(From(a) \cup {Inf}) /\ f[<<a, x>>] = Lowest(To(a) \cup {Inf})
    <3>1. <<x, a>> \in S \X S /\ <<a, x>> \in S \X S /\ a # x
      BY <2>1
    <3> QED BY <3>1
  <2>4. ASSUME NEW a \in T, NEW b \in T PROVE f[<<a, b>>] = e[<<a, b>>]
    <3>1. <<a, b>> \in S \X S /\ a # x /\ b # x
      BY <2>1
    <3> QED BY <3>1
  <2> HIDE DEF f
  <2> QED BY <2>2, <2>3, <2>4
<1>4. ASSUME NEW a \in T, NEW b \in T, NEW w \in arcs[<<b, x>>] PROVE e[<<a, b>>] + w \in To(a) /\ w \in Nat
  <2>1. w \in Nat /\ e[<<a, b>>] \in Nat
    BY <1>2
  <2>2. e[<<a, b>>] + w \in Nat
    BY <2>1
  <2> QED BY <2>1, <2>2
<1>5. ASSUME NEW a \in T, NEW b \in T, NEW w \in arcs[<<x, b>>] PROVE w + e[<<b, a>>] \in From(a) /\ w \in Nat
  <2>1. w \in Nat /\ e[<<b, a>>] \in Nat
    BY <1>2
  <2>2. w + e[<<b, a>>] \in Nat
    BY <2>1
  <2> QED BY <2>1, <2>2
<1>6. \A a \in T : To(a) \in SUBSET Nat /\ From(a) \in SUBSET Nat
  OBVIOUS
<1>6a. \A a \in T : \A n \in To(a) : \E b \in T : \E w \in arcs[<<b, x>>] : n = e[<<a, b>>] + w
  OBVIOUS
<1>6b. \A a \in T : \A n \in From(a) : \E b \in T : \E w \in arcs[<<x, b>>] : n = w + e[<<b, a>>]
  OBVIOUS
<1> HIDE DEF To, From, f
<1>7. ASSUME NEW a \in T
      PROVE  /\ f[<<a, x>>] \in To(a) \cup {Inf} /\ f[<<a, x>>] \in Nat /\ f[<<a, x>>] <= Inf
             /\ \A n \in To(a) : f[<<a, x>>] <= n
             /\ f[<<x, a>>] \in From(a) \cup {Inf} /\ f[<<x, a>>] \in Nat /\ f[<<x, a>>] <= Inf
             /\ \A n \in From(a) : f[<<x, a>>] <= n
  <2>1. ASSUME NEW W \in SUBSET Nat
        PROVE  /\ Lowest(W \cup {Inf}) \in W \cup {Inf} /\ Lowest(W \cup {Inf}) \in Nat
               /\ Lowest(W \cup {Inf}) <= Inf /\ \A n \in W : Lowest(W \cup {Inf}) <= n
    <3>1. W \cup {Inf} \in SUBSET Nat /\ W \cup {Inf} # {}
      BY <1>2
    <3> QED BY <3>1, LowestIsLeast
  <2>2. /\ f[<<a, x>>] \in To(a) \cup {Inf} /\ f[<<a, x>>] \in Nat /\ f[<<a, x>>] <= Inf
        /\ \A n \in To(a) : f[<<a, x>>] <= n
    <3>1. f[<<a, x>>] = Lowest(To(a) \cup {Inf}) /\ To(a) \in SUBSET Nat
      BY <1>3, <1>6
    <3> QED BY <2>1, <3>1
  <2>3. /\ f[<<x, a>>] \in From(a) \cup {Inf} /\ f[<<x, a>>] \in Nat /\ f[<<x, a>>] <= Inf
        /\ \A n \in From(a) : f[<<x, a>>] <= n
    <3>1. f[<<x, a>>] = Lowest(From(a) \cup {Inf}) /\ From(a) \in SUBSET Nat
      BY <1>3, <1>6
    <3>2. /\ Lowest(From(a) \cup {Inf}) \in From(a) \cup {Inf} /\ Lowest(From(a) \cup {Inf}) \in Nat
          /\ Lowest(From(a) \cup {Inf}) <= Inf /\ \A n \in From(a) : Lowest(From(a) \cup {Inf}) <= n
      BY <2>1, <3>1
    <3> QED BY <3>1, <3>2, Zenon
  <2> QED BY <2>2, <2>3
<1>8. ASSUME NEW a \in T, NEW b \in T PROVE f[<<a, b>>] <= f[<<a, x>>] + f[<<x, b>>]
  <2>1. /\ f[<<a, b>>] \in Nat /\ f[<<a, b>>] <= Inf /\ f[<<a, x>>] \in Nat /\ f[<<x, b>>] \in Nat
        /\ f[<<a, b>>] = e[<<a, b>>]
    <3>1. f[<<a, b>>] = e[<<a, b>>]
      BY <1>3
    <3>2. e[<<a, b>>] \in Nat /\ e[<<a, b>>] <= Inf
      BY <1>2
    <3>3. f[<<a, x>>] \in Nat /\ f[<<x, b>>] \in Nat
      BY <1>7
    <3> QED BY <3>1, <3>2, <3>3
  <2>2. CASE f[<<a, x>>] = Inf \/ f[<<x, b>>] = Inf
    BY <1>2, <2>1, <2>2
  <2>3. CASE f[<<a, x>>] \in To(a) /\ f[<<x, b>>] \in From(b)
    <3>0. f[<<a, x>>] \in To(a) /\ f[<<x, b>>] \in From(b)
      BY <2>3
    <3>1. PICK p \in T : \E u \in arcs[<<p, x>>] : f[<<a, x>>] = e[<<a, p>>] + u
      <4>1. \A n \in To(a) : \E p \in T : \E u \in arcs[<<p, x>>] : n = e[<<a, p>>] + u
        BY <1>6a
      <4> QED BY <3>0, <4>1
    <3>2. PICK u \in arcs[<<p, x>>] : f[<<a, x>>] = e[<<a, p>>] + u
      BY <3>1
    <3>3. PICK q \in T : \E v \in arcs[<<x, q>>] : f[<<x, b>>] = v + e[<<q, b>>]
      BY <1>6b, <3>0, Zenon
    <3>4. PICK v \in arcs[<<x, q>>] : f[<<x, b>>] = v + e[<<q, b>>]
      BY <3>3
    <3>5. PICK w \in others[<<p, q>>] : w <= u + v
      OBVIOUS
    <3>6. w \in Nat /\ u \in Nat /\ v \in Nat /\ e[<<p, q>>] <= w
      BY <1>2, <1>4, <1>5
    <3>7. /\ e[<<a, b>>] <= e[<<a, p>>] + e[<<p, b>>] /\ e[<<p, b>>] <= e[<<p, q>>] + e[<<q, b>>]
          /\ e[<<a, p>>] \in Nat /\ e[<<p, q>>] \in Nat /\ e[<<q, b>>] \in Nat
          /\ e[<<a, b>>] \in Nat /\ e[<<p, b>>] \in Nat
      BY <1>2
    <3>8. e[<<a, b>>] <= (e[<<a, p>>] + u) + (v + e[<<q, b>>])
      BY <3>5, <3>6, <3>7
    <3> QED BY <2>1, <3>2, <3>4, <3>8
  <2> QED BY <1>7, <2>2, <2>3
<1>9. ASSUME NEW a \in T, NEW b \in T
      PROVE  f[<<a, x>>] <= f[<<a, b>>] + f[<<b, x>>] /\ f[<<x, a>>] <= f[<<x, b>>] + f[<<b, a>>]
  <2>0. /\ f[<<a, b>>] = e[<<a, b>>] /\ f[<<b, a>>] = e[<<b, a>>] /\ e[<<a, b>>] \in Nat /\ e[<<b, a>>] \in Nat
        /\ f[<<a, x>>] \in Nat /\ f[<<a, x>>] <= Inf /\ f[<<x, a>>] \in Nat /\ f[<<x, a>>] <= Inf
    BY <1>2, <1>3, <1>7
  <2>1. f[<<a, x>>] <= f[<<a, b>>] + f[<<b, x>>]
    <3>1. CASE f[<<b, x>>] = Inf
      BY <1>2, <2>0, <3>1
    <3>2. CASE f[<<b, x>>] \in To(b)
      <4>1. PICK p \in T : \E u \in arcs[<<p, x>>] : f[<<b, x>>] = e[<<b, p>>] + u
        BY <1>6a, <3>2, ZenonT(30)
      <4>2. PICK u \in arcs[<<p, x>>] : f[<<b, x>>] = e[<<b, p>>] + u
        BY <4>1
      <4>3. f[<<a, x>>] <= e[<<a, p>>] + u /\ u \in Nat
        BY <1>4, <1>7
      <4>4. e[<<a, p>>] <= e[<<a, b>>] + e[<<b, p>>] /\ e[<<a, p>>] \in Nat /\ e[<<b, p>>] \in Nat
        BY <1>2
      <4>5. f[<<a, x>>] <= e[<<a, b>>] + (e[<<b, p>>] + u)
        BY <2>0, <4>3, <4>4
      <4> QED BY <2>0, <4>2, <4>5
    <3> QED BY <1>7, <3>1, <3>2
  <2>2. f[<<x, a>>] <= f[<<x, b>>] + f[<<b, a>>]
    <3>1. CASE f[<<x, b>>] = Inf
      BY <1>2, <2>0, <3>1
    <3>2. CASE f[<<x, b>>] \in From(b)
      <4>1. PICK p \in T : \E u \in arcs[<<x, p>>] : f[<<x, b>>] = u + e[<<p, b>>]
        BY <1>6b, <3>2
      <4>2. PICK u \in arcs[<<x, p>>] : f[<<x, b>>] = u + e[<<p, b>>]
        BY <4>1
      <4>3. f[<<x, a>>] <= u + e[<<p, a>>] /\ u \in Nat
        BY <1>5, <1>7
      <4>4. e[<<p, a>>] <= e[<<p, b>>] + e[<<b, a>>] /\ e[<<p, a>>] \in Nat /\ e[<<p, b>>] \in Nat
        BY <1>2
      <4>5. f[<<x, a>>] <= (u + e[<<p, b>>]) + e[<<b, a>>]
        BY <2>0, <4>3, <4>4
      <4> QED BY <2>0, <4>2, <4>5
    <3> QED BY <1>7, <3>1, <3>2
  <2> QED BY <2>1, <2>2
<1>10. ASSUME NEW a \in S, NEW b \in S PROVE f[<<a, b>>] \in Nat /\ f[<<a, b>>] <= Inf
  <2>1. CASE a = x /\ b = x
    BY <1>2, <1>3, <2>1
  <2>2. CASE a = x /\ b \in T
    BY <1>7, <2>2
  <2>3. CASE a \in T /\ b = x
    BY <1>7, <2>3
  <2>4. CASE a \in T /\ b \in T
    BY <1>2, <1>3, <2>4
  <2> QED BY <1>2, <2>1, <2>2, <2>3, <2>4
<1>11. MetricOn(S, f)
  <2>1. \A a \in S : f[<<a, a>>] = 0
    BY <1>2, <1>3
  <2>2. ASSUME NEW a \in S, NEW b \in S, NEW c \in S PROVE f[<<a, c>>] <= f[<<a, b>>] + f[<<b, c>>]
    <3>0. f[<<a, b>>] \in Nat /\ f[<<b, c>>] \in Nat /\ f[<<a, c>>] \in Nat
      BY <1>10
    <3>1. CASE a = b
      <4>1. f[<<a, b>>] = 0 /\ f[<<a, c>>] = f[<<b, c>>]
        BY <2>1, <3>1
      <4> QED BY <3>0, <4>1
    <3>2. CASE b = c
      <4>1. f[<<b, c>>] = 0 /\ f[<<a, c>>] = f[<<a, b>>]
        BY <2>1, <3>2
      <4> QED BY <3>0, <4>1
    <3>3. CASE a = c
      <4>1. f[<<a, c>>] = 0
        BY <2>1, <3>3
      <4> QED BY <3>0, <4>1
    <3>4. CASE a \in T /\ b \in T /\ c \in T
      <4>1. f[<<a, b>>] = e[<<a, b>>] /\ f[<<b, c>>] = e[<<b, c>>] /\ f[<<a, c>>] = e[<<a, c>>]
        BY <1>3, <3>4
      <4> QED BY <1>2, <3>4, <4>1
    <3>5. CASE a = x /\ b \in T /\ c \in T
      BY <1>9, <3>5
    <3>6. CASE b = x /\ a \in T /\ c \in T
      BY <1>8, <3>6
    <3>7. CASE c = x /\ a \in T /\ b \in T
      BY <1>9, <3>7
    <3> QED BY <1>2, <3>1, <3>2, <3>3, <3>4, <3>5, <3>6, <3>7
  <2> QED BY <1>10, <2>1, <2>2 DEF MetricOn
<1>12. Under(S, f, arcs)
  <2> SUFFICES ASSUME NEW a \in S, NEW b \in S, NEW w \in arcs[<<a, b>>] PROVE f[<<a, b>>] <= w
    BY DEF Under
  <2>0. w \in Nat
    OBVIOUS
  <2>1. CASE a = x /\ b = x
    BY <1>3, <2>0, <2>1
  <2>2. CASE a = x /\ b \in T
    <3>1. w + e[<<b, b>>] \in From(b) /\ e[<<b, b>>] = 0
      BY <1>2, <1>5, <2>2
    <3>2. f[<<x, b>>] <= w + 0
      BY <1>7, <2>2, <3>1
    <3> QED BY <2>0, <2>2, <3>2
  <2>3. CASE a \in T /\ b = x
    <3>1. e[<<a, a>>] + w \in To(a) /\ e[<<a, a>>] = 0
      BY <1>2, <1>4, <2>3
    <3>2. f[<<a, x>>] <= 0 + w
      BY <1>7, <2>3, <3>1
    <3> QED BY <2>0, <2>3, <3>2
  <2>4. CASE a \in T /\ b \in T
    <3>1. PICK v \in others[<<a, b>>] : v <= w
      BY <2>4
    <3>2. e[<<a, b>>] <= v /\ v \in Nat /\ e[<<a, b>>] \in Nat /\ f[<<a, b>>] = e[<<a, b>>]
      BY <1>2, <1>3, <2>4, <3>1
    <3> QED BY <2>0, <3>1, <3>2
  <2> QED BY <1>2, <2>1, <2>2, <2>3, <2>4
<1>13. \A a, b \in S : f[<<a, b>>] <= d[<<a, b>>]
  BY <1>11, <1>12 DEF Spanned
<1>14. ASSUME NEW a \in T, NEW b \in T PROVE e[<<a, b>>] <= d[<<a, b>>]
  <2>1. f[<<a, b>>] <= d[<<a, b>>]
    BY <1>2, <1>13
  <2>2. f[<<a, b>>] = e[<<a, b>>]
    BY <1>3
  <2> QED BY <2>1, <2>2
<1> QED BY <1>14

(* A metric on some nodes is below the distances over arcs that begin at   *)
(* them.                                                                   *)
LEMMA MetricIsBelow ==
    ASSUME NEW S \in SUBSET Nodes, NEW arcs \in ArcSets,
           \A a \in Nodes \ S : \A b \in Nodes : arcs[<<a, b>>] = {},
           NEW e, MetricOn(S, e), Under(S, e, arcs)
    PROVE  \A a, b \in S : e[<<a, b>>] <= Distances(arcs)[<<a, b>>]
<1> DEFINE f == [p \in Nodes \X Nodes |-> IF p[1] \in S /\ p[2] \in S THEN e[p]
                                          ELSE IF p[2] \in S THEN Inf ELSE 0]
<1>1. /\ Inf \in Nat
      /\ \A a, b \in S : e[<<a, b>>] \in Nat /\ e[<<a, b>>] <= Inf
      /\ \A a \in S : e[<<a, a>>] = 0
      /\ \A a, b, c \in S : e[<<a, c>>] <= e[<<a, b>>] + e[<<b, c>>]
  BY InfAssumption DEF MetricOn
<1>2. /\ \A a, b \in S : f[<<a, b>>] = e[<<a, b>>]
      /\ \A a \in Nodes \ S : \A b \in S : f[<<a, b>>] = Inf
      /\ \A a \in Nodes : \A b \in Nodes \ S : f[<<a, b>>] = 0
  OBVIOUS
<1> HIDE DEF f
<1>3. ASSUME NEW a \in Nodes, NEW b \in Nodes PROVE f[<<a, b>>] \in Nat /\ f[<<a, b>>] <= Inf
  <2>1. CASE b \notin S
    BY <1>1, <1>2, <2>1
  <2>2. CASE b \in S /\ a \notin S
    BY <1>1, <1>2, <2>2
  <2>3. CASE b \in S /\ a \in S
    BY <1>1, <1>2, <2>3
  <2> QED BY <2>1, <2>2, <2>3
<1>4. MetricOn(Nodes, f)
  <2>1. ASSUME NEW a \in Nodes PROVE f[<<a, a>>] = 0
    <3>1. CASE a \in S
      BY <1>1, <1>2, <3>1
    <3>2. CASE a \notin S
      BY <1>2, <3>2
    <3> QED BY <3>1, <3>2
  <2>2. ASSUME NEW a \in Nodes, NEW b \in Nodes, NEW c \in Nodes PROVE f[<<a, c>>] <= f[<<a, b>>] + f[<<b, c>>]
    <3>0. /\ f[<<a, b>>] \in Nat /\ f[<<b, c>>] \in Nat /\ f[<<a, c>>] \in Nat
          /\ f[<<a, c>>] <= Inf
      BY <1>3
    <3>1. CASE c \notin S
      <4>1. f[<<a, c>>] = 0
        BY <1>2, <3>1
      <4> QED BY <3>0, <4>1
    <3>2. CASE c \in S /\ b \notin S
      <4>1. f[<<b, c>>] = Inf
        BY <1>2, <3>2
      <4> QED BY <1>1, <3>0, <4>1
    <3>3. CASE c \in S /\ b \in S /\ a \notin S
      <4>1. f[<<a, b>>] = Inf
        BY <1>2, <3>3
      <4> QED BY <1>1, <3>0, <4>1
    <3>4. CASE c \in S /\ b \in S /\ a \in S
      <4>1. f[<<a, b>>] = e[<<a, b>>] /\ f[<<b, c>>] = e[<<b, c>>] /\ f[<<a, c>>] = e[<<a, c>>]
        BY <1>2, <3>4
      <4> QED BY <1>1, <3>4, <4>1
    <3> QED BY <3>1, <3>2, <3>3, <3>4
  <2> QED BY <1>3, <2>1, <2>2 DEF MetricOn
<1>5. Under(Nodes, f, arcs)
  <2> SUFFICES ASSUME NEW a \in Nodes, NEW b \in Nodes, NEW w \in arcs[<<a, b>>] PROVE f[<<a, b>>] <= w
    BY DEF Under
  <2>1. w \in Nat /\ a \in S
    BY <1>1 DEF ArcSets
  <2>2. CASE b \in S
    BY <1>2, <2>1, <2>2 DEF Under
  <2>3. CASE b \notin S
    BY <1>2, <2>1, <2>3
  <2> QED BY <2>2, <2>3
<1>6. \A a, b \in Nodes : f[<<a, b>>] <= Distances(arcs)[<<a, b>>]
  BY <1>4, <1>5, DistancesAreSpanned DEF Spanned
<1> QED BY <1>2, <1>6

-----------------------------------------------------------------------------
(* Lists of links                                                          *)

(* The records in the lists of ContractionHierarchy.                       *)
Links == [node : Nodes, weight : Weight, middle : Int]

(* Where a list has links to y, and how many.                              *)
At(list, y) == {i \in 1 .. Len(list) : list[i].node = y}

(* How many links a list has to a node.                                    *)
Count(list, y) == Cardinality(At(list, y))

(* As in Remaining.                                                        *)
WeightsTo(list, y) == {link.weight : link \in {l \in ToSet(list) : l.node = y}}

(* The weights of the links to a node are those at its positions.          *)
LEMMA WeightsFacts ==
    ASSUME NEW list \in Seq(Links), NEW y
    PROVE  /\ WeightsTo(list, y) \in SUBSET Weight
           /\ \A w : w \in WeightsTo(list, y) <=> \E i \in At(list, y) : list[i].weight = w
<1>1. DOMAIN list = 1 .. Len(list) /\ \A i \in 1 .. Len(list) : list[i] \in Links
  OBVIOUS
<1>2. \A l \in Links : l.weight \in Weight
  BY DEF Links
<1>3. ASSUME NEW w PROVE w \in WeightsTo(list, y) <=> \E i \in At(list, y) : list[i].weight = w
  BY <1>1 DEF WeightsTo, ToSet, At
<1>4. \A i \in At(list, y) : list[i].weight \in Weight
  BY <1>1, <1>2 DEF At
<1>5. \A w \in WeightsTo(list, y) : w \in Weight
  BY <1>3, <1>4
<1> QED BY <1>3, <1>5

(* There is no link to a node if and only if the count of its links is     *)
(* zero.                                                                   *)
LEMMA CountFacts ==
    ASSUME NEW list \in Seq(Links), NEW y
    PROVE  /\ IsFiniteSet(At(list, y)) /\ Count(list, y) \in Nat
           /\ Count(list, y) = 0 <=> At(list, y) = {}
           /\ Count(list, y) = 0 <=> WeightsTo(list, y) = {}
<1>1. IsFiniteSet(1 .. Len(list))
  BY FS_Interval
<1>2. At(list, y) \in SUBSET (1 .. Len(list))
  BY DEF At
<1>3. IsFiniteSet(At(list, y))
  BY <1>1, <1>2, FS_Subset
<1>4. At(list, y) = {} <=> WeightsTo(list, y) = {}
  BY WeightsFacts
<1> QED BY <1>3, <1>4, FS_CardinalityType, FS_EmptySet DEF Count

(* A single link has the single weight.                                    *)
LEMMA OneLink ==
    ASSUME NEW list \in Seq(Links), NEW y, Count(list, y) <= 1, NEW i \in At(list, y)
    PROVE  WeightsTo(list, y) = {list[i].weight}
<1>1. Count(list, y) = 1
  BY CountFacts
<1>2. PICK j : At(list, y) = {j}
  BY <1>1, CountFacts, FS_Singleton DEF Count
<1>3. At(list, y) = {i}
  BY <1>2
<1> QED BY <1>3, WeightsFacts

(* PositionOf finds a link to the node, if there is one.                   *)
LEMMA PositionFacts ==
    ASSUME NEW list \in Seq(Links), NEW y
    PROVE  /\ At(list, y) = {} => PositionOf(y, list) = 0
           /\ At(list, y) # {} => /\ PositionOf(y, list) \in At(list, y)
                                  /\ PositionOf(y, list) \in Nat \ {0}
<1>1. PositionOf(y, list) = IF At(list, y) # {} THEN Min(At(list, y)) ELSE 0
  BY DEF PositionOf, SelectInSeq, At
<1>2. At(list, y) \in SUBSET Nat /\ \A i \in At(list, y) : i # 0
  BY DEF At
<1>3. At(list, y) # {} => Min(At(list, y)) \in At(list, y)
  BY <1>2, LeastElement DEF Min
<1> QED BY <1>1, <1>2, <1>3

-----------------------------------------------------------------------------
(* A link more, at the end.                                                *)
LEMMA AppendFacts ==
    ASSUME NEW list \in Seq(Links), NEW link \in Links
    PROVE  /\ Append(list, link) \in Seq(Links)
           /\ \A y : Count(Append(list, link), y) = Count(list, y) + (IF link.node = y THEN 1 ELSE 0)
           /\ \A y : WeightsTo(Append(list, link), y)
                     = WeightsTo(list, y) \cup (IF link.node = y THEN {link.weight} ELSE {})
<1> DEFINE new == Append(list, link)
           n == Len(list) + 1
<1>1. /\ new \in Seq(Links) /\ Len(new) = n /\ new[n] = link /\ n \in Nat
      /\ \A i \in 1 .. Len(list) : new[i] = list[i]
  OBVIOUS
<1>2. 1 .. n = (1 .. Len(list)) \cup {n} /\ n \notin 1 .. Len(list)
  OBVIOUS
<1> HIDE DEF new, n
<1>3. ASSUME NEW y, link.node = y
      PROVE  /\ Count(new, y) = Count(list, y) + 1
             /\ WeightsTo(new, y) = WeightsTo(list, y) \cup {link.weight}
  <2>1. At(new, y) = At(list, y) \cup {n} /\ n \notin At(list, y)
    BY <1>1, <1>2, <1>3 DEF At
  <2>2. Count(new, y) = Count(list, y) + 1
    BY <2>1, CountFacts, FS_AddElement DEF Count
  <2>3. \A i \in At(list, y) : new[i] = list[i]
    BY <1>1 DEF At
  <2>4. \A w : w \in WeightsTo(new, y) <=> (\E i \in At(list, y) : list[i].weight = w) \/ w = link.weight
    BY <1>1, <2>1, <2>3, WeightsFacts
  <2>5. \A w : w \in WeightsTo(new, y) <=> w \in WeightsTo(list, y) \/ w = link.weight
    BY <2>4, WeightsFacts
  <2> QED BY <2>2, <2>5
<1>4. ASSUME NEW y, link.node # y
      PROVE  Count(new, y) = Count(list, y) /\ WeightsTo(new, y) = WeightsTo(list, y)
  <2>1. At(new, y) = At(list, y)
    BY <1>1, <1>2, <1>4 DEF At
  <2>3. \A i \in At(list, y) : new[i] = list[i]
    BY <1>1 DEF At
  <2>4. \A w : w \in WeightsTo(new, y) <=> \E i \in At(list, y) : list[i].weight = w
    BY <1>1, <2>1, <2>3, WeightsFacts
  <2>5. \A w : w \in WeightsTo(new, y) <=> w \in WeightsTo(list, y)
    BY <2>4, WeightsFacts
  <2> QED BY <2>1, <2>5 DEF Count
<1>5. \A y : Count(new, y) = Count(list, y) + (IF link.node = y THEN 1 ELSE 0)
  BY <1>3, <1>4, CountFacts
<1>6. \A y : WeightsTo(new, y) = WeightsTo(list, y) \cup (IF link.node = y THEN {link.weight} ELSE {})
  BY <1>3, <1>4
<1> QED BY <1>1, <1>5, <1>6 DEF new

(* Another link to the same node in the place of one.                      *)
LEMMA ExceptFacts ==
    ASSUME NEW list \in Seq(Links), NEW link \in Links, NEW i \in At(list, link.node)
    PROVE  /\ [list EXCEPT ![i] = link] \in Seq(Links)
           /\ \A y : Count([list EXCEPT ![i] = link], y) = Count(list, y)
           /\ \A y : y # link.node => WeightsTo([list EXCEPT ![i] = link], y) = WeightsTo(list, y)
           /\ link.weight \in WeightsTo([list EXCEPT ![i] = link], link.node)
           /\ WeightsTo([list EXCEPT ![i] = link], link.node) \subseteq WeightsTo(list, link.node) \cup {link.weight}
           /\ WeightsTo(list, link.node) \subseteq WeightsTo([list EXCEPT ![i] = link], link.node) \cup {list[i].weight}
<1> DEFINE new == [list EXCEPT ![i] = link]
<1>0. i \in 1 .. Len(list) /\ list[i].node = link.node
  BY DEF At
<1>1. /\ new \in Seq(Links) /\ Len(new) = Len(list) /\ new[i] = link
      /\ \A j \in 1 .. Len(list) : j # i => new[j] = list[j]
  BY <1>0
<1> HIDE DEF new
<1>2. \A y : At(new, y) = At(list, y)
  BY <1>0, <1>1 DEF At
<1>3. \A y : \A j \in At(list, y) : j # i => new[j] = list[j]
  BY <1>1 DEF At
<1>4. ASSUME NEW y, y # link.node PROVE WeightsTo(new, y) = WeightsTo(list, y)
  <2>1. \A j \in At(list, y) : new[j] = list[j]
    BY <1>0, <1>3, <1>4 DEF At
  <2>2. \A w : w \in WeightsTo(new, y) <=> \E j \in At(list, y) : list[j].weight = w
    BY <1>1, <1>2, <2>1, WeightsFacts
  <2> QED BY <2>2, WeightsFacts
<1>5. link.weight \in WeightsTo(new, link.node)
  BY <1>1, <1>2, WeightsFacts
<1>6. ASSUME NEW w \in WeightsTo(new, link.node) PROVE w \in WeightsTo(list, link.node) \cup {link.weight}
  <2>1. PICK j \in At(list, link.node) : new[j].weight = w
    BY <1>1, <1>2, WeightsFacts
  <2> QED BY <1>1, <1>3, <2>1, WeightsFacts
<1>7. ASSUME NEW w \in WeightsTo(list, link.node) PROVE w \in WeightsTo(new, link.node) \cup {list[i].weight}
  <2>1. PICK j \in At(list, link.node) : list[j].weight = w
    BY WeightsFacts
  <2> QED BY <1>1, <1>2, <1>3, <2>1, WeightsFacts
<1>8. \A y : Count(new, y) = Count(list, y)
  BY <1>2 DEF Count
<1> QED BY <1>1, <1>4, <1>5, <1>6, <1>7, <1>8 DEF new

(* swap_remove of the first link to a node.                                *)
LEMMA WithoutFacts ==
    ASSUME NEW list \in Seq(Links), NEW x, Count(list, x) > 0
    PROVE  /\ Without(x, list) \in Seq(Links)
           /\ Count(Without(x, list), x) = Count(list, x) - 1
           /\ \A y : y # x => /\ Count(Without(x, list), y) = Count(list, y)
                              /\ WeightsTo(Without(x, list), y) = WeightsTo(list, y)
           /\ \A y : At(list, y) = {} => At(Without(x, list), y) = {}
<1> DEFINE i == PositionOf(x, list)
           n == Len(list)
           new == Without(x, list)
<1>1. i \in At(list, x) /\ i \in 1 .. n /\ list[i].node = x /\ n \in Nat
  <2>1. At(list, x) # {}
    BY CountFacts
  <2>2. i \in At(list, x)
    BY <2>1, PositionFacts
  <2> QED BY <2>2 DEF At
<1>2. new = [k \in 1 .. n - 1 |-> IF k = i THEN list[n] ELSE list[k]]
  BY DEF Without, Last
<1>3. /\ \A k \in 1 .. n : list[k] \in Links
      /\ n \in 1 .. n /\ n - 1 \in Nat
  BY <1>1
<1> HIDE DEF i, n
<1>4. /\ new \in Seq(Links) /\ Len(new) = n - 1
      /\ \A k \in 1 .. n - 1 : new[k] = IF k = i THEN list[n] ELSE list[k]
  <2>1. new \in [1 .. n - 1 -> Links]
    BY <1>2, <1>3
  <2> QED BY <1>2, <1>3, <2>1, SMTT(20)
<1>4a. \A k \in 1 .. n - 1 : \E j \in 1 .. n : new[k] = list[j]
  BY <1>3, <1>4
<1> HIDE DEF new
<1>5. \A y : At(list, y) = {k \in 1 .. n : list[k].node = y} /\ At(new, y) = {k \in 1 .. n - 1 : new[k].node = y}
  BY <1>4 DEF At, n
<1>6. ASSUME NEW y
      PROVE  Cardinality(At(new, y)) = Cardinality(At(list, y) \ {i}) /\ IsFiniteSet(At(list, y) \ {i})
  <2> DEFINE f == [k \in At(new, y) |-> IF k = i THEN n ELSE k]
  <2>1. \A k \in At(new, y) : f[k] \in At(list, y) \ {i}
    BY <1>1, <1>3, <1>4, <1>5, SMTT(20)
  <2>2. \A a, b \in At(new, y) : f[a] = f[b] => a = b
    BY <1>1, <1>3, <1>4, <1>5
  <2>3. \A t \in At(list, y) \ {i} : \E k \in At(new, y) : f[k] = t
    <3> SUFFICES ASSUME NEW t \in At(list, y) \ {i} PROVE \E k \in At(new, y) : f[k] = t
      OBVIOUS
    <3>1. CASE t = n
      <4>1. i \in At(new, y)
        BY <1>1, <1>3, <1>4, <1>5, <3>1
      <4> QED BY <3>1, <4>1
    <3>2. CASE t # n
      <4>1. t \in At(new, y) /\ t # i
        BY <1>1, <1>3, <1>4, <1>5, <3>2
      <4> QED BY <4>1
    <3> QED BY <3>1, <3>2
  <2>4. f \in Bijection(At(new, y), At(list, y) \ {i})
    <3>1. f \in [At(new, y) -> At(list, y) \ {i}]
      BY <2>1
    <3> HIDE DEF f
    <3> QED BY <2>2, <2>3, <3>1, Fun_IsBij
  <2>5. ExistsBijection(At(new, y), At(list, y) \ {i})
    BY <2>4 DEF ExistsBijection
  <2>6. IsFiniteSet(At(new, y))
    BY <1>4, CountFacts
  <2> HIDE DEF f
  <2> QED BY <2>5, <2>6, FS_Bijection
<1>7. Count(new, x) = Count(list, x) - 1
  <2>1. Cardinality(At(list, x) \ {i}) = Cardinality(At(list, x)) - 1
    BY <1>1, CountFacts, FS_RemoveElement
  <2> QED BY <1>6, <2>1 DEF Count
<1>8. ASSUME NEW y, y # x
      PROVE  Count(new, y) = Count(list, y) /\ WeightsTo(new, y) = WeightsTo(list, y)
  <2>1. At(list, y) \ {i} = At(list, y)
    BY <1>1, <1>5, <1>8
  <2>2. Count(new, y) = Count(list, y)
    BY <1>6, <2>1 DEF Count
  <2>3. ASSUME NEW w \in WeightsTo(new, y) PROVE w \in WeightsTo(list, y)
    <3>1. PICK k \in At(new, y) : new[k].weight = w
      BY <1>4, WeightsFacts
    <3>2. k \in 1 .. n - 1 /\ new[k].node = y
      BY <1>5, <3>1
    <3>3. PICK j \in 1 .. n : new[k] = list[j]
      BY <1>4a, <3>2
    <3>4. j \in At(list, y) /\ list[j].weight = w
      BY <1>5, <3>1, <3>2, <3>3
    <3> QED BY <3>4, WeightsFacts
  <2>4. ASSUME NEW w \in WeightsTo(list, y) PROVE w \in WeightsTo(new, y)
    <3>1. PICK j \in At(list, y) : list[j].weight = w
      BY WeightsFacts
    <3>2. \E k \in At(new, y) : new[k].weight = w
      <4>1. j # i /\ j \in 1 .. n
        BY <1>1, <1>5, <1>8
      <4>2. CASE j = n
        <5>1. i \in At(new, y) /\ new[i] = list[j]
          BY <1>1, <1>3, <1>4, <1>5, <4>1, <4>2
        <5> QED BY <3>1, <5>1
      <4>3. CASE j # n
        <5>1. j \in At(new, y) /\ new[j] = list[j]
          BY <1>1, <1>3, <1>4, <1>5, <4>1, <4>3
        <5> QED BY <3>1, <5>1
      <4> QED BY <4>2, <4>3
    <3> QED BY <1>4, <3>2, WeightsFacts
  <2> QED BY <2>2, <2>3, <2>4
<1>9. ASSUME NEW y, NEW k \in At(new, y) PROVE At(list, y) # {}
  <2>1. k \in 1 .. n - 1 /\ new[k].node = y
    BY <1>5, <1>9
  <2>2. PICK j \in 1 .. n : new[k] = list[j]
    BY <1>4a, <2>1
  <2> QED BY <1>5, <2>1, <2>2
<1> QED BY <1>4, <1>7, <1>8, <1>9 DEF new

(* What is known of the links at one end of a pair after it was connected. *)
IsInserted(r, list, y, weight) ==
    /\ r.links \in Seq(Links)
    /\ \A z : z # y => Count(r.links, z) = Count(list, z) /\ WeightsTo(r.links, z) = WeightsTo(list, z)
    /\ Count(r.links, y) = IF At(list, y) = {} THEN 1 ELSE Count(list, y)
    /\ \E v \in WeightsTo(r.links, y) : v <= weight
    /\ \A w \in WeightsTo(list, y) : \E v \in WeightsTo(r.links, y) : v <= w
    /\ WeightsTo(r.links, y) \subseteq WeightsTo(list, y) \cup {weight}
    /\ r.result \in {"new", "shortened", "shorter"}
    /\ r.result = "new" <=> At(list, y) = {}
    /\ r.result = "shorter" => r.links = list
    /\ r.result # "shorter" => weight \in WeightsTo(r.links, y)
    /\ Count(list, y) <= 1 => (r.result = "shorter" <=> \E v \in WeightsTo(list, y) : ~weight < v)
    /\ Count(list, y) <= 1 /\ r.result # "shorter" => WeightsTo(r.links, y) = {weight}

(* InsertOrDecrease inserts: the least of several weights stays as it is,  *)
(* or the new weight takes the place of a longer one.                      *)
LEMMA InsertFacts ==
    ASSUME NEW list \in Seq(Links), NEW y \in Nodes, NEW weight \in Weight, NEW over \in Int
    PROVE  IsInserted(InsertOrDecrease(list, y, weight, over), list, y, weight)
<1> SUFFICES ASSUME NEW r, r = InsertOrDecrease(list, y, weight, over) PROVE IsInserted(r, list, y, weight)
  OBVIOUS
<1> SUFFICES /\ r.links \in Seq(Links)
             /\ \A z : z # y => Count(r.links, z) = Count(list, z) /\ WeightsTo(r.links, z) = WeightsTo(list, z)
             /\ Count(r.links, y) = IF At(list, y) = {} THEN 1 ELSE Count(list, y)
             /\ \E v \in WeightsTo(r.links, y) : v <= weight
             /\ \A w \in WeightsTo(list, y) : \E v \in WeightsTo(r.links, y) : v <= w
             /\ WeightsTo(r.links, y) \subseteq WeightsTo(list, y) \cup {weight}
             /\ r.result \in {"new", "shortened", "shorter"}
             /\ r.result = "new" <=> At(list, y) = {}
             /\ r.result = "shorter" => r.links = list
             /\ r.result # "shorter" => weight \in WeightsTo(r.links, y)
             /\ Count(list, y) <= 1 => (r.result = "shorter" <=> \E v \in WeightsTo(list, y) : ~weight < v)
             /\ Count(list, y) <= 1 /\ r.result # "shorter" => WeightsTo(r.links, y) = {weight}
  BY DEF IsInserted
<1> DEFINE i == PositionOf(y, list)
           link == Link(y, weight, over)
<1>0. link \in Links /\ link.node = y /\ link.weight = weight /\ weight \in Nat
  BY InfAssumption DEF Links, Link, Weight
<1>1. CASE At(list, y) = {}
  <2>1. r.links = Append(list, link) /\ r.result = "new"
    BY <1>1, PositionFacts DEF InsertOrDecrease
  <2> HIDE DEF i, link
  <2>2. Count(list, y) = 0 /\ WeightsTo(list, y) = {} /\ \A z : Count(list, z) \in Nat
    BY <1>1, CountFacts
  <2>3. /\ r.links \in Seq(Links)
        /\ \A z : Count(r.links, z) = Count(list, z) + (IF y = z THEN 1 ELSE 0)
        /\ \A z : WeightsTo(r.links, z) = WeightsTo(list, z) \cup (IF y = z THEN {weight} ELSE {})
    <3>1. link.node = y /\ link.weight = weight /\ link \in Links
      BY <1>0
    <3> QED BY <2>1, <3>1, AppendFacts
  <2>4. WeightsTo(r.links, y) = {weight} /\ Count(r.links, y) = 1
    BY <2>2, <2>3
  <2>5. \A z : z # y => Count(r.links, z) = Count(list, z) /\ WeightsTo(r.links, z) = WeightsTo(list, z)
    <3> SUFFICES ASSUME NEW z, z # y
                 PROVE  Count(r.links, z) = Count(list, z) /\ WeightsTo(r.links, z) = WeightsTo(list, z)
      OBVIOUS
    <3>1. Count(r.links, z) = Count(list, z) + 0 /\ WeightsTo(r.links, z) = WeightsTo(list, z) \cup {}
      BY <2>3
    <3> QED BY <2>2, <3>1
  <2> QED BY <1>0, <1>1, <2>1, <2>2, <2>3, <2>4, <2>5
<1>2. CASE At(list, y) # {}
  <2>0. i \in At(list, y) /\ i > 0 /\ i # 0
    BY <1>2, PositionFacts
  <2>1. /\ list[i].weight \in Weight /\ list[i].weight \in Nat /\ list[i].weight \in WeightsTo(list, y)
    BY <2>0, WeightsFacts, InfAssumption DEF Weight
  <2>2. Count(list, y) <= 1 => WeightsTo(list, y) = {list[i].weight}
    BY <2>0, OneLink
  <2>2a. WeightsTo(list, y) \subseteq Nat
    BY WeightsFacts, InfAssumption DEF Weight
  <2>3. CASE weight < list[i].weight
    <3>1. r.links = [list EXCEPT ![i] = link] /\ r.result = "shortened"
      BY <2>0, <2>3 DEF InsertOrDecrease
    <3> HIDE DEF i, link
    <3>2. /\ r.links \in Seq(Links)
          /\ \A z : Count(r.links, z) = Count(list, z)
          /\ \A z : z # y => WeightsTo(r.links, z) = WeightsTo(list, z)
          /\ weight \in WeightsTo(r.links, y)
          /\ WeightsTo(r.links, y) \subseteq WeightsTo(list, y) \cup {weight}
          /\ WeightsTo(list, y) \subseteq WeightsTo(r.links, y) \cup {list[i].weight}
      <4>1. i \in At(list, link.node)
        BY <1>0, <2>0
      <4>2. /\ [list EXCEPT ![i] = link] \in Seq(Links)
            /\ \A z : Count([list EXCEPT ![i] = link], z) = Count(list, z)
            /\ \A z : z # link.node => WeightsTo([list EXCEPT ![i] = link], z) = WeightsTo(list, z)
            /\ link.weight \in WeightsTo([list EXCEPT ![i] = link], link.node)
            /\ WeightsTo([list EXCEPT ![i] = link], link.node) \subseteq WeightsTo(list, link.node) \cup {link.weight}
            /\ WeightsTo(list, link.node) \subseteq WeightsTo([list EXCEPT ![i] = link], link.node) \cup {list[i].weight}
        BY <1>0, <4>1, ExceptFacts
      <4> QED BY <1>0, <3>1, <4>2
    <3>3. \A w \in WeightsTo(list, y) : \E v \in WeightsTo(r.links, y) : v <= w
      <4> SUFFICES ASSUME NEW w \in WeightsTo(list, y) PROVE \E v \in WeightsTo(r.links, y) : v <= w
        OBVIOUS
      <4>1. CASE w \in WeightsTo(r.links, y)
        BY <2>2a, <4>1
      <4>2. CASE w = list[i].weight
        BY <1>0, <2>1, <2>3, <3>2, <4>2
      <4> QED BY <3>2, <4>1, <4>2
    <3>4. ASSUME Count(list, y) <= 1 PROVE WeightsTo(r.links, y) = {weight}
      <4>1. Count(r.links, y) <= 1
        BY <3>2, <3>4
      <4>2. PICK j \in At(r.links, y) : r.links[j].weight = weight
        BY <3>2, WeightsFacts
      <4> QED BY <3>2, <4>1, <4>2, OneLink
    <3>5. Count(list, y) <= 1 => ~\E v \in WeightsTo(list, y) : ~weight < v
      BY <2>2, <2>3
    <3>6. \E v \in WeightsTo(r.links, y) : v <= weight
      BY <1>0, <3>2
    <3> QED BY <1>2, <3>1, <3>2, <3>3, <3>4, <3>5, <3>6
  <2>4. CASE ~weight < list[i].weight
    <3>1. r.links = list /\ r.result = "shorter"
      BY <2>0, <2>4 DEF InsertOrDecrease
    <3> HIDE DEF i, link
    <3>2. \E v \in WeightsTo(list, y) : v <= weight
      BY <1>0, <2>1, <2>4
    <3>3. \E v \in WeightsTo(list, y) : ~weight < v
      BY <2>1, <2>4
    <3>4. \A w \in WeightsTo(list, y) : \E v \in WeightsTo(list, y) : v <= w
      BY <2>2a
    <3> QED BY <1>2, <3>1, <3>2, <3>3, <3>4
  <2> QED BY <2>3, <2>4
<1> QED BY <1>1, <1>2

-----------------------------------------------------------------------------
(* The lists after all links of one list were dropped at their other ends. *)
Dropped(lists, list, x) ==
    FoldLeft(LAMBDA o, link : [o EXCEPT ![link.node] = Without(x, @)], lists, list)

(* The greatest number of an interval from one on.                         *)
LEMMA MaxOfInterval ==
    ASSUME NEW k \in Nat, k # 0
    PROVE  Max(1 .. k) = k /\ (1 .. k) \ {k} = 1 .. k - 1 /\ 1 .. k # {}
<1>1. k \in 1 .. k /\ \A y \in 1 .. k : k >= y
  OBVIOUS
<1>2. ASSUME NEW z \in 1 .. k, \A y \in 1 .. k : z >= y PROVE z = k
  BY <1>1, <1>2
<1>3. Max(1 .. k) = k
  BY <1>1, <1>2 DEF Max
<1>4. (1 .. k) \ {k} = 1 .. k - 1
  OBVIOUS
<1> QED BY <1>1, <1>3, <1>4

(* A set of positions that is not empty has a greatest element.            *)
LEMMA MaxOfSet ==
    ASSUME NEW n \in Nat, NEW S \in SUBSET (1 .. n), S # {}
    PROVE  Max(S) \in S /\ \A y \in S : Max(S) >= y
<1> DEFINE T == {n - y : y \in S}
<1>1. T \in SUBSET Nat /\ T # {}
  <2>1. \A y \in S : n - y \in Nat
    OBVIOUS
  <2> QED BY <2>1
<1>2. PICK t \in T : \A u \in T : t <= u
  <2> HIDE DEF T
  <2> QED BY <1>1, LeastElement
<1>3. PICK z \in S : t = n - z
  BY <1>2
<1>4. ASSUME NEW y \in S PROVE z >= y
  <2>1. n - y \in T
    OBVIOUS
  <2>2. n - z <= n - y /\ z \in Nat /\ y \in Nat
    BY <1>2, <1>3, <2>1
  <2> QED BY <2>2
<1> QED BY <1>3, <1>4 DEF Max

(* The lists after each step of the fold that drops the links to a removed *)
(* node.                                                                   *)
OneByOne(h, lists, list, x) ==
    /\ h[0] = lists /\ Dropped(lists, list, x) = h[Len(list)]
    /\ \A k \in 1 .. Len(list) : h[k] = [h[k - 1] EXCEPT ![list[k].node] = Without(x, @)]

(* The fold takes those steps.                                             *)
LEMMA DroppedOneByOne ==
    ASSUME NEW lists, NEW list \in Seq(Links), NEW x
    PROVE  \E h : OneByOne(h, lists, list, x)
<1> DEFINE n == Len(list)
           Step(o, i) == [o EXCEPT ![list[i].node] = Without(x, @)]
           Iterates(f, k) == f = [s \in SUBSET (1 .. k) |-> IF s = {} THEN lists ELSE Step(f[s \ {Max(s)}], Max(s))]
           T == {k \in 0 .. n : \E f : Iterates(f, k)}
<1>1. n \in Nat /\ DOMAIN list = 1 .. n
  OBVIOUS
<1>2. Dropped(lists, list, x) = LET f == CHOOSE f : Iterates(f, n) IN f[1 .. n]
  <2>1. Dropped(lists, list, x) =
            LET f[s \in SUBSET DOMAIN list] ==
                    IF s = {} THEN lists ELSE [f[s \ {Max(s)}] EXCEPT ![list[Max(s)].node] = Without(x, @)]
            IN  f[DOMAIN list]
    BY DEF Dropped, FoldLeft, MapThenFoldSet
  <2> QED BY <1>1, <2>1, Zenon
<1> HIDE DEF n, Step
<1>3. ASSUME NEW k \in 0 .. n, 0 .. k - 1 \subseteq T PROVE k \in T
  <2>1. CASE k = 0
    <3> DEFINE f == [s \in SUBSET (1 .. 0) |-> lists]
    <3>1. Iterates(f, 0)
      <4>1. \A s \in SUBSET (1 .. 0) : s = {}
        OBVIOUS
      <4> QED BY <4>1
    <3> HIDE DEF f, Iterates
    <3> QED BY <2>1, <3>1
  <2>2. CASE k # 0
    <3>1. k - 1 \in T /\ k \in Nat
      <4>1. k \in Nat /\ k - 1 \in 0 .. k - 1
        BY <1>1, <2>2
      <4> HIDE DEF T
      <4> QED BY <1>3, <4>1
    <3>2. PICK g : Iterates(g, k - 1)
      BY <3>1
    <3> DEFINE f == [s \in SUBSET (1 .. k) |-> IF k \in s THEN Step(g[s \ {k}], k) ELSE g[s]]
    <3>3. ASSUME NEW s \in SUBSET (1 .. k), k \in s PROVE f[s] = Step(f[s \ {Max(s)}], Max(s)) /\ s # {}
      <4>1. Max(s) = k
        <5>1. Max(s) \in s /\ Max(s) >= k
          BY <3>1, <3>3, MaxOfSet
        <5>2. Max(s) \in 1 .. k
          BY <5>1
        <5> QED BY <3>1, <5>1, <5>2
      <4>2. s \ {k} \in SUBSET (1 .. k) /\ k \notin s \ {k}
        OBVIOUS
      <4>3. f[s \ {k}] = g[s \ {k}]
        BY <4>2
      <4> QED BY <3>3, <4>1, <4>3
    <3>4. ASSUME NEW s \in SUBSET (1 .. k), k \notin s
          PROVE  f[s] = IF s = {} THEN lists ELSE Step(f[s \ {Max(s)}], Max(s))
      <4>1. s \in SUBSET (1 .. k - 1) /\ k - 1 \in Nat
        BY <2>2, <3>1, <3>4
      <4>2. f[s] = g[s] /\ g[s] = IF s = {} THEN lists ELSE Step(g[s \ {Max(s)}], Max(s))
        <5> HIDE DEF f
        <5>1. g[s] = IF s = {} THEN lists ELSE Step(g[s \ {Max(s)}], Max(s))
          BY <3>2, <4>1
        <5>2. f[s] = g[s]
          BY <3>4 DEF f
        <5> QED BY <5>1, <5>2
      <4>3. f[s \ {Max(s)}] = g[s \ {Max(s)}]
        BY <3>4
      <4> HIDE DEF f
      <4> QED BY <4>2, <4>3
    <3>5. Iterates(f, k)
      <4>1. \A s \in SUBSET (1 .. k) : f[s] = IF s = {} THEN lists ELSE Step(f[s \ {Max(s)}], Max(s))
        <5> HIDE DEF f
        <5> QED BY <3>3, <3>4
      <4>2. f = [s \in SUBSET (1 .. k) |-> f[s]]
        OBVIOUS
      <4> HIDE DEF f
      <4> QED BY <4>1, <4>2
    <3> HIDE DEF f, Iterates
    <3> QED BY <3>5
  <2> QED BY <2>1, <2>2
<1>4. \E f : Iterates(f, n)
  <2>1. n \in T
    <3> HIDE DEF T
    <3> QED BY <1>1, <1>3, InductionUpTo, SMTT(20)
  <2> QED BY <2>1
<1> DEFINE f == CHOOSE f : Iterates(f, n)
<1>5. Iterates(f, n)
  <2> HIDE DEF Iterates
  <2> QED BY <1>4
<1> HIDE DEF f
<1> DEFINE h == [k \in 0 .. n |-> f[1 .. k]]
<1>6. h[0] = lists
  <2>1. 1 .. 0 = {} /\ 1 .. 0 \in SUBSET (1 .. n)
    OBVIOUS
  <2>2. f[1 .. 0] = lists
    BY <1>5, <2>1
  <2> QED BY <1>1, <2>2
<1>7. ASSUME NEW k \in 1 .. n PROVE h[k] = Step(h[k - 1], k)
  <2>1. k \in Nat /\ k # 0 /\ k - 1 \in 0 .. n /\ k \in 0 .. n
    BY <1>1
  <2>2. Max(1 .. k) = k /\ (1 .. k) \ {k} = 1 .. k - 1 /\ 1 .. k # {} /\ 1 .. k \in SUBSET (1 .. n)
    <3>1. 1 .. k \in SUBSET (1 .. n)
      BY <1>1
    <3> QED BY <2>1, <3>1, MaxOfInterval
  <2>3. f[1 .. k] = Step(f[1 .. k - 1], k)
    BY <1>5, <2>2
  <2> QED BY <2>1, <2>3
<1>8. Dropped(lists, list, x) = h[n]
  <2>1. Dropped(lists, list, x) = f[1 .. n]
    BY <1>2 DEF f
  <2> QED BY <1>1, <2>1
<1> HIDE DEF h
<1> QED BY <1>6, <1>7, <1>8 DEF Step, n, OneByOne

(* All links of one list to x were dropped at their other ends.            *)
IsDropped(r, lists, list, x) ==
    /\ r \in [Nodes -> Seq(Links)]
    /\ \A y \in Nodes : Count(r[y], x) = Count(lists[y], x) - Count(list, y)
    /\ \A y \in Nodes : \A z : z # x =>
           Count(r[y], z) = Count(lists[y], z) /\ WeightsTo(r[y], z) = WeightsTo(lists[y], z)
    /\ \A y \in Nodes : At(list, y) = {} => r[y] = lists[y]

(* All links between x and other nodes are dropped at the other ends if    *)
(* both ends have as many.                                                 *)
LEMMA DroppedFacts ==
    ASSUME NEW lists \in [Nodes -> Seq(Links)], NEW list \in Seq(Links), NEW x,
           \A y \in Nodes : Count(list, y) <= Count(lists[y], x)
    PROVE  IsDropped(Dropped(lists, list, x), lists, list, x)
<1> DEFINE n == Len(list)
           Pre(k, y) == {i \in 1 .. k : list[i].node = y}
<1>1. n \in Nat /\ \A k \in 1 .. n : list[k] \in Links /\ list[k].node \in Nodes
  <2>1. \A k \in 1 .. n : list[k] \in Links
    OBVIOUS
  <2>2. \A link \in Links : link.node \in Nodes
    BY DEF Links
  <2> QED BY <2>1, <2>2
<1>2. PICK h : /\ h[0] = lists /\ Dropped(lists, list, x) = h[n]
               /\ \A k \in 1 .. n : h[k] = [h[k - 1] EXCEPT ![list[k].node] = Without(x, h[k - 1][list[k].node])]
  <2> HIDE DEF n
  <2>1. \E h : OneByOne(h, lists, list, x)
    BY DroppedOneByOne
  <2> QED BY <2>1 DEF n, OneByOne
<1> DEFINE Good(k) ==
              /\ h[k] \in [Nodes -> Seq(Links)]
              /\ \A y \in Nodes : Count(h[k][y], x) = Count(lists[y], x) - Cardinality(Pre(k, y))
              /\ \A y \in Nodes : \A z : z # x =>
                     Count(h[k][y], z) = Count(lists[y], z) /\ WeightsTo(h[k][y], z) = WeightsTo(lists[y], z)
              /\ \A y \in Nodes : Pre(k, y) = {} => h[k][y] = lists[y]
           T == {k \in 0 .. n : Good(k)}
<1>3. \A y \in Nodes : /\ Count(lists[y], x) \in Nat /\ Count(list, y) \in Nat /\ Count(list, y) <= Count(lists[y], x)
                       /\ \A z : Count(lists[y], z) \in Nat
  BY CountFacts
<1>4. ASSUME NEW k \in 0 .. n, NEW y
      PROVE  IsFiniteSet(Pre(k, y)) /\ Cardinality(Pre(k, y)) \in Nat /\ Cardinality(Pre(k, y)) <= Count(list, y)
  <2>1. Pre(k, y) \in SUBSET At(list, y)
    BY <1>1 DEF At
  <2> HIDE DEF Pre
  <2> QED BY <2>1, CountFacts, FS_Subset, FS_CardinalityType DEF Count
<1>5. ASSUME NEW k \in 1 .. n, NEW y
      PROVE  /\ list[k].node = y => /\ Cardinality(Pre(k, y)) = Cardinality(Pre(k - 1, y)) + 1
                                    /\ Pre(k, y) # {}
             /\ list[k].node # y => Pre(k, y) = Pre(k - 1, y)
  <2>1. k - 1 \in 0 .. n /\ 1 .. k = (1 .. k - 1) \cup {k} /\ k \notin 1 .. k - 1
    BY <1>1
  <2>2. ASSUME list[k].node = y PROVE Pre(k, y) = Pre(k - 1, y) \cup {k} /\ k \notin Pre(k - 1, y)
    BY <2>1, <2>2
  <2>3. IsFiniteSet(Pre(k - 1, y))
    BY <1>4, <2>1
  <2>4. ASSUME list[k].node # y PROVE Pre(k, y) = Pre(k - 1, y)
    BY <2>1, <2>4
  <2> HIDE DEF Pre
  <2>5. ASSUME list[k].node = y PROVE Cardinality(Pre(k, y)) = Cardinality(Pre(k - 1, y)) + 1 /\ Pre(k, y) # {}
    BY <2>2, <2>3, <2>5, FS_AddElement
  <2> QED BY <2>4, <2>5
<1>6. \A y : Pre(0, y) = {} /\ Pre(n, y) = At(list, y)
  BY <1>1 DEF At
<1> HIDE DEF n, Pre
<1>7. ASSUME NEW k \in 0 .. n, 0 .. k - 1 \subseteq T PROVE k \in T
  <2>1. CASE k = 0
    <3>1. \A y : Cardinality(Pre(0, y)) = 0
      BY <1>6, FS_EmptySet
    <3>2. \A y \in Nodes : Count(lists[y], x) = Count(lists[y], x) - 0
      BY <1>3
    <3>3. Good(0)
      BY <1>2, <3>1, <3>2
    <3> QED BY <2>1, <3>3
  <2>2. CASE k # 0
    <3>1. k \in 1 .. n /\ k - 1 \in 0 .. n /\ Good(k - 1)
      <4>1. k \in 1 .. n /\ k - 1 \in 0 .. k - 1 /\ k - 1 \in 0 .. n
        BY <1>1, <2>2
      <4>2. k - 1 \in T
        BY <1>7, <4>1
      <4> QED BY <4>1, <4>2
    <3> DEFINE u == list[k].node
    <3>2. u \in Nodes
      BY <1>1, <3>1
    <3>3. PICK o \in [Nodes -> Seq(Links)] : o = h[k - 1]
      BY <3>1
    <3>4. h[k] = [o EXCEPT ![u] = Without(x, o[u])]
      BY <1>2, <3>1, <3>3
    <3>5. /\ \A y \in Nodes : Count(o[y], x) = Count(lists[y], x) - Cardinality(Pre(k - 1, y))
          /\ \A y \in Nodes : \A z : z # x =>
                     Count(o[y], z) = Count(lists[y], z) /\ WeightsTo(o[y], z) = WeightsTo(lists[y], z)
          /\ \A y \in Nodes : Pre(k - 1, y) = {} => o[y] = lists[y]
      BY <3>1, <3>3
    <3> HIDE DEF u, Good, T
    <3>6. Count(o[u], x) > 0
      <4>1. Cardinality(Pre(k, u)) = Cardinality(Pre(k - 1, u)) + 1
        BY <1>5, <3>1 DEF u
      <4>2. Cardinality(Pre(k, u)) <= Count(list, u) /\ Cardinality(Pre(k - 1, u)) \in Nat
        BY <1>4, <3>1
      <4>3. Count(list, u) <= Count(lists[u], x) /\ Count(list, u) \in Nat /\ Count(lists[u], x) \in Nat
        BY <1>3, <3>2
      <4>4. Count(o[u], x) = Count(lists[u], x) - Cardinality(Pre(k - 1, u))
        BY <3>2, <3>5
      <4> QED BY <4>1, <4>2, <4>3, <4>4
    <3>7. PICK w : w = Without(x, o[u])
      OBVIOUS
    <3>8. /\ w \in Seq(Links) /\ Count(w, x) = Count(o[u], x) - 1
          /\ \A z : z # x => Count(w, z) = Count(o[u], z) /\ WeightsTo(w, z) = WeightsTo(o[u], z)
      <4>1. o[u] \in Seq(Links)
        BY <3>2
      <4> QED BY <3>6, <3>7, <4>1, WithoutFacts
    <3>9. h[k] \in [Nodes -> Seq(Links)] /\ h[k][u] = w /\ \A y \in Nodes : y # u => h[k][y] = o[y]
      BY <3>2, <3>4, <3>7, <3>8
    <3>10. ASSUME NEW y \in Nodes PROVE Count(h[k][y], x) = Count(lists[y], x) - Cardinality(Pre(k, y))
      <4>0. /\ Count(o[y], x) = Count(lists[y], x) - Cardinality(Pre(k - 1, y))
            /\ Count(lists[y], x) \in Nat /\ Cardinality(Pre(k - 1, y)) \in Nat
        BY <1>3, <1>4, <3>1, <3>5
      <4>1. CASE y = u
        <5>1. Cardinality(Pre(k, y)) = Cardinality(Pre(k - 1, y)) + 1
          BY <1>5, <3>1, <4>1 DEF u
        <5>2. Count(h[k][y], x) = Count(o[y], x) - 1
          BY <3>8, <3>9, <4>1
        <5> QED BY <4>0, <5>1, <5>2
      <4>2. CASE y # u
        <5>1. Pre(k, y) = Pre(k - 1, y)
          BY <1>5, <3>1, <4>2 DEF u
        <5> QED BY <3>9, <4>0, <4>2, <5>1
      <4> QED BY <4>1, <4>2
    <3>11. ASSUME NEW y \in Nodes, NEW z, z # x
           PROVE  Count(h[k][y], z) = Count(lists[y], z) /\ WeightsTo(h[k][y], z) = WeightsTo(lists[y], z)
      <4>1. Count(o[y], z) = Count(lists[y], z) /\ WeightsTo(o[y], z) = WeightsTo(lists[y], z)
        BY <3>5, <3>11
      <4>2. CASE y = u
        BY <3>8, <3>9, <3>11, <4>1, <4>2
      <4>3. CASE y # u
        BY <3>9, <4>1, <4>3
      <4> QED BY <4>2, <4>3
    <3>12. ASSUME NEW y \in Nodes, Pre(k, y) = {} PROVE h[k][y] = lists[y]
      <4>1. y # u
        BY <1>5, <3>1, <3>12 DEF u
      <4>2. Pre(k - 1, y) = {}
        BY <1>5, <3>1, <3>12, <4>1 DEF u
      <4> QED BY <3>5, <3>9, <4>1, <4>2
    <3>13. Good(k)
      BY <3>9, <3>10, <3>11, <3>12 DEF Good
    <3> QED BY <3>13 DEF T
  <2> QED BY <2>1, <2>2
<1>8. Good(n)
  <2>1. n \in 0 .. n
    BY <1>1
  <2>2. n \in T
    <3> HIDE DEF T
    <3> QED BY <1>1, <1>7, <2>1, InductionUpTo
  <2> QED BY <2>2
<1>9. \A y : Cardinality(Pre(n, y)) = Count(list, y)
  BY <1>6 DEF Count
<1>10. IsDropped(h[n], lists, list, x)
  BY <1>6, <1>8, <1>9 DEF IsDropped
<1> QED BY <1>2, <1>10, Zenon

-----------------------------------------------------------------------------
(* Concatenated lists                                                      *)

(* FlattenSeq appends one sequence after the other.                        *)
LEMMA FlattenOneByOne ==
    ASSUME NEW A, NEW ss \in Seq(Seq(A))
    PROVE  \E h \in [0 .. Len(ss) -> Seq(A)] :
               /\ h[0] = <<>> /\ FlattenSeq(ss) = h[Len(ss)]
               /\ \A k \in 1 .. Len(ss) : h[k] = h[k - 1] \o ss[k]
<1> DEFINE n == Len(ss)
           step == [p \in (1 .. n) \X Seq(A) |-> p[2] \o ss[p[1]]]
           Recurses(f) == f = [i \in 1 .. n |-> IF i = 1 THEN ss[i] ELSE f[i - 1] \o ss[i]]
<1>1. n \in Nat /\ \A k \in 1 .. n : ss[k] \in Seq(A)
  OBVIOUS
<1>2. \A k \in 1 .. n : \A s \in Seq(A) : step[<<k, s>>] = s \o ss[k] /\ s \o ss[k] \in Seq(A)
  <2> SUFFICES ASSUME NEW k \in 1 .. n, NEW s \in Seq(A) PROVE step[<<k, s>>] = s \o ss[k] /\ s \o ss[k] \in Seq(A)
    OBVIOUS
  <2>1. ss[k] \in Seq(A)
    BY <1>1
  <2>2. s \o ss[k] \in Seq(A)
    BY <2>1
  <2>3. <<k, s>> \in (1 .. n) \X Seq(A) /\ <<k, s>>[1] = k /\ <<k, s>>[2] = s
    OBVIOUS
  <2> HIDE DEF n
  <2> QED BY <2>2, <2>3
<1>3. FlattenSeq(ss) = IF n = 0 THEN ss ELSE LET f == CHOOSE f : Recurses(f) IN f[n]
  BY Zenon DEF FlattenSeq
<1> HIDE DEF step, n
<1>4. <<>> \in Seq(A) /\ StaysIn(Seq(A), n, step)
  <2>1. <<>> \in Seq(A)
    OBVIOUS
  <2>2. StaysIn(Seq(A), n, step)
    BY <1>2 DEF StaysIn
  <2> QED BY <2>1, <2>2
<1>5. PICK h \in [0 .. n -> Seq(A)] : Recursive(h, n, <<>>, step)
  BY <1>1, <1>4, RecursionUpTo
<1>6. h[0] = <<>> /\ \A k \in 1 .. n : h[k] = h[k - 1] \o ss[k]
  <2>1. \A k \in 1 .. n : k - 1 \in 0 .. n
    BY <1>1
  <2> QED BY <1>2, <1>5, <2>1 DEF Recursive
<1>7. CASE n = 0
  <2>1. ss = <<>>
    BY <1>7 DEF n
  <2> QED BY <1>3, <1>6, <1>7, <2>1 DEF n
<1>8. CASE n # 0
  <2> DEFINE g == [i \in 1 .. n |-> h[i]]
  <2>1. Recurses(g)
    <3>1. ASSUME NEW i \in 1 .. n PROVE h[i] = IF i = 1 THEN ss[i] ELSE g[i - 1] \o ss[i]
      <4>1. CASE i = 1
        <5>0. 1 \in 1 .. n /\ 1 - 1 = 0
          BY <1>1, <1>8
        <5>1. h[1] = h[0] \o ss[1] /\ ss[1] \in Seq(A)
          <6>1. h[1] = h[1 - 1] \o ss[1] /\ ss[1] \in Seq(A)
            BY <1>1, <1>6, <5>0
          <6> QED BY <5>0, <6>1
        <5>2. <<>> \o ss[1] = ss[1]
          BY <5>1
        <5> QED BY <1>6, <4>1, <5>1, <5>2
      <4>2. CASE i # 1
        <5>1. i - 1 \in 1 .. n
          BY <1>1, <4>2
        <5>2. g[i - 1] = h[i - 1]
          BY <5>1
        <5> HIDE DEF g
        <5> QED BY <1>6, <4>2, <5>2
      <4> QED BY <4>1, <4>2
    <3> QED BY <3>1
  <2>2. \E f : Recurses(f)
    <3> HIDE DEF g, Recurses
    <3> QED BY <2>1
  <2>3. PICK f : Recurses(f) /\ FlattenSeq(ss) = f[n]
    <3> HIDE DEF Recurses
    <3> QED BY <1>3, <1>8, <2>2
  <2>4. ASSUME NEW k \in 0 .. n, 0 .. k - 1 \subseteq {j \in 0 .. n : j = 0 \/ f[j] = h[j]}
        PROVE  k = 0 \/ f[k] = h[k]
    <3>1. CASE k = 1
      <4>1. f[1] = ss[1] /\ ss[1] \in Seq(A)
        BY <1>1, <2>3, <3>1
      <4>2. h[1] = h[0] \o ss[1]
        <5>0. 1 \in 1 .. n /\ 1 - 1 = 0
          BY <1>1, <3>1
        <5>1. h[1] = h[1 - 1] \o ss[1]
          BY <1>6, <5>0
        <5> QED BY <5>0, <5>1
      <4>3. <<>> \o ss[1] = ss[1]
        BY <4>1
      <4> QED BY <1>6, <3>1, <4>1, <4>2, <4>3
    <3>2. CASE k > 1
      <4>1. k \in 1 .. n /\ k - 1 \in 0 .. k - 1 /\ k - 1 # 0
        BY <1>1, <3>2
      <4>2. f[k - 1] = h[k - 1]
        BY <2>4, <4>1
      <4>3. f[k] = f[k - 1] \o ss[k]
        <5>1. f[k] = IF k = 1 THEN ss[k] ELSE f[k - 1] \o ss[k]
          BY <2>3, <4>1
        <5>2. k # 1
          BY <3>2
        <5> QED BY <5>1, <5>2
      <4> QED BY <1>6, <4>1, <4>2, <4>3
    <3> QED BY <1>1, <3>1, <3>2
  <2>5. 0 .. n \subseteq {j \in 0 .. n : j = 0 \/ f[j] = h[j]}
    <3>1. \A k \in 0 .. n : 0 .. k - 1 \subseteq {j \in 0 .. n : j = 0 \/ f[j] = h[j]}
                            => k \in {j \in 0 .. n : j = 0 \/ f[j] = h[j]}
      BY <2>4
    <3> QED BY <1>1, <3>1, InductionUpTo
  <2>6. f[n] = h[n]
    BY <1>1, <1>8, <2>5
  <2> QED BY <1>6, <2>3, <2>6 DEF n
<1> QED BY <1>7, <1>8

(* The elements of a flattened sequence are those of its parts.            *)
LEMMA FlattenFacts ==
    ASSUME NEW A, NEW ss \in Seq(Seq(A))
    PROVE  /\ FlattenSeq(ss) \in Seq(A)
           /\ \A e : e \in ToSet(FlattenSeq(ss)) <=> \E i \in 1 .. Len(ss) : e \in ToSet(ss[i])
<1> DEFINE n == Len(ss)
           Good(h, k) == \A e : e \in ToSet(h[k]) <=> \E i \in 1 .. k : e \in ToSet(ss[i])
<1>1. n \in Nat /\ \A k \in 1 .. n : ss[k] \in Seq(A)
  OBVIOUS
<1> HIDE DEF n
<1>2. PICK h \in [0 .. n -> Seq(A)] : /\ h[0] = <<>> /\ FlattenSeq(ss) = h[n]
                                      /\ \A k \in 1 .. n : h[k] = h[k - 1] \o ss[k]
  BY FlattenOneByOne DEF n
<1>3. ASSUME NEW k \in 0 .. n, 0 .. k - 1 \subseteq {j \in 0 .. n : Good(h, j)} PROVE Good(h, k)
  <2>1. CASE k = 0
    BY <1>2, <2>1 DEF ToSet
  <2>2. CASE k # 0
    <3>1. k \in 1 .. n /\ k - 1 \in 0 .. k - 1 /\ 1 .. k = (1 .. k - 1) \cup {k} /\ k - 1 \in 0 .. n
      BY <1>1, <2>2
    <3>2. Good(h, k - 1)
      BY <1>3, <3>1
    <3>3. h[k - 1] \in Seq(A) /\ ss[k] \in Seq(A) /\ h[k] = h[k - 1] \o ss[k]
      BY <1>1, <1>2, <3>1
    <3>4. \A e : e \in ToSet(h[k]) <=> e \in ToSet(h[k - 1]) \/ e \in ToSet(ss[k])
      <4>1. ASSUME NEW p \in Seq(A), NEW q \in Seq(A), NEW e
            PROVE  e \in ToSet(p \o q) <=> e \in ToSet(p) \/ e \in ToSet(q)
        <5>1. /\ Len(p \o q) = Len(p) + Len(q) /\ Len(p) \in Nat /\ Len(q) \in Nat
              /\ \A i \in 1 .. Len(p) : (p \o q)[i] = p[i]
              /\ \A i \in 1 .. Len(q) : (p \o q)[i + Len(p)] = q[i]
              /\ \A i \in 1 .. Len(p \o q) : i <= Len(p) \/ (i - Len(p) \in 1 .. Len(q) /\ (p \o q)[i] = q[i - Len(p)])
              /\ DOMAIN (p \o q) = 1 .. Len(p) + Len(q) /\ DOMAIN p = 1 .. Len(p) /\ DOMAIN q = 1 .. Len(q)
          OBVIOUS
        <5>2. ASSUME NEW i \in 1 .. Len(p) PROVE p[i] \in ToSet(p \o q)
          <6>1. i \in 1 .. Len(p) + Len(q)
            BY <5>1
          <6> QED BY <5>1, <6>1 DEF ToSet
        <5>3. ASSUME NEW i \in 1 .. Len(q) PROVE q[i] \in ToSet(p \o q)
          <6>1. i + Len(p) \in 1 .. Len(p) + Len(q)
            BY <5>1
          <6> QED BY <5>1, <6>1 DEF ToSet
        <5>4. ASSUME NEW i \in 1 .. Len(p) + Len(q) PROVE (p \o q)[i] \in ToSet(p) \/ (p \o q)[i] \in ToSet(q)
          <6>1. CASE i <= Len(p)
            <7>1. i \in 1 .. Len(p)
              BY <5>1, <6>1
            <7> QED BY <5>1, <7>1 DEF ToSet
          <6>2. CASE ~ i <= Len(p)
            BY <5>1, <6>2 DEF ToSet
          <6> QED BY <6>1, <6>2
        <5> QED BY <5>1, <5>2, <5>3, <5>4, ZenonT(30) DEF ToSet
      <4> QED BY <3>3, <4>1
    <3> QED BY <3>1, <3>2, <3>4
  <2> QED BY <2>1, <2>2
<1>4. Good(h, n)
  <2>1. \A k \in 0 .. n : 0 .. k - 1 \subseteq {j \in 0 .. n : Good(h, j)} => k \in {j \in 0 .. n : Good(h, j)}
    BY <1>3
  <2>2. n \in {j \in 0 .. n : Good(h, j)}
    <3> HIDE DEF Good
    <3>1. n \in 0 .. n
      BY <1>1
    <3> QED BY <1>1, <2>1, <3>1, InductionUpTo
  <2> QED BY <2>2
<1>5. h[n] \in Seq(A)
  BY <1>1, <1>2
<1> QED BY <1>2, <1>4, <1>5 DEF n

(* Links of a list that is put together from two.                          *)
LEMMA ConcatFacts ==
    ASSUME NEW p \in Seq(Links), NEW q \in Seq(Links), NEW y
    PROVE  /\ Count(p \o q, y) = Count(p, y) + Count(q, y)
           /\ WeightsTo(p \o q, y) = WeightsTo(p, y) \cup WeightsTo(q, y)
<1> DEFINE m == Len(p)
           n == Len(q)
           r == p \o q
           Later == {i \in m + 1 .. m + n : q[i - m].node = y}
<1>1. /\ m \in Nat /\ n \in Nat /\ r \in Seq(Links) /\ Len(r) = m + n
      /\ \A i \in 1 .. m : r[i] = p[i]
      /\ \A i \in m + 1 .. m + n : r[i] = q[i - m]
  OBVIOUS
<1>2. \A i : i \in 1 .. m + n <=> i \in 1 .. m \/ i \in m + 1 .. m + n
  BY <1>1
<1>3. \A i \in 1 .. m : i \notin m + 1 .. m + n
  BY <1>1
<1>4. \A i \in m + 1 .. m + n : i - m \in 1 .. n
  BY <1>1
<1>5. \A i \in 1 .. n : i + m \in m + 1 .. m + n /\ (i + m) - m = i
  BY <1>1
<1> HIDE DEF m, n, r
<1>6. At(r, y) = At(p, y) \cup Later
  BY <1>1, <1>2 DEF At, m, n, r
<1>7. At(p, y) \cap Later = {}
  BY <1>3 DEF At, m
<1>8. IsFiniteSet(Later) /\ Cardinality(Later) = Count(q, y)
  <2> DEFINE f == [i \in At(q, y) |-> i + m]
  <2>1. \A i \in At(q, y) : f[i] \in Later
    BY <1>5 DEF At, n
  <2>2. \A a, b \in At(q, y) : f[a] = f[b] => a = b
    BY <1>5 DEF At, n
  <2>3. \A t \in Later : \E i \in At(q, y) : f[i] = t
    <3> SUFFICES ASSUME NEW t \in Later PROVE \E i \in At(q, y) : f[i] = t
      OBVIOUS
    <3>1. t - m \in At(q, y)
      BY <1>4 DEF At, n
    <3>2. f[t - m] = t
      BY <1>1, <3>1
    <3> QED BY <3>1, <3>2
  <2>4. f \in Bijection(At(q, y), Later)
    <3>1. f \in [At(q, y) -> Later]
      BY <2>1
    <3> HIDE DEF f, Later
    <3> QED BY <2>2, <2>3, <3>1, Fun_IsBij
  <2>5. ExistsBijection(At(q, y), Later)
    BY <2>4 DEF ExistsBijection
  <2> HIDE DEF f, Later
  <2> QED BY <2>5, CountFacts, FS_Bijection DEF Count
<1>9. Count(r, y) = Count(p, y) + Count(q, y)
  <2> HIDE DEF Later
  <2>1. IsFiniteSet(At(p, y)) /\ Count(p, y) \in Nat /\ Count(q, y) \in Nat
    BY CountFacts
  <2>2. Cardinality(At(p, y) \cup Later) = Cardinality(At(p, y)) + Cardinality(Later) - Cardinality({})
    BY <1>7, <1>8, <2>1, FS_Union
  <2>3. Cardinality({}) = 0
    BY FS_EmptySet
  <2> QED BY <1>6, <1>8, <2>1, <2>2, <2>3 DEF Count
<1>10. WeightsTo(r, y) = WeightsTo(p, y) \cup WeightsTo(q, y)
  <2>1. ASSUME NEW w \in WeightsTo(r, y) PROVE w \in WeightsTo(p, y) \cup WeightsTo(q, y)
    <3>1. PICK i \in At(r, y) : r[i].weight = w
      BY <1>1, WeightsFacts
    <3>2. CASE i \in At(p, y)
      <4>1. p[i].weight = w
        BY <1>1, <3>1, <3>2 DEF At, m
      <4> QED BY <3>2, <4>1, WeightsFacts
    <3>3. CASE i \in Later
      <4>1. i - m \in At(q, y) /\ q[i - m].weight = w
        BY <1>1, <1>4, <3>1, <3>3 DEF At, n
      <4> QED BY <4>1, WeightsFacts
    <3> QED BY <1>6, <3>1, <3>2, <3>3
  <2>2. ASSUME NEW w \in WeightsTo(p, y) PROVE w \in WeightsTo(r, y)
    <3>1. PICK i \in At(p, y) : p[i].weight = w
      BY WeightsFacts
    <3>2. i \in At(r, y) /\ r[i].weight = w
      BY <1>1, <1>6, <3>1 DEF At, m
    <3> QED BY <1>1, <3>2, WeightsFacts
  <2>3. ASSUME NEW w \in WeightsTo(q, y) PROVE w \in WeightsTo(r, y)
    <3>1. PICK i \in At(q, y) : q[i].weight = w
      BY WeightsFacts
    <3>2. i \in 1 .. n /\ q[i].node = y
      BY <3>1 DEF At, n
    <3>3. i + m \in Later
      BY <1>5, <3>2
    <3>4. i + m \in At(r, y) /\ r[i + m].weight = w
      BY <1>1, <1>5, <1>6, <3>1, <3>2, <3>3
    <3> QED BY <1>1, <3>4, WeightsFacts
  <2> QED BY <2>1, <2>2, <2>3
<1> QED BY <1>9, <1>10 DEF r

(* The links for parallel arcs.                                            *)
Parallel(x, W) == [j \in DOMAIN SetToSeq(W) |-> Link(x, SetToSeq(W)[j], N)]

(* The links of parallel arcs have their weights, each once.               *)
LEMMA ParallelFacts ==
    ASSUME NEW W \in SUBSET Weight, NEW x \in Nodes, NEW list, list = Parallel(x, W)
    PROVE  /\ list \in Seq(Links)
           /\ Count(list, x) = Cardinality(W) /\ WeightsTo(list, x) = W
           /\ \A y : y # x => Count(list, y) = 0 /\ WeightsTo(list, y) = {}
<1> DEFINE c == Cardinality(W)
           par == SetToSeq(W)
<1>1. IsFiniteSet(W) /\ c \in Nat
  <2>1. IsFiniteSet(Weight)
    BY InfAssumption, FS_Interval DEF Weight
  <2> QED BY <2>1, FS_Subset, FS_CardinalityType
<1>2. par \in [1 .. c -> W] /\ IsInjective(par)
  <2>1. \E f \in [1 .. c -> W] : IsInjective(f)
    <3>1. PICK f : f \in Bijection(1 .. c, W)
      BY <1>1, FS_CardinalityType DEF ExistsBijection
    <3> QED BY <3>1 DEF Bijection, Injection
  <2> QED BY <2>1 DEF SetToSeq
<1>3. \A w \in W : \E j \in 1 .. c : par[j] = w
  <2>1. par \in Injection(1 .. c, W)
    BY <1>2 DEF Injection
  <2>2. Cardinality(1 .. c) = c /\ IsFiniteSet(1 .. c)
    <3>1. Cardinality(1 .. c) = IF 1 > c THEN 0 ELSE c - 1 + 1
      BY <1>1, FS_Interval
    <3> QED BY <1>1, <3>1, FS_Interval
  <2>3. par \in Surjection(1 .. c, W)
    <3> HIDE DEF c, par
    <3>1. Cardinality(1 .. c) = Cardinality(W)
      BY <2>2 DEF c
    <3> QED BY <1>1, <2>1, <3>1, FS_Injection
  <2> QED BY <2>3 DEF Surjection
<1> HIDE DEF par, c
<1>4. list = [j \in 1 .. c |-> Link(x, par[j], N)]
  BY <1>2 DEF par, Parallel
<1>5. /\ list \in Seq(Links) /\ Len(list) = c
      /\ \A j \in 1 .. c : list[j].node = x /\ list[j].weight = par[j]
  <2>1. \A j \in 1 .. c : par[j] \in Weight
    BY <1>2
  <2>2. \A j \in 1 .. c : Link(x, par[j], N) \in Links
    BY <2>1, NAssumption DEF Link, Links
  <2>3. list \in [1 .. c -> Links]
    BY <1>4, <2>2
  <2>4. list \in Seq(Links) /\ Len(list) = c
    BY <1>1, <2>3
  <2>5. ASSUME NEW j \in 1 .. c PROVE list[j].node = x /\ list[j].weight = par[j]
    <3>1. list[j] = Link(x, par[j], N)
      BY <1>4
    <3> QED BY <3>1 DEF Link
  <2> QED BY <2>4, <2>5
<1>6. At(list, x) = 1 .. c /\ \A y : y # x => At(list, y) = {}
  BY <1>5 DEF At
<1>7. Count(list, x) = c
  <2>1. Cardinality(1 .. c) = IF 1 > c THEN 0 ELSE c - 1 + 1
    BY <1>1, FS_Interval
  <2>2. Cardinality(1 .. c) = c
    BY <1>1, <2>1
  <2>3. Cardinality(At(list, x)) = c
    BY <1>6, <2>2, Zenon
  <2> QED BY <2>3 DEF Count
<1>8. WeightsTo(list, x) = W
  <2>1. \A w : w \in WeightsTo(list, x) <=> \E j \in 1 .. c : par[j] = w
    <3>1. \A w : w \in WeightsTo(list, x) <=> \E j \in At(list, x) : list[j].weight = w
      BY <1>5, WeightsFacts
    <3> QED BY <1>5, <1>6, <3>1
  <2> QED BY <1>2, <1>3, <2>1
<1>9. ASSUME NEW y, y # x PROVE Count(list, y) = 0 /\ WeightsTo(list, y) = {}
  BY <1>5, <1>6, <1>9, CountFacts
<1> QED BY <1>5, <1>7, <1>8, <1>9 DEF c

(* The first lists have one link for each arc that is no loop.             *)
LEMMA LinksToFacts ==
    ASSUME NEW x \in Nodes, NEW ws \in [Nodes -> SUBSET Weight]
    PROVE  /\ LinksTo(x, ws) \in Seq(Links)
           /\ \A y \in Nodes : y # x => /\ Count(LinksTo(x, ws), y) = Cardinality(ws[y])
                                        /\ WeightsTo(LinksTo(x, ws), y) = ws[y]
           /\ Count(LinksTo(x, ws), x) = 0
<1> DEFINE ss == [i \in 1 .. N |-> IF i - 1 = x THEN <<>>
                                   ELSE [j \in DOMAIN SetToSeq(ws[i - 1]) |-> Link(i - 1, SetToSeq(ws[i - 1])[j], N)]]
<1>0. N \in Nat /\ \A i \in 1 .. N : i - 1 \in Nodes
  BY NAssumption DEF Nodes
<1>1. LinksTo(x, ws) = FlattenSeq(ss)
  BY DEF LinksTo
<1>2. /\ \A i \in 1 .. N : ss[i] \in Seq(Links)
      /\ \A i \in 1 .. N : i - 1 # x => Count(ss[i], i - 1) = Cardinality(ws[i - 1]) /\ WeightsTo(ss[i], i - 1) = ws[i - 1]
      /\ \A i \in 1 .. N : i - 1 = x => Count(ss[i], x) = 0 /\ WeightsTo(ss[i], x) = {}
      /\ \A i \in 1 .. N : \A y : y # i - 1 => Count(ss[i], y) = 0 /\ WeightsTo(ss[i], y) = {}
  <2>1. ASSUME NEW i \in 1 .. N, i - 1 # x
        PROVE  /\ ss[i] \in Seq(Links)
               /\ Count(ss[i], i - 1) = Cardinality(ws[i - 1]) /\ WeightsTo(ss[i], i - 1) = ws[i - 1]
               /\ \A y : y # i - 1 => Count(ss[i], y) = 0 /\ WeightsTo(ss[i], y) = {}
    <3>1. ss[i] = Parallel(i - 1, ws[i - 1])
      BY <2>1 DEF Parallel
    <3>2. i - 1 \in Nodes /\ ws[i - 1] \in SUBSET Weight
      BY <1>0
    <3> HIDE DEF ss
    <3> QED BY <3>1, <3>2, ParallelFacts
  <2>2. ASSUME NEW i \in 1 .. N, i - 1 = x
        PROVE  /\ ss[i] \in Seq(Links)
               /\ \A y : Count(ss[i], y) = 0 /\ WeightsTo(ss[i], y) = {}
    <3>1. ss[i] = <<>>
      BY <2>2
    <3>2. ss[i] \in Seq(Links) /\ Len(ss[i]) = 0
      <4> HIDE DEF ss
      <4> QED BY <3>1
    <3> HIDE DEF ss
    <3>3. \A y : At(ss[i], y) = {}
      BY <3>2 DEF At
    <3> QED BY <3>2, <3>3, CountFacts
  <2> HIDE DEF ss
  <2> QED BY <2>1, <2>2
<1>3. ss \in Seq(Seq(Links)) /\ Len(ss) = N
  <2>1. ss \in [1 .. N -> Seq(Links)]
    <3>1. ss = [i \in 1 .. N |-> ss[i]]
      OBVIOUS
    <3> HIDE DEF ss
    <3> QED BY <1>2, <3>1
  <2> HIDE DEF ss
  <2> QED BY <1>0, <2>1
<1> HIDE DEF ss
<1>4. PICK h \in [0 .. N -> Seq(Links)] : /\ h[0] = <<>> /\ FlattenSeq(ss) = h[N]
                                          /\ \A k \in 1 .. N : h[k] = h[k - 1] \o ss[k]
  BY <1>3, FlattenOneByOne
<1> DEFINE Good(k) ==
               \A y \in Nodes :
                   /\ y < k /\ y # x => Count(h[k], y) = Cardinality(ws[y]) /\ WeightsTo(h[k], y) = ws[y]
                   /\ ~(y < k /\ y # x) => Count(h[k], y) = 0 /\ WeightsTo(h[k], y) = {}
           T == {k \in 0 .. N : Good(k)}
<1>5. \A k \in 0 .. N : h[k] \in Seq(Links) /\ \A y : Count(h[k], y) \in Nat
  BY <1>4, CountFacts
<1>6. ASSUME NEW k \in 0 .. N, 0 .. k - 1 \subseteq T PROVE k \in T
  <2>1. CASE k = 0
    <3>1. Len(h[0]) = 0
      BY <1>4
    <3>2. \A y : At(h[0], y) = {}
      BY <3>1 DEF At
    <3>3. \A y : Count(h[0], y) = 0 /\ WeightsTo(h[0], y) = {}
      <4>1. h[0] \in Seq(Links)
        BY <1>0, <1>5
      <4> QED BY <3>2, <4>1, CountFacts
    <3>4. \A y \in Nodes : ~ y < 0
      BY DEF Nodes
    <3> QED BY <2>1, <3>3, <3>4
  <2>2. CASE k # 0
    <3>1. k \in 1 .. N /\ k - 1 \in 0 .. k - 1 /\ k - 1 \in 0 .. N
      BY <1>0, <2>2
    <3>2. Good(k - 1)
      BY <1>6, <3>1
    <3>3. /\ h[k - 1] \in Seq(Links) /\ ss[k] \in Seq(Links) /\ h[k] = h[k - 1] \o ss[k]
      BY <1>2, <1>4, <1>5, <3>1
    <3>4. \A y : /\ Count(h[k], y) = Count(h[k - 1], y) + Count(ss[k], y)
                 /\ WeightsTo(h[k], y) = WeightsTo(h[k - 1], y) \cup WeightsTo(ss[k], y)
      BY <3>3, ConcatFacts
    <3>5. ASSUME NEW y \in Nodes
          PROVE  /\ y < k /\ y # x => Count(h[k], y) = Cardinality(ws[y]) /\ WeightsTo(h[k], y) = ws[y]
                 /\ ~(y < k /\ y # x) => Count(h[k], y) = 0 /\ WeightsTo(h[k], y) = {}
      <4>0. y \in Nat /\ k \in Nat /\ Count(h[k - 1], y) \in Nat /\ Count(ss[k], y) \in Nat
        BY <1>5, <3>1, <3>3, NodesAreNat, CountFacts
      <4>1. CASE y = k - 1 /\ y # x
        <5>1. ~ y < k - 1
          BY <4>0, <4>1
        <5>2. Count(h[k - 1], y) = 0 /\ WeightsTo(h[k - 1], y) = {}
          BY <3>2, <5>1, Zenon
        <5>3. Count(ss[k], y) = Cardinality(ws[y]) /\ WeightsTo(ss[k], y) = ws[y]
          BY <1>2, <3>1, <4>1
        <5>4. y < k /\ y # x
          BY <4>0, <4>1
        <5>5. Count(h[k], y) = Count(ss[k], y) /\ WeightsTo(h[k], y) = WeightsTo(ss[k], y)
          <6>1. Count(h[k], y) = 0 + Count(ss[k], y) /\ WeightsTo(h[k], y) = {} \cup WeightsTo(ss[k], y)
            BY <3>4, <5>2, Zenon
          <6> QED BY <4>0, <6>1
        <5> QED BY <5>3, <5>4, <5>5, Zenon
      <4>2. CASE y = x
        <5>1. Count(h[k - 1], y) = 0 /\ WeightsTo(h[k - 1], y) = {}
          BY <3>2, <4>2, Zenon
        <5>2. Count(ss[k], y) = 0 /\ WeightsTo(ss[k], y) = {}
          BY <1>2, <3>1, <4>2
        <5>3. Count(h[k], y) = 0 + 0 /\ WeightsTo(h[k], y) = {} \cup {}
          BY <3>4, <5>1, <5>2, Zenon
        <5>4. Count(h[k], y) = 0 /\ WeightsTo(h[k], y) = {}
          BY <5>3
        <5> QED BY <4>2, <5>4, Zenon
      <4>3. CASE y # k - 1 /\ y # x
        <5>1. Count(ss[k], y) = 0 /\ WeightsTo(ss[k], y) = {}
          BY <1>2, <3>1, <4>3
        <5>2. y < k - 1 <=> y < k
          BY <4>0, <4>3
        <5>3. Count(h[k], y) = Count(h[k - 1], y) /\ WeightsTo(h[k], y) = WeightsTo(h[k - 1], y)
          <6>1. Count(h[k], y) = Count(h[k - 1], y) + 0 /\ WeightsTo(h[k], y) = WeightsTo(h[k - 1], y) \cup {}
            BY <3>4, <5>1, Zenon
          <6> QED BY <4>0, <6>1
        <5>4. /\ y < k - 1 /\ y # x => Count(h[k - 1], y) = Cardinality(ws[y]) /\ WeightsTo(h[k - 1], y) = ws[y]
              /\ ~(y < k - 1 /\ y # x) => Count(h[k - 1], y) = 0 /\ WeightsTo(h[k - 1], y) = {}
          BY <3>2, Zenon
        <5> QED BY <5>2, <5>3, <5>4, Zenon
      <4> QED BY <4>1, <4>2, <4>3
    <3> HIDE DEF T
    <3>6. Good(k)
      BY <3>5
    <3> QED BY <3>6 DEF T
  <2> QED BY <2>1, <2>2
<1>7. Good(N)
  <2>1. N \in 0 .. N
    BY <1>0
  <2>2. N \in T
    <3> HIDE DEF T
    <3> QED BY <1>0, <1>6, <2>1, InductionUpTo
  <2> QED BY <2>2
<1>8. \A y \in Nodes : y < N
  BY <1>0 DEF Nodes
<1>9. h[N] = LinksTo(x, ws) /\ h[N] \in Seq(Links)
  BY <1>0, <1>1, <1>4, <1>5
<1>10. /\ \A y \in Nodes : y # x => Count(h[N], y) = Cardinality(ws[y]) /\ WeightsTo(h[N], y) = ws[y]
       /\ Count(h[N], x) = 0
  BY <1>7, <1>8
<1> HIDE DEF Good, T
<1> QED BY <1>9, <1>10

-----------------------------------------------------------------------------
(* Contraction keeps distances: the invariant                              *)

(* The nodes that are not removed.                                         *)
Present(low) == low .. N - 1

(* Ways over the removed node that are still to be looked at.              *)
PairWeights(prs, x, y) ==
    {p[1].weight + p[2].weight : p \in {q \in ToSet(prs) : q[1].node = x /\ q[2].node = y}}

(* The arcs between the nodes that are left: the links, and the pairs that *)
(* are not connected yet.                                                  *)
Overlay(out, prs) ==
    [a \in Nodes \X Nodes |-> WeightsTo(out[a[1]], a[2]) \cup PairWeights(prs, a[1], a[2])]

(* A removed node has links to higher ones, others to others.              *)
LinksAreUp(lists, low) ==
    \A x \in Nodes : \A y : At(lists[x], y) # {} => y # x /\ (x < low => x < y) /\ (low <= x => low <= y)

(* What both ends of links have in common: how many there are, and the     *)
(* least weight.                                                           *)
EndsAgree(out, in, low) ==
    \A x, y \in Present(low) :
        /\ Count(out[x], y) = Count(in[y], x)
        /\ \A w \in WeightsTo(out[x], y) : \E v \in WeightsTo(in[y], x) : v <= w
        /\ \A v \in WeightsTo(in[y], x) : \E w \in WeightsTo(out[x], y) : w <= v

(* Links of removed nodes are ways, and begin shortest ways upwards.       *)
UpIsOnWay(lists, e, low) ==
    \A x, y \in Nodes : x < low =>
        /\ \A w \in WeightsTo(lists[x], y) : e[<<x, y>>] <= w
        /\ x < y /\ e[<<x, y>>] < Inf => \E z \in Nodes : \E w \in WeightsTo(lists[x], z) : w + e[<<z, y>>] <= e[<<x, y>>]

(* What contraction keeps. Links go up, and both ends of a link between    *)
(* the nodes that are left know it; the distances are those of the         *)
(* overlay, and the lists of a removed node lead on the way to any higher  *)
(* node.                                                                   *)
Contracts(d, out, in, low, prs) ==
    /\ LinksAreUp(out, low) /\ LinksAreUp(in, low)
    /\ EndsAgree(out, in, low)
    /\ \A p \in ToSet(prs) : p[1].node \in Present(low) /\ p[2].node \in Present(low)
    /\ Spanned(Present(low), Overlay(out, prs), d)
    /\ UpIsOnWay(out, d, low) /\ UpIsOnWay(in, Flip(d), low)

(* The types of the lists and of the pairs.                                *)
ListsOK(out, in, prs) ==
    /\ out \in [Nodes -> Seq(Links)] /\ in \in [Nodes -> Seq(Links)]
    /\ prs \in Seq(Links \X Links)

(* Each link of one list with each of another.                             *)
ArePairs(prs, p, q) ==
    /\ prs \in Seq(Links \X Links)
    /\ \A e : e \in ToSet(prs) <=> \E i \in 1 .. Len(p) : \E j \in 1 .. Len(q) : e = <<p[i], q[j]>>
    /\ \A x, y : \A w : w \in PairWeights(prs, x, y)
                        <=> \E u \in WeightsTo(p, x) : \E v \in WeightsTo(q, y) : w = u + v

(* The pairs that RemoveLowest leaves to connect.                          *)
PairsOf(p, q) == FlattenSeq([i \in DOMAIN p |-> [j \in DOMAIN q |-> <<p[i], q[j]>>]])

(* These are the pairs of an incoming and an outgoing link.                *)
LEMMA PairsOfFacts ==
    ASSUME NEW p \in Seq(Links), NEW q \in Seq(Links)
    PROVE  ArePairs(PairsOf(p, q), p, q)
<1> DEFINE row(i) == [j \in DOMAIN q |-> <<p[i], q[j]>>]
           ss == [i \in DOMAIN p |-> row(i)]
<1>1. /\ Len(p) \in Nat /\ DOMAIN p = 1 .. Len(p) /\ \A i \in 1 .. Len(p) : p[i] \in Links
      /\ Len(q) \in Nat /\ DOMAIN q = 1 .. Len(q) /\ \A j \in 1 .. Len(q) : q[j] \in Links
  OBVIOUS
<1>2. ASSUME NEW i \in 1 .. Len(p)
      PROVE  /\ row(i) \in Seq(Links \X Links) /\ Len(row(i)) = Len(q)
             /\ \A j \in 1 .. Len(q) : row(i)[j] = <<p[i], q[j]>>
  <2>1. row(i) \in [1 .. Len(q) -> Links \X Links]
    BY <1>1
  <2> QED BY <1>1, <2>1
<1>3. ss \in Seq(Seq(Links \X Links)) /\ Len(ss) = Len(p) /\ \A i \in 1 .. Len(p) : ss[i] = row(i)
  <2>1. ss \in [1 .. Len(p) -> Seq(Links \X Links)]
    <3> HIDE DEF row
    <3> QED BY <1>1, <1>2
  <2> QED BY <1>1, <2>1
<1>4. PairsOf(p, q) = FlattenSeq(ss)
  BY DEF PairsOf
<1> HIDE DEF ss, row
<1>5. /\ PairsOf(p, q) \in Seq(Links \X Links)
      /\ \A e : e \in ToSet(PairsOf(p, q)) <=> \E i \in 1 .. Len(p) : e \in ToSet(ss[i])
  BY <1>3, <1>4, FlattenFacts
<1>6. ASSUME NEW i \in 1 .. Len(p), NEW e PROVE e \in ToSet(ss[i]) <=> \E j \in 1 .. Len(q) : e = <<p[i], q[j]>>
  <2>1. DOMAIN ss[i] = 1 .. Len(q) /\ \A j \in 1 .. Len(q) : ss[i][j] = <<p[i], q[j]>>
    BY <1>2, <1>3
  <2>2. e \in ToSet(ss[i]) <=> \E j \in 1 .. Len(q) : e = ss[i][j]
    BY <2>1 DEF ToSet
  <2> QED BY <2>1, <2>2
<1>7. \A e : e \in ToSet(PairsOf(p, q)) <=> \E i \in 1 .. Len(p) : \E j \in 1 .. Len(q) : e = <<p[i], q[j]>>
  BY <1>5, <1>6
<1>8. ASSUME NEW x, NEW y, NEW w
      PROVE  w \in PairWeights(PairsOf(p, q), x, y) <=> \E u \in WeightsTo(p, x) : \E v \in WeightsTo(q, y) : w = u + v
  <2>1. ASSUME w \in PairWeights(PairsOf(p, q), x, y) PROVE \E u \in WeightsTo(p, x) : \E v \in WeightsTo(q, y) : w = u + v
    <3>1. PICK e \in ToSet(PairsOf(p, q)) : e[1].node = x /\ e[2].node = y /\ w = e[1].weight + e[2].weight
      BY <2>1 DEF PairWeights
    <3>2. PICK i \in 1 .. Len(p) : \E j \in 1 .. Len(q) : e = <<p[i], q[j]>>
      BY <1>7, <3>1
    <3>3. PICK j \in 1 .. Len(q) : e = <<p[i], q[j]>>
      BY <3>2
    <3>4. i \in At(p, x) /\ j \in At(q, y) /\ w = p[i].weight + q[j].weight
      BY <3>1, <3>3 DEF At
    <3>5. p[i].weight \in WeightsTo(p, x) /\ q[j].weight \in WeightsTo(q, y)
      BY <3>4, WeightsFacts
    <3> QED BY <3>4, <3>5
  <2>2. ASSUME NEW u \in WeightsTo(p, x), NEW v \in WeightsTo(q, y), w = u + v PROVE w \in PairWeights(PairsOf(p, q), x, y)
    <3>1. PICK i \in At(p, x) : p[i].weight = u
      BY WeightsFacts
    <3>2. PICK j \in At(q, y) : q[j].weight = v
      BY WeightsFacts
    <3>3. PICK e : e = <<p[i], q[j]>>
      OBVIOUS
    <3>4. e \in ToSet(PairsOf(p, q))
      BY <1>7, <3>3 DEF At
    <3>5. e[1].node = x /\ e[2].node = y /\ w = e[1].weight + e[2].weight
      BY <2>2, <3>1, <3>2, <3>3 DEF At
    <3> QED BY <3>4, <3>5 DEF PairWeights
  <2> QED BY <2>1, <2>2
<1> QED BY <1>5, <1>7, <1>8 DEF ArePairs

(* What the overlay consists of.                                           *)
AreWeights(out, prs) ==
    \A x, y \in Nodes : /\ Overlay(out, prs)[<<x, y>>] = WeightsTo(out[x], y) \cup PairWeights(prs, x, y)
                        /\ WeightsTo(out[x], y) \subseteq Weight
                        /\ PairWeights(prs, x, y) \subseteq Nat
                        /\ Overlay(out, prs)[<<x, y>>] \subseteq Nat

(* Weights of the overlay are natural numbers.                             *)
LEMMA OverlayFacts ==
    ASSUME NEW out \in [Nodes -> Seq(Links)], NEW prs \in Seq(Links \X Links)
    PROVE  AreWeights(out, prs)
<1>1. \A x, y \in Nodes : Overlay(out, prs)[<<x, y>>] = WeightsTo(out[x], y) \cup PairWeights(prs, x, y)
  BY DEF Overlay
<1>2. \A x, y \in Nodes : WeightsTo(out[x], y) \subseteq Weight
  BY WeightsFacts
<1>3. Weight \subseteq Nat
  BY InfAssumption DEF Weight
<1>4. \A x, y : PairWeights(prs, x, y) \subseteq Nat
  <2>1. \A p \in ToSet(prs) : p \in Links \X Links
    BY DEF ToSet
  <2>2. \A l \in Links : l.weight \in Nat
    BY <1>3 DEF Links
  <2>3. \A p \in ToSet(prs) : p[1].weight \in Nat /\ p[2].weight \in Nat
    BY <2>1, <2>2
  <2>4. \A p \in ToSet(prs) : p[1].weight + p[2].weight \in Nat
    BY <2>3
  <2> QED BY <2>4 DEF PairWeights
<1>6. \A x, y \in Nodes : Overlay(out, prs)[<<x, y>>] \subseteq Nat
  <2> SUFFICES ASSUME NEW x \in Nodes, NEW y \in Nodes PROVE Overlay(out, prs)[<<x, y>>] \subseteq Nat
    OBVIOUS
  <2>1. WeightsTo(out[x], y) \subseteq Nat /\ PairWeights(prs, x, y) \subseteq Nat
    BY <1>2, <1>3, <1>4
  <2> QED BY <1>1, <2>1
<1> QED BY <1>1, <1>2, <1>4, <1>6 DEF AreWeights

(* Other nodes' removal leaves links between two nodes alone.              *)
SameLinks(out2, in2, out, in, low) ==
    \A x, y \in Present(low) : /\ Count(out2[x], y) = Count(out[x], y)
                              /\ WeightsTo(out2[x], y) = WeightsTo(out[x], y)
                              /\ WeightsTo(in2[y], x) = WeightsTo(in[y], x)

(* The node that is removed takes no way with it.                          *)
LEMMA RemoveKeeps ==
    ASSUME NEW d, NEW out, NEW in, NEW low \in 0 .. N - 1, ListsOK(out, in, <<>>), Contracts(d, out, in, low, <<>>),
           NEW out2, IsDropped(out2, out, in[low], low), NEW in2, IsDropped(in2, in, out[low], low),
           NEW prs, ArePairs(prs, in[low], out[low])
    PROVE  /\ ListsOK(out2, in2, prs) /\ Contracts(d, out2, in2, low + 1, prs)
           /\ SameLinks(out2, in2, out, in, low + 1)
<1> DEFINE S == Present(low)
           T == Present(low + 1)
<1>1. /\ N \in Nat /\ low \in Nat /\ low \in Nodes /\ low \in S
      /\ T = S \ {low} /\ S \in SUBSET Nodes /\ T \subseteq S
      /\ \A x \in Nodes : x \in S <=> low <= x
      /\ \A x \in Nodes : x \in T <=> low < x
      /\ \A x \in Nodes : x \in Nat
  BY NAssumption DEF Present, Nodes
<1>0. PICK p, q : p = in[low] /\ q = out[low]
  OBVIOUS
<1>2. /\ out \in [Nodes -> Seq(Links)] /\ in \in [Nodes -> Seq(Links)]
      /\ p \in Seq(Links) /\ q \in Seq(Links) /\ <<>> \in Seq(Links \X Links)
  BY <1>0, <1>1 DEF ListsOK
<1>3. /\ LinksAreUp(out, low) /\ LinksAreUp(in, low) /\ EndsAgree(out, in, low)
      /\ Spanned(S, Overlay(out, <<>>), d)
      /\ UpIsOnWay(out, d, low) /\ UpIsOnWay(in, Flip(d), low)
  BY DEF Contracts
<1> HIDE DEF S, T
<1>4. \A x \in Nodes : \A y : /\ At(out[x], y) # {} => y \in Nodes /\ y # x /\ (x < low => x < y) /\ (low <= x => low <= y)
                              /\ At(in[x], y) # {} => y \in Nodes /\ y # x /\ (x < low => x < y) /\ (low <= x => low <= y)
  <2>1. ASSUME NEW list \in Seq(Links), NEW y, At(list, y) # {} PROVE y \in Nodes
    <3>1. PICK i \in 1 .. Len(list) : list[i].node = y
      BY <2>1 DEF At
    <3>2. list[i] \in Links
      OBVIOUS
    <3> QED BY <3>1, <3>2 DEF Links
  <2>2. \A x \in Nodes : out[x] \in Seq(Links) /\ in[x] \in Seq(Links)
    BY <1>2
  <2> QED BY <1>3, <2>1, <2>2 DEF LinksAreUp
<1>5. \A x \in Nodes : \A y : /\ Count(out[x], y) \in Nat /\ Count(in[x], y) \in Nat
                              /\ Count(out[x], y) = 0 <=> At(out[x], y) = {}
                              /\ Count(in[x], y) = 0 <=> At(in[x], y) = {}
  BY <1>2, CountFacts
<1>6. \A x, y \in S : Count(out[x], y) = Count(in[y], x)
  BY <1>3 DEF EndsAgree, S
<1>8. /\ out2 \in [Nodes -> Seq(Links)]
      /\ \A y \in Nodes : Count(out2[y], low) = Count(out[y], low) - Count(p, y)
      /\ \A y \in Nodes : \A z : z # low =>
             Count(out2[y], z) = Count(out[y], z) /\ WeightsTo(out2[y], z) = WeightsTo(out[y], z)
      /\ \A y \in Nodes : At(p, y) = {} => out2[y] = out[y]
  BY <1>0, Zenon DEF IsDropped
<1>9. /\ in2 \in [Nodes -> Seq(Links)]
      /\ \A y \in Nodes : Count(in2[y], low) = Count(in[y], low) - Count(q, y)
      /\ \A y \in Nodes : \A z : z # low =>
             Count(in2[y], z) = Count(in[y], z) /\ WeightsTo(in2[y], z) = WeightsTo(in[y], z)
      /\ \A y \in Nodes : At(q, y) = {} => in2[y] = in[y]
  BY <1>0, Zenon DEF IsDropped
<1>10. /\ prs \in Seq(Links \X Links)
       /\ \A e : e \in ToSet(prs) <=> \E i \in 1 .. Len(p) : \E j \in 1 .. Len(q) : e = <<p[i], q[j]>>
       /\ \A x, y : \A w : w \in PairWeights(prs, x, y)
                           <=> \E u \in WeightsTo(p, x) : \E v \in WeightsTo(q, y) : w = u + v
  <2>1. ArePairs(prs, p, q)
    BY <1>0, Zenon
  <2> QED BY <2>1 DEF ArePairs
<1>11. \A x \in Nodes : x <= low => out2[x] = out[x] /\ in2[x] = in[x]
  <2> SUFFICES ASSUME NEW x \in Nodes, x <= low PROVE out2[x] = out[x] /\ in2[x] = in[x]
    OBVIOUS
  <2>1. /\ At(p, x) # {} => x # low /\ low <= x
        /\ At(q, x) # {} => x # low /\ low <= x
    BY <1>0, <1>1, <1>4
  <2>2. x \in Nat
    BY <1>1
  <2>3. At(p, x) = {} /\ At(q, x) = {}
    BY <1>1, <2>1, <2>2
  <2> QED BY <1>8, <1>9, <2>3
<1>12. \A x \in T : /\ Count(out2[x], low) = 0 /\ At(out2[x], low) = {}
                    /\ Count(in2[x], low) = 0 /\ At(in2[x], low) = {}
  <2> SUFFICES ASSUME NEW x \in T
               PROVE  /\ Count(out2[x], low) = 0 /\ At(out2[x], low) = {}
                      /\ Count(in2[x], low) = 0 /\ At(in2[x], low) = {}
    OBVIOUS
  <2>1. x \in S /\ x \in Nodes
    BY <1>1
  <2>2. Count(out[x], low) = Count(in[low], x) /\ Count(out[low], x) = Count(in[x], low)
    BY <1>1, <1>6, <2>1
  <2>3. Count(out2[x], low) = 0 /\ Count(in2[x], low) = 0
    <3>1. Count(out2[x], low) = Count(out[x], low) - Count(p, x) /\ Count(in2[x], low) = Count(in[x], low) - Count(q, x)
      BY <1>8, <1>9, <2>1
    <3>2. Count(out[x], low) = Count(p, x) /\ Count(in[x], low) = Count(q, x)
      BY <1>0, <2>2
    <3>3. Count(out[x], low) \in Nat /\ Count(in[x], low) \in Nat
      BY <1>5, <2>1
    <3> QED BY <3>1, <3>2, <3>3
  <2>4. out2[x] \in Seq(Links) /\ in2[x] \in Seq(Links)
    BY <1>8, <1>9, <2>1
  <2> QED BY <2>3, <2>4, CountFacts
<1>13. \A x \in Nodes : \A z : z # low =>
           /\ At(out2[x], z) # {} => At(out[x], z) # {}
           /\ At(in2[x], z) # {} => At(in[x], z) # {}
  <2> SUFFICES ASSUME NEW x \in Nodes, NEW z, z # low
               PROVE  /\ At(out2[x], z) # {} => At(out[x], z) # {}
                      /\ At(in2[x], z) # {} => At(in[x], z) # {}
    OBVIOUS
  <2>1. out2[x] \in Seq(Links) /\ in2[x] \in Seq(Links)
    BY <1>8, <1>9
  <2>2. Count(out2[x], z) = Count(out[x], z) /\ Count(in2[x], z) = Count(in[x], z)
    BY <1>8, <1>9
  <2>3. (Count(out2[x], z) = 0 <=> At(out2[x], z) = {}) /\ (Count(in2[x], z) = 0 <=> At(in2[x], z) = {})
    BY <2>1, CountFacts
  <2> QED BY <1>5, <2>2, <2>3
<1>14. LinksAreUp(out2, low + 1) /\ LinksAreUp(in2, low + 1)
  <2>1. ASSUME NEW x \in Nodes, NEW y, At(out2[x], y) # {} \/ At(in2[x], y) # {}
        PROVE  y # x /\ (x < low + 1 => x < y) /\ (low + 1 <= x => low + 1 <= y)
    <3>1. CASE x <= low
      <4>1. At(out[x], y) # {} \/ At(in[x], y) # {}
        BY <1>11, <2>1, <3>1
      <4>2. y \in Nodes /\ y # x /\ (x < low => x < y) /\ (low <= x => low <= y)
        BY <1>4, <4>1
      <4>3. y \in Nat /\ x \in Nat
        BY <1>1, <4>2
      <4> QED BY <1>1, <3>1, <4>2, <4>3
    <3>2. CASE ~ x <= low
      <4>1. x \in T
        BY <1>1, <3>2
      <4>2. y # low
        BY <1>12, <2>1, <4>1
      <4>3. At(out[x], y) # {} \/ At(in[x], y) # {}
        BY <1>13, <2>1, <4>2
      <4>4. y \in Nodes /\ y # x /\ (low <= x => low <= y)
        BY <1>4, <4>3
      <4>5. y \in Nat /\ x \in Nat
        BY <1>1, <4>4
      <4> QED BY <1>1, <3>2, <4>2, <4>4, <4>5
    <3> QED BY <3>1, <3>2
  <2> QED BY <2>1 DEF LinksAreUp
<1>15. \A x, y \in T : /\ Count(out2[x], y) = Count(out[x], y) /\ WeightsTo(out2[x], y) = WeightsTo(out[x], y)
                       /\ Count(in2[y], x) = Count(in[y], x) /\ WeightsTo(in2[y], x) = WeightsTo(in[y], x)
  <2>1. \A x \in T : x \in Nodes /\ x # low
    BY <1>1
  <2> QED BY <1>8, <1>9, <2>1
<1>16. EndsAgree(out2, in2, low + 1)
  <2>1. \A x, y \in T :
            /\ Count(out[x], y) = Count(in[y], x)
            /\ \A w \in WeightsTo(out[x], y) : \E v \in WeightsTo(in[y], x) : v <= w
            /\ \A v \in WeightsTo(in[y], x) : \E w \in WeightsTo(out[x], y) : w <= v
    BY <1>1, <1>3 DEF EndsAgree, S
  <2>2. ASSUME NEW x \in T, NEW y \in T
        PROVE  /\ Count(out2[x], y) = Count(in2[y], x)
               /\ \A w \in WeightsTo(out2[x], y) : \E v \in WeightsTo(in2[y], x) : v <= w
               /\ \A v \in WeightsTo(in2[y], x) : \E w \in WeightsTo(out2[x], y) : w <= v
    BY <1>15, <2>1
  <2> QED BY <2>2 DEF EndsAgree, T
<1>17. \A e \in ToSet(prs) : e[1].node \in Present(low + 1) /\ e[2].node \in Present(low + 1)
  <2> SUFFICES ASSUME NEW e \in ToSet(prs) PROVE e[1].node \in T /\ e[2].node \in T
    BY DEF T
  <2>1. PICK i \in 1 .. Len(p) : \E j \in 1 .. Len(q) : e = <<p[i], q[j]>>
    BY <1>10
  <2>2. PICK j \in 1 .. Len(q) : e = <<p[i], q[j]>>
    BY <2>1
  <2>4. PICK a, b : a = p[i].node /\ b = q[j].node
    OBVIOUS
  <2>3. At(p, a) # {} /\ At(q, b) # {}
    BY <2>4 DEF At
  <2>5. a \in Nodes /\ a # low /\ low <= a
    <3>1. At(in[low], a) # {}
      BY <1>0, <2>3
    <3> QED BY <1>1, <1>4, <3>1
  <2>6. b \in Nodes /\ b # low /\ low <= b
    <3>1. At(out[low], b) # {}
      BY <1>0, <2>3
    <3> QED BY <1>1, <1>4, <3>1
  <2>7. a \in T /\ b \in T
    BY <1>1, <2>5, <2>6
  <2> QED BY <2>2, <2>4, <2>7
<1>18. PICK P, P2 : P = Overlay(out, <<>>) /\ P2 = Overlay(out2, prs)
  OBVIOUS
<1>18a. ASSUME NEW x \in Nodes, NEW y \in Nodes
        PROVE  /\ Overlay(out, <<>>)[<<x, y>>] = WeightsTo(out[x], y)
               /\ Overlay(out, <<>>)[<<x, y>>] \subseteq Nat
               /\ Overlay(out2, prs)[<<x, y>>] = WeightsTo(out2[x], y) \cup PairWeights(prs, x, y)
               /\ Overlay(out2, prs)[<<x, y>>] \subseteq Nat
  <2>1. AreWeights(out, <<>>) /\ AreWeights(out2, prs)
    BY <1>2, <1>8, <1>10, OverlayFacts
  <2>2. PairWeights(<<>>, x, y) = {}
    BY DEF PairWeights, ToSet
  <2>3. /\ Overlay(out, <<>>)[<<x, y>>] = WeightsTo(out[x], y) \cup PairWeights(<<>>, x, y)
        /\ Overlay(out, <<>>)[<<x, y>>] \subseteq Nat
    BY <2>1 DEF AreWeights
  <2>4. /\ Overlay(out2, prs)[<<x, y>>] = WeightsTo(out2[x], y) \cup PairWeights(prs, x, y)
        /\ Overlay(out2, prs)[<<x, y>>] \subseteq Nat
    BY <2>1 DEF AreWeights
  <2>5. Overlay(out, <<>>)[<<x, y>>] = WeightsTo(out[x], y)
    BY <2>2, <2>3
  <2> QED BY <2>3, <2>4, <2>5
<1>19. \A x, y \in Nodes : /\ P[<<x, y>>] = WeightsTo(out[x], y) /\ P[<<x, y>>] \subseteq Nat
                           /\ P2[<<x, y>>] = WeightsTo(out2[x], y) \cup PairWeights(prs, x, y)
                           /\ P2[<<x, y>>] \subseteq Nat
  BY <1>18, <1>18a, Zenon
<1>20. /\ Spanned(S, P, d) /\ MetricOn(S, d)
       /\ \A x, y \in S : d[<<x, y>>] \in Nat /\ \A w \in P[<<x, y>>] : d[<<x, y>>] <= w
  BY <1>3, <1>18 DEF Spanned, MetricOn, Under
<1>21. \A x, y \in S : \A w \in WeightsTo(out[x], y) : w \in Nat /\ d[<<x, y>>] <= w
  <2> SUFFICES ASSUME NEW x \in S, NEW y \in S, NEW w \in WeightsTo(out[x], y) PROVE w \in Nat /\ d[<<x, y>>] <= w
    OBVIOUS
  <2>1. x \in Nodes /\ y \in Nodes
    BY <1>1
  <2>2. w \in P[<<x, y>>] /\ w \in Nat
    BY <1>19, <2>1
  <2> QED BY <1>20, <2>2
<1>22. \A x, y \in S : \A v \in WeightsTo(in[y], x) :
           /\ v \in Nat /\ d[<<x, y>>] <= v
           /\ \E w \in WeightsTo(out[x], y) : w <= v
  <2> SUFFICES ASSUME NEW x \in S, NEW y \in S, NEW v \in WeightsTo(in[y], x)
               PROVE  v \in Nat /\ d[<<x, y>>] <= v /\ \E w \in WeightsTo(out[x], y) : w <= v
    OBVIOUS
  <2>1. PICK w \in WeightsTo(out[x], y) : w <= v
    BY <1>3 DEF EndsAgree, S
  <2>2. w \in Nat /\ d[<<x, y>>] <= w /\ d[<<x, y>>] \in Nat
    BY <1>20, <1>21
  <2>3. v \in Weight
    <3>1. in[y] \in Seq(Links)
      BY <1>1, <1>2
    <3> QED BY <3>1, WeightsFacts
  <2>4. v \in Nat
    BY <2>3, InfAssumption DEF Weight
  <2>5. d[<<x, y>>] <= v
    BY <2>1, <2>2, <2>4
  <2> QED BY <2>1, <2>4, <2>5
<1>23. Under(T, d, P2)
  <2> SUFFICES ASSUME NEW x \in T, NEW y \in T, NEW w \in P2[<<x, y>>] PROVE d[<<x, y>>] <= w
    BY DEF Under
  <2>1. x \in S /\ y \in S /\ x \in Nodes /\ y \in Nodes
    BY <1>1
  <2>2. CASE w \in WeightsTo(out2[x], y)
    BY <1>15, <1>21, <2>1, <2>2
  <2>3. CASE w \in PairWeights(prs, x, y)
    <3>1. PICK u \in WeightsTo(in[low], x) : \E v \in WeightsTo(out[low], y) : w = u + v
      BY <1>0, <1>10, <2>3
    <3>2. PICK v \in WeightsTo(out[low], y) : w = u + v
      BY <3>1
    <3>3. u \in Nat /\ d[<<x, low>>] <= u
      BY <1>1, <1>22, <2>1
    <3>4. v \in Nat /\ d[<<low, y>>] <= v
      BY <1>1, <1>21, <2>1
    <3>5. /\ d[<<x, y>>] <= d[<<x, low>>] + d[<<low, y>>]
          /\ d[<<x, y>>] \in Nat /\ d[<<x, low>>] \in Nat /\ d[<<low, y>>] \in Nat
      BY <1>1, <1>20, <2>1 DEF MetricOn
    <3> QED BY <3>2, <3>3, <3>4, <3>5
  <2> QED BY <1>19, <2>1, <2>2, <2>3
<1>24. Spanned(T, P2, d)
  <2>1. \A a, b \in S : P[<<a, b>>] \subseteq Nat
    BY <1>1, <1>19
  <2>2. \A a, b \in T : P2[<<a, b>>] \subseteq Nat
    BY <1>1, <1>19
  <2>3. \A a, b \in T : \A w \in P[<<a, b>>] : \E v \in P2[<<a, b>>] : v <= w
    <3> SUFFICES ASSUME NEW a \in T, NEW b \in T, NEW w \in P[<<a, b>>] PROVE \E v \in P2[<<a, b>>] : v <= w
      OBVIOUS
    <3>1. a \in Nodes /\ b \in Nodes
      BY <1>1
    <3>2. w \in P2[<<a, b>>] /\ w \in Nat
      BY <1>15, <1>19, <3>1
    <3> QED BY <3>2
  <2>4. \A a, b \in T : \A u \in P[<<a, low>>] : \A v \in P[<<low, b>>] : \E w \in P2[<<a, b>>] : w <= u + v
    <3> SUFFICES ASSUME NEW a \in T, NEW b \in T, NEW u \in P[<<a, low>>], NEW v \in P[<<low, b>>]
                 PROVE  \E w \in P2[<<a, b>>] : w <= u + v
      OBVIOUS
    <3>1. a \in Nodes /\ b \in Nodes /\ a \in S /\ b \in S
      BY <1>1
    <3>2. u \in WeightsTo(out[a], low) /\ v \in WeightsTo(out[low], b) /\ u \in Nat /\ v \in Nat
      BY <1>1, <1>19, <3>1
    <3>3. PICK t \in WeightsTo(in[low], a) : t <= u
      BY <1>1, <1>3, <3>1, <3>2 DEF EndsAgree, S
    <3>4. t \in Nat
      BY <1>1, <1>22, <3>1
    <3>5. t + v \in PairWeights(prs, a, b)
      BY <1>0, <1>10, <3>2
    <3>6. t + v \in P2[<<a, b>>] /\ t + v <= u + v
      BY <1>19, <3>1, <3>2, <3>3, <3>4, <3>5
    <3> QED BY <3>6
  <2>5. T = S \ {low} /\ low \in S /\ S \in SUBSET Nodes
    BY <1>1
  <2> QED BY <1>20, <1>23, <2>1, <2>2, <2>3, <2>4, <2>5, NodeIsReplaced
<1>25. UpIsOnWay(out2, d, low + 1)
  <2> SUFFICES ASSUME NEW x \in Nodes, NEW y \in Nodes, x < low + 1
               PROVE  /\ \A w \in WeightsTo(out[x], y) : d[<<x, y>>] <= w
                      /\ x < y /\ d[<<x, y>>] < Inf =>
                             \E z \in Nodes : \E w \in WeightsTo(out[x], z) : w + d[<<z, y>>] <= d[<<x, y>>]
    <3>1. \A x \in Nodes : x < low + 1 => x <= low
      BY <1>1
    <3> QED BY <1>11, <3>1 DEF UpIsOnWay
  <2>1. CASE x < low
    BY <1>3, <2>1 DEF UpIsOnWay
  <2>2. CASE x = low
    <3>1. ASSUME NEW w \in WeightsTo(out[low], y) PROVE d[<<low, y>>] <= w
      <4>1. At(out[low], y) # {}
        BY <1>1, <1>2, CountFacts
      <4>2. y \in S
        BY <1>1, <1>4, <4>1
      <4> QED BY <1>1, <1>21, <4>2
    <3>2. ASSUME low < y, d[<<low, y>>] < Inf
          PROVE  \E z \in Nodes : \E w \in WeightsTo(out[low], z) : w + d[<<z, y>>] <= d[<<low, y>>]
      <4>1. y \in S /\ low # y /\ \A a, b \in S : P[<<a, b>>] \subseteq Nat
        BY <1>1, <1>19, <3>2
      <4>2. PICK z \in S : \E w \in P[<<low, z>>] : w + d[<<z, y>>] <= d[<<low, y>>]
        BY <1>1, <1>20, <3>2, <4>1, FirstArc
      <4> QED BY <1>1, <1>19, <4>2
    <3> QED BY <2>2, <3>1, <3>2
  <2> QED BY <1>1, <2>1, <2>2
<1>26. UpIsOnWay(in2, Flip(d), low + 1)
  <2>0. \A a, b \in Nodes : Flip(d)[<<a, b>>] = d[<<b, a>>]
    BY DEF Flip
  <2>a. PICK e : e = Flip(d)
    OBVIOUS
  <2>b. \A a, b \in Nodes : e[<<a, b>>] = d[<<b, a>>]
    BY <2>0, <2>a
  <2>3. ASSUME NEW x \in Nodes, NEW y \in Nodes, x < low + 1
        PROVE  /\ \A w \in WeightsTo(in[x], y) : d[<<y, x>>] <= w
               /\ x < y /\ d[<<y, x>>] < Inf =>
                      \E z \in Nodes : \E w \in WeightsTo(in[x], z) : w + d[<<y, z>>] <= d[<<y, x>>]
    <3>1. CASE x < low
      <4>1. UpIsOnWay(in, e, low)
        BY <1>3, <2>a
      <4>2. e[<<x, y>>] = d[<<y, x>>] /\ \A z \in Nodes : e[<<z, y>>] = d[<<y, z>>]
        BY <2>b
      <4>3. /\ \A w \in WeightsTo(in[x], y) : e[<<x, y>>] <= w
            /\ x < y /\ e[<<x, y>>] < Inf =>
                   \E z \in Nodes : \E w \in WeightsTo(in[x], z) : w + e[<<z, y>>] <= e[<<x, y>>]
        BY <3>1, <4>1 DEF UpIsOnWay
      <4> QED BY <4>2, <4>3
    <3>2. CASE x = low
      <4>1. ASSUME NEW w \in WeightsTo(in[low], y) PROVE d[<<y, low>>] <= w
        <5>1. At(in[low], y) # {}
          BY <1>1, <1>2, CountFacts
        <5>2. y \in S
          BY <1>1, <1>4, <5>1
        <5> QED BY <1>1, <1>22, <5>2
      <4>2. ASSUME low < y, d[<<y, low>>] < Inf
            PROVE  \E z \in Nodes : \E w \in WeightsTo(in[low], z) : w + d[<<y, z>>] <= d[<<y, low>>]
        <5>1. y \in S /\ low # y /\ \A a, b \in S : P[<<a, b>>] \subseteq Nat
          BY <1>1, <1>19, <4>2
        <5>2. PICK z \in S : \E w \in P[<<z, low>>] : d[<<y, z>>] + w <= d[<<y, low>>]
          BY <1>1, <1>20, <4>2, <5>1, LastArc
        <5>3. PICK w \in WeightsTo(out[z], low) : d[<<y, z>>] + w <= d[<<y, low>>]
          BY <1>1, <1>19, <5>2
        <5>4. PICK v \in WeightsTo(in[low], z) : v <= w
          BY <1>1, <1>3 DEF EndsAgree, S
        <5>5. v \in Nat /\ w \in Nat /\ d[<<y, z>>] \in Nat /\ d[<<y, low>>] \in Nat
          BY <1>1, <1>20, <1>21, <1>22, <5>1
        <5>6. v + d[<<y, z>>] <= d[<<y, low>>]
          BY <5>3, <5>4, <5>5
        <5> QED BY <1>1, <5>6
      <4>3. \A w \in WeightsTo(in[x], y) : d[<<y, x>>] <= w
        BY <3>2, <4>1
      <4>4. x < y /\ d[<<y, x>>] < Inf =>
                \E z \in Nodes : \E w \in WeightsTo(in[x], z) : w + d[<<y, z>>] <= d[<<y, x>>]
        BY <3>2, <4>2
      <4> QED BY <4>3, <4>4
    <3>3. x < low \/ x = low
      BY <1>1, <2>3
    <3> QED BY <3>1, <3>2, <3>3
  <2>4. ASSUME NEW x \in Nodes, NEW y \in Nodes, x < low + 1
        PROVE  /\ \A w \in WeightsTo(in2[x], y) : e[<<x, y>>] <= w
               /\ x < y /\ e[<<x, y>>] < Inf =>
                      \E z \in Nodes : \E w \in WeightsTo(in2[x], z) : w + e[<<z, y>>] <= e[<<x, y>>]
    <3>0. x <= low
      BY <1>1, <2>4
    <3>1. in2[x] = in[x]
      BY <1>11, <3>0
    <3>2. e[<<x, y>>] = d[<<y, x>>] /\ \A z \in Nodes : e[<<z, y>>] = d[<<y, z>>]
      BY <2>b
    <3>3. /\ \A w \in WeightsTo(in[x], y) : d[<<y, x>>] <= w
          /\ x < y /\ d[<<y, x>>] < Inf =>
                 \E z \in Nodes : \E w \in WeightsTo(in[x], z) : w + d[<<y, z>>] <= d[<<y, x>>]
      BY <2>3, <2>4
    <3>4. \A w \in WeightsTo(in2[x], y) : e[<<x, y>>] <= w
      BY <3>1, <3>2, <3>3, Zenon
    <3>5. ASSUME x < y, e[<<x, y>>] < Inf
          PROVE  \E z \in Nodes : \E w \in WeightsTo(in2[x], z) : w + e[<<z, y>>] <= e[<<x, y>>]
      <4>1. PICK z \in Nodes : \E w \in WeightsTo(in[x], z) : w + d[<<y, z>>] <= d[<<y, x>>]
        BY <3>2, <3>3, <3>5
      <4>2. PICK w \in WeightsTo(in[x], z) : w + d[<<y, z>>] <= d[<<y, x>>]
        BY <4>1
      <4>3. w \in WeightsTo(in2[x], z) /\ w + e[<<z, y>>] <= e[<<x, y>>]
        BY <3>1, <3>2, <4>2, Zenon
      <4> QED BY <4>3
    <3> QED BY <3>4, <3>5
  <2>5. UpIsOnWay(in2, e, low + 1)
    BY <2>4 DEF UpIsOnWay
  <2> QED BY <2>a, <2>5
<1>27. Contracts(d, out2, in2, low + 1, prs)
  <2>1. Spanned(Present(low + 1), Overlay(out2, prs), d)
    BY <1>18, <1>24 DEF T
  <2> QED BY <1>14, <1>16, <1>17, <1>25, <1>26, <2>1 DEF Contracts
<1>28. ListsOK(out2, in2, prs)
  BY <1>8, <1>9, <1>10 DEF ListsOK
<1> QED BY <1>15, <1>27, <1>28 DEF T, SameLinks

(* Both ends of links between remaining nodes have as many, so that all    *)
(* links to the removed node go.                                           *)
LEMMA DropIsOK ==
    ASSUME NEW d, NEW out, NEW in, NEW low \in 0 .. N - 1, NEW prs, ListsOK(out, in, prs), Contracts(d, out, in, low, prs)
    PROVE  /\ IsDropped(Dropped(out, in[low], low), out, in[low], low)
           /\ IsDropped(Dropped(in, out[low], low), in, out[low], low)
           /\ ArePairs(PairsOf(in[low], out[low]), in[low], out[low])
<1>0. PICK p, q : p = in[low] /\ q = out[low]
  OBVIOUS
<1>1. /\ N \in Nat /\ low \in Nat /\ low \in Nodes /\ low \in Present(low)
      /\ \A x \in Nodes : x \in Present(low) <=> low <= x
      /\ \A x \in Nodes : x \in Nat
  BY NAssumption DEF Present, Nodes
<1>2. /\ out \in [Nodes -> Seq(Links)] /\ in \in [Nodes -> Seq(Links)]
      /\ p \in Seq(Links) /\ q \in Seq(Links)
  BY <1>0, <1>1 DEF ListsOK
<1>3. LinksAreUp(out, low) /\ LinksAreUp(in, low) /\ EndsAgree(out, in, low)
  BY DEF Contracts
<1>4. \A x \in Nodes : (At(p, x) # {} => x \in Present(low)) /\ (At(q, x) # {} => x \in Present(low))
  BY <1>0, <1>1, <1>3 DEF LinksAreUp
<1>5. \A x \in Nodes : Count(out[x], low) \in Nat /\ Count(in[x], low) \in Nat
  BY <1>2, CountFacts
<1>6. \A x, y \in Present(low) : Count(out[x], y) = Count(in[y], x)
  BY <1>3 DEF EndsAgree
<1>7. \A x \in Nodes : Count(p, x) <= Count(out[x], low) /\ Count(q, x) <= Count(in[x], low)
  <2> SUFFICES ASSUME NEW x \in Nodes
               PROVE  Count(p, x) <= Count(out[x], low) /\ Count(q, x) <= Count(in[x], low)
    OBVIOUS
  <2>0. Count(out[x], low) \in Nat /\ Count(in[x], low) \in Nat
    BY <1>5
  <2>1. CASE x \in Present(low)
    <3>1. Count(out[x], low) = Count(p, x) /\ Count(q, x) = Count(in[x], low)
      BY <1>0, <1>1, <1>6, <2>1
    <3> QED BY <2>0, <3>1
  <2>2. CASE x \notin Present(low)
    <3>1. At(p, x) = {} /\ At(q, x) = {}
      BY <1>4, <2>2
    <3>2. Count(p, x) = 0 /\ Count(q, x) = 0
      BY <1>2, <3>1, CountFacts
    <3> QED BY <2>0, <3>2
  <2> QED BY <2>1, <2>2
<1>8. PICK r, s : r = Dropped(out, p, low) /\ s = Dropped(in, q, low)
  OBVIOUS
<1>9. IsDropped(r, out, p, low)
  <2>1. \A y \in Nodes : Count(p, y) <= Count(out[y], low)
    BY <1>7
  <2> QED BY <1>2, <1>8, <2>1, DroppedFacts, Zenon
<1>10. IsDropped(s, in, q, low)
  <2>1. \A y \in Nodes : Count(q, y) <= Count(in[y], low)
    BY <1>7
  <2> QED BY <1>2, <1>8, <2>1, DroppedFacts, Zenon
<1>11. ArePairs(PairsOf(p, q), p, q)
  BY <1>2, PairsOfFacts
<1> QED BY <1>0, <1>8, <1>9, <1>10, <1>11, Zenon

(* Other arcs span the same metric if no metric tells them apart.          *)
LEMMA SpannedByOthers ==
    ASSUME NEW S, NEW arcs, NEW d, Spanned(S, arcs, d), NEW others, Under(S, d, others),
           \A e : MetricOn(S, e) /\ Under(S, e, others) => Under(S, e, arcs)
    PROVE  Spanned(S, others, d)
BY DEF Spanned

(* Remaining, of any lists.                                                *)
RemainingOf(out, low) ==
    [a \in Nodes \X Nodes |-> IF a[1] < low THEN {} ELSE WeightsTo(out[a[1]], a[2])]

(* Arcs of removed nodes do not remain.                                    *)
LEMMA RemainingFacts ==
    ASSUME NEW out \in [Nodes -> Seq(Links)], NEW low \in 0 .. N
    PROVE  /\ RemainingOf(out, low) \in ArcSets
           /\ \A a \in Nodes \ Present(low) : \A b \in Nodes : RemainingOf(out, low)[<<a, b>>] = {}
           /\ \A a \in Present(low) : a \in Nodes /\ \A b \in Nodes : RemainingOf(out, low)[<<a, b>>] = WeightsTo(out[a], b)
<1>1. \A a \in Nodes : a \in Nat /\ (a \in Present(low) <=> ~ a < low)
  BY NAssumption DEF Present, Nodes
<1>2. \A a, b \in Nodes : WeightsTo(out[a], b) \subseteq Weight
  BY WeightsFacts
<1>3. RemainingOf(out, low) \in ArcSets
  BY <1>2 DEF RemainingOf, ArcSets, Weight
<1>4. \A a \in Present(low) : a \in Nodes
  BY NAssumption DEF Present, Nodes
<1> QED BY <1>1, <1>3, <1>4 DEF RemainingOf

(* The ends and the weight of the next pair.                               *)
IsFirst(prs, from, to, weight) ==
    /\ from = Head(prs)[1].node /\ to = Head(prs)[2].node
    /\ weight = Head(prs)[1].weight + Head(prs)[2].weight

(* Without its first pair, the overlay has at most one weight less.        *)
LEMMA FirstPairFacts ==
    ASSUME NEW prs \in Seq(Links \X Links), prs # <<>>, NEW from, NEW to, NEW weight, IsFirst(prs, from, to, weight)
    PROVE  /\ Tail(prs) \in Seq(Links \X Links)
           /\ from \in Nodes /\ to \in Nodes /\ weight \in Nat
           /\ Head(prs) \in ToSet(prs) /\ ToSet(Tail(prs)) \subseteq ToSet(prs)
           /\ weight \in PairWeights(prs, from, to)
           /\ \A x, y : PairWeights(Tail(prs), x, y) \subseteq PairWeights(prs, x, y)
           /\ \A x, y : \A w \in PairWeights(prs, x, y) :
                  w \in PairWeights(Tail(prs), x, y) \/ (x = from /\ y = to /\ w = weight)
<1>1. PICK p : p = Head(prs)
  OBVIOUS
<1>2. PICK t : t = Tail(prs)
  OBVIOUS
<1>3. /\ Len(prs) \in Nat /\ Len(prs) # 0 /\ p = prs[1] /\ p \in Links \X Links
      /\ t \in Seq(Links \X Links) /\ Len(t) = Len(prs) - 1 /\ \A i \in 1 .. Len(t) : t[i] = prs[i + 1]
  BY <1>1, <1>2
<1>4. /\ p \in ToSet(prs) /\ ToSet(t) \subseteq ToSet(prs)
      /\ \A q \in ToSet(prs) : q = p \/ q \in ToSet(t)
  <2>1. DOMAIN prs = 1 .. Len(prs) /\ DOMAIN t = 1 .. Len(t)
    BY <1>3
  <2>2. \A i \in 1 .. Len(prs) : i = 1 \/ (i - 1 \in 1 .. Len(t) /\ prs[i] = t[i - 1])
    <3> SUFFICES ASSUME NEW i \in 1 .. Len(prs), i # 1 PROVE i - 1 \in 1 .. Len(t) /\ prs[i] = t[i - 1]
      OBVIOUS
    <3>1. i - 1 \in 1 .. Len(t) /\ (i - 1) + 1 = i
      BY <1>3
    <3> QED BY <1>3, <3>1
  <2>3. 1 \in 1 .. Len(prs) /\ \A i \in 1 .. Len(t) : i + 1 \in 1 .. Len(prs)
    BY <1>3
  <2>4. \A q : /\ q \in ToSet(prs) <=> \E i \in 1 .. Len(prs) : prs[i] = q
               /\ q \in ToSet(t) <=> \E i \in 1 .. Len(t) : t[i] = q
    BY <2>1 DEF ToSet
  <2>5. 1 \in 1 .. Len(prs)
    BY <1>3
  <2>6. p \in ToSet(prs)
    BY <1>3, <2>4, <2>5
  <2>7. ToSet(t) \subseteq ToSet(prs)
    BY <1>3, <2>3, <2>4
  <2>8. ASSUME NEW q \in ToSet(prs), q # p PROVE q \in ToSet(t)
    <3>1. PICK i \in 1 .. Len(prs) : prs[i] = q
      BY <2>4
    <3> QED BY <1>3, <2>2, <2>4, <2>8, <3>1
  <2> QED BY <2>6, <2>7, <2>8
<1>5. from = p[1].node /\ to = p[2].node /\ weight = p[1].weight + p[2].weight
  BY <1>1, Zenon DEF IsFirst
<1>6. from \in Nodes /\ to \in Nodes /\ weight \in Nat
  <2>1. \A l \in Links : l.node \in Nodes /\ l.weight \in Nat
    BY InfAssumption DEF Links, Weight
  <2>2. p[1] \in Links /\ p[2] \in Links
    BY <1>3
  <2>3. p[1].weight \in Nat /\ p[2].weight \in Nat
    BY <2>1, <2>2
  <2> QED BY <1>5, <2>1, <2>2, <2>3
<1>7. weight \in PairWeights(prs, from, to)
  BY <1>4, <1>5 DEF PairWeights
<1>8. \A x, y : PairWeights(t, x, y) \subseteq PairWeights(prs, x, y)
  BY <1>4 DEF PairWeights
<1>9. ASSUME NEW x, NEW y, NEW w \in PairWeights(prs, x, y)
      PROVE  w \in PairWeights(t, x, y) \/ (x = from /\ y = to /\ w = weight)
  <2>1. PICK q \in ToSet(prs) : q[1].node = x /\ q[2].node = y /\ w = q[1].weight + q[2].weight
    BY DEF PairWeights
  <2>2. CASE q = p
    BY <1>5, <2>1, <2>2
  <2>3. CASE q \in ToSet(t)
    BY <2>1, <2>3 DEF PairWeights
  <2> QED BY <1>4, <2>2, <2>3
<1>10. /\ t \in Seq(Links \X Links) /\ p \in ToSet(prs) /\ ToSet(t) \subseteq ToSet(prs)
  BY <1>3, <1>4
<1> QED BY <1>1, <1>2, <1>6, <1>7, <1>8, <1>9, <1>10, Zenon

(* A pair that needs no link: there is another way.                        *)
LEMMA SkipKeeps ==
    ASSUME NEW d, NEW out, NEW in, NEW low \in 0 .. N, NEW prs, prs # <<>>, ListsOK(out, in, prs),
           Contracts(d, out, in, low, prs),
           NEW from, NEW to, NEW weight, IsFirst(prs, from, to, weight),
           from = to \/ Distances(RemainingOf(out, low))[<<from, to>>] < weight
    PROVE  ListsOK(out, in, Tail(prs)) /\ Contracts(d, out, in, low, Tail(prs))
<1>1. PICK t : t = Tail(prs)
  OBVIOUS
<1>2. /\ out \in [Nodes -> Seq(Links)] /\ prs \in Seq(Links \X Links) /\ t \in Seq(Links \X Links)
      /\ from \in Nodes /\ to \in Nodes /\ weight \in Nat
      /\ ToSet(t) \subseteq ToSet(prs) /\ Head(prs) \in ToSet(prs) /\ weight \in PairWeights(prs, from, to)
      /\ \A x, y : PairWeights(t, x, y) \subseteq PairWeights(prs, x, y)
      /\ \A x, y : \A w \in PairWeights(prs, x, y) : w \in PairWeights(t, x, y) \/ (x = from /\ y = to /\ w = weight)
  <2>1. out \in [Nodes -> Seq(Links)] /\ prs \in Seq(Links \X Links)
    BY DEF ListsOK
  <2> QED BY <1>1, <2>1, FirstPairFacts, ZenonT(30)
<1>3. PICK S : S = Present(low)
  OBVIOUS
<1>4. PICK P, Q : P = Overlay(out, prs) /\ Q = Overlay(out, t)
  OBVIOUS
<1>5. /\ \A a \in S : a \in Nodes
      /\ from \in S /\ to \in S
      /\ Spanned(S, P, d)
  <2>1. \A a \in Present(low) : a \in Nodes
    BY NAssumption DEF Present, Nodes
  <2>2. \A p \in ToSet(prs) : p[1].node \in Present(low) /\ p[2].node \in Present(low)
    BY DEF Contracts
  <2>3. from \in Present(low) /\ to \in Present(low)
    BY <1>2, <2>2 DEF IsFirst
  <2>4. Spanned(Present(low), Overlay(out, prs), d)
    BY DEF Contracts
  <2> QED BY <1>3, <1>4, <2>1, <2>3, <2>4, Zenon
<1>6. \A a, b \in Nodes : /\ P[<<a, b>>] = WeightsTo(out[a], b) \cup PairWeights(prs, a, b)
                          /\ Q[<<a, b>>] = WeightsTo(out[a], b) \cup PairWeights(t, a, b)
  <2>1. AreWeights(out, prs) /\ AreWeights(out, t)
    BY <1>2, OverlayFacts
  <2>2. \A a, b \in Nodes : /\ Overlay(out, prs)[<<a, b>>] = WeightsTo(out[a], b) \cup PairWeights(prs, a, b)
                            /\ Overlay(out, t)[<<a, b>>] = WeightsTo(out[a], b) \cup PairWeights(t, a, b)
    BY <2>1 DEF AreWeights
  <2> QED BY <1>4, <2>2, Zenon
<1>7. Under(S, d, Q)
  <2> SUFFICES ASSUME NEW a \in S, NEW b \in S, NEW w \in Q[<<a, b>>] PROVE d[<<a, b>>] <= w
    BY DEF Under
  <2>1. w \in P[<<a, b>>]
    BY <1>2, <1>5, <1>6
  <2> QED BY <1>5, <2>1 DEF Spanned, Under
<1>8. ASSUME NEW e, MetricOn(S, e), Under(S, e, Q) PROVE Under(S, e, P)
  <2> SUFFICES ASSUME NEW a \in S, NEW b \in S, NEW w \in P[<<a, b>>] PROVE e[<<a, b>>] <= w
    BY DEF Under
  <2>1. a \in Nodes /\ b \in Nodes
    BY <1>5
  <2>2. CASE w \in Q[<<a, b>>]
    BY <1>8, <2>2 DEF Under
  <2>3. CASE w \notin Q[<<a, b>>]
    <3>1. w \in PairWeights(prs, a, b) /\ w \notin PairWeights(t, a, b)
      BY <1>6, <2>1, <2>3
    <3>2. a = from /\ b = to /\ w = weight
      BY <1>2, <3>1
    <3>3. CASE from = to
      <4>1. e[<<from, from>>] = 0
        BY <1>5, <1>8 DEF MetricOn
      <4>2. e[<<a, b>>] = 0
        BY <3>2, <3>3, <4>1
      <4> QED BY <1>2, <3>2, <4>2
    <3>4. CASE Distances(RemainingOf(out, low))[<<from, to>>] < weight
      <4>1. PICK R : R = RemainingOf(out, low)
        OBVIOUS
      <4>2. /\ R \in ArcSets /\ S \in SUBSET Nodes
            /\ \A x \in Nodes \ S : \A y \in Nodes : R[<<x, y>>] = {}
            /\ \A x \in S : \A y \in Nodes : R[<<x, y>>] = WeightsTo(out[x], y)
        <5>1. /\ RemainingOf(out, low) \in ArcSets
              /\ \A x \in Nodes \ Present(low) : \A y \in Nodes : RemainingOf(out, low)[<<x, y>>] = {}
              /\ \A x \in Present(low) : \A y \in Nodes : RemainingOf(out, low)[<<x, y>>] = WeightsTo(out[x], y)
          BY <1>2, RemainingFacts, SMTT(20)
        <5>2. S \in SUBSET Nodes
          BY <1>5
        <5> QED BY <1>3, <4>1, <5>1, <5>2, Zenon
      <4>3. Under(S, e, R)
        <5> SUFFICES ASSUME NEW x \in S, NEW y \in S, NEW v \in R[<<x, y>>] PROVE e[<<x, y>>] <= v
          BY DEF Under
        <5>1. v \in Q[<<x, y>>]
          BY <1>5, <1>6, <4>2
        <5> QED BY <1>8, <5>1 DEF Under
      <4>4. e[<<from, to>>] <= Distances(R)[<<from, to>>]
        BY <1>5, <1>8, <4>2, <4>3, MetricIsBelow
      <4>5. Distances(R)[<<from, to>>] \in Nat
        <5>1. MetricOn(Nodes, Distances(R))
          BY <4>2, DistancesAreSpanned DEF Spanned
        <5> QED BY <1>2, <5>1 DEF MetricOn
      <4>6. Distances(R)[<<from, to>>] < weight
        BY <3>4, <4>1, Zenon
      <4>7. e[<<from, to>>] \in Nat
        BY <1>5, <1>8 DEF MetricOn
      <4>8. e[<<from, to>>] <= weight
        BY <1>2, <4>4, <4>5, <4>6, <4>7
      <4> QED BY <3>2, <4>8, Zenon
    <3> QED BY <3>3, <3>4
  <2> QED BY <2>2, <2>3
<1>9. Spanned(S, Q, d)
  BY <1>5, <1>7, <1>8, SpannedByOthers
<1>10. Contracts(d, out, in, low, t)
  <2>1. Spanned(Present(low), Overlay(out, t), d)
    BY <1>3, <1>4, <1>9, Zenon
  <2>2. \A p \in ToSet(t) : p[1].node \in Present(low) /\ p[2].node \in Present(low)
    BY <1>2 DEF Contracts
  <2> QED BY <2>1, <2>2 DEF Contracts
<1>11. ListsOK(out, in, t)
  BY <1>2 DEF ListsOK
<1> QED BY <1>1, <1>10, <1>11, Zenon

(* One list is replaced.                                                   *)
IsReplaced(lists2, lists, x, list) ==
    /\ lists2 \in [Nodes -> Seq(Links)]
    /\ lists2[x] = list /\ \A y \in Nodes : y # x => lists2[y] = lists[y]

(* Links that get lighter at one end.                                      *)
LEMMA InsertKeeps ==
    ASSUME NEW lists, NEW low \in 0 .. N, LinksAreUp(lists, low), NEW x \in Present(low), NEW y \in Present(low), x # y,
           NEW weight, NEW r, IsInserted(r, lists[x], y, weight),
           NEW lists2, IsReplaced(lists2, lists, x, r.links), NEW e
    PROVE  LinksAreUp(lists2, low) /\ (UpIsOnWay(lists, e, low) => UpIsOnWay(lists2, e, low))
<1>1. \A a \in Nodes : a \in Nat /\ (a \in Present(low) <=> low <= a)
  BY NAssumption DEF Present, Nodes
<1>2. x \in Nodes /\ y \in Nodes
  BY NAssumption DEF Present, Nodes
<1>3. /\ lists2[x] = r.links /\ \A a \in Nodes : a # x => lists2[a] = lists[a]
      /\ lists2 \in [Nodes -> Seq(Links)]
  BY DEF IsReplaced
<1>4. \A z : z # y => Count(r.links, z) = Count(lists[x], z) /\ WeightsTo(r.links, z) = WeightsTo(lists[x], z)
  BY DEF IsInserted
<1>5. LinksAreUp(lists2, low)
  <2> SUFFICES ASSUME NEW a \in Nodes, NEW b, At(lists2[a], b) # {}
               PROVE  b # a /\ (a < low => a < b) /\ (low <= a => low <= b)
    BY DEF LinksAreUp
  <2>1. CASE a # x
    BY <1>3, <2>1 DEF LinksAreUp
  <2>2. CASE a = x /\ b = y
    BY <1>1, <1>2, <2>2
  <2>3. CASE a = x /\ b # y
    <3>1. At(r.links, b) # {}
      BY <1>3, <2>3
    <3>2. WeightsTo(r.links, b) # {}
      <4>1. r.links \in Seq(Links)
        BY DEF IsInserted
      <4>2. PICK i \in At(r.links, b) : TRUE
        BY <3>1
      <4> QED BY <4>1, WeightsFacts, ZenonT(30)
    <3>3. WeightsTo(lists[x], b) # {}
      BY <1>4, <2>3, <3>2
    <3>4. At(lists[x], b) # {}
      BY <3>3 DEF WeightsTo, At, ToSet
    <3> QED BY <1>2, <2>3, <3>4 DEF LinksAreUp
  <2> QED BY <2>1, <2>2, <2>3
<1>6. ASSUME UpIsOnWay(lists, e, low) PROVE UpIsOnWay(lists2, e, low)
  <2>1. \A a \in Nodes : a < low => lists2[a] = lists[a]
    BY <1>1, <1>2, <1>3
  <2> QED BY <1>6, <2>1 DEF UpIsOnWay
<1> QED BY <1>5, <1>6

(* Required shortcuts are not above the distances in the overlay.          *)
LEMMA ConnectKeeps ==
    ASSUME NEW d, NEW out, NEW in, NEW low \in 0 .. N, NEW prs, prs # <<>>, ListsOK(out, in, prs),
           Contracts(d, out, in, low, prs),
           NEW from, NEW to, NEW weight, IsFirst(prs, from, to, weight),
           from # to, ~ Distances(RemainingOf(out, low))[<<from, to>>] < weight,
           NEW o, IsInserted(o, out[from], to, weight), NEW i, IsInserted(i, in[to], from, weight),
           o.result = i.result,
           NEW out2, IsReplaced(out2, out, from, o.links), NEW in2, IsReplaced(in2, in, to, i.links)
    PROVE  ListsOK(out2, in2, Tail(prs)) /\ Contracts(d, out2, in2, low, Tail(prs))
<1>1. PICK t : t = Tail(prs)
  OBVIOUS
<1>2. /\ out \in [Nodes -> Seq(Links)] /\ prs \in Seq(Links \X Links) /\ t \in Seq(Links \X Links)
      /\ from \in Nodes /\ to \in Nodes /\ weight \in Nat
      /\ ToSet(t) \subseteq ToSet(prs) /\ Head(prs) \in ToSet(prs) /\ weight \in PairWeights(prs, from, to)
      /\ \A x, y : PairWeights(t, x, y) \subseteq PairWeights(prs, x, y)
      /\ \A x, y : \A w \in PairWeights(prs, x, y) : w \in PairWeights(t, x, y) \/ (x = from /\ y = to /\ w = weight)
  <2>1. out \in [Nodes -> Seq(Links)] /\ prs \in Seq(Links \X Links)
    BY DEF ListsOK
  <2> QED BY <1>1, <2>1, FirstPairFacts, Zenon
<1>3. PICK S : S = Present(low)
  OBVIOUS
<1>4. PICK P, Q : P = Overlay(out, prs) /\ Q = Overlay(out2, t)
  OBVIOUS
<1>5. /\ \A a \in S : a \in Nodes
      /\ from \in S /\ to \in S
      /\ Spanned(S, P, d)
  <2>1. \A a \in Present(low) : a \in Nodes
    BY NAssumption DEF Present, Nodes
  <2>2. \A p \in ToSet(prs) : p[1].node \in Present(low) /\ p[2].node \in Present(low)
    BY DEF Contracts
  <2>3. from \in Present(low) /\ to \in Present(low)
    BY <1>2, <2>2 DEF IsFirst
  <2>4. Spanned(Present(low), Overlay(out, prs), d)
    BY DEF Contracts
  <2> QED BY <1>3, <1>4, <2>1, <2>3, <2>4, Zenon
<1>6. out2 \in [Nodes -> Seq(Links)] /\ in2 \in [Nodes -> Seq(Links)]
  BY DEF IsReplaced
<1>7. \A a, b \in Nodes : /\ P[<<a, b>>] = WeightsTo(out[a], b) \cup PairWeights(prs, a, b)
                          /\ Q[<<a, b>>] = WeightsTo(out2[a], b) \cup PairWeights(t, a, b)
                          /\ P[<<a, b>>] \subseteq Nat /\ Q[<<a, b>>] \subseteq Nat
  <2>1. AreWeights(out, prs) /\ AreWeights(out2, t)
    BY <1>2, <1>6, OverlayFacts
  <2>2. \A a, b \in Nodes : /\ Overlay(out, prs)[<<a, b>>] = WeightsTo(out[a], b) \cup PairWeights(prs, a, b)
                            /\ Overlay(out2, t)[<<a, b>>] = WeightsTo(out2[a], b) \cup PairWeights(t, a, b)
                            /\ Overlay(out, prs)[<<a, b>>] \subseteq Nat /\ Overlay(out2, t)[<<a, b>>] \subseteq Nat
    BY <2>1 DEF AreWeights
  <2> QED BY <1>4, <2>2, Zenon
<1>8. /\ out2[from] = o.links /\ in2[to] = i.links
      /\ \A a \in Nodes : (a # from => out2[a] = out[a]) /\ (a # to => in2[a] = in[a])
  BY DEF IsReplaced
<1>9. /\ \A z : z # to => Count(o.links, z) = Count(out[from], z) /\ WeightsTo(o.links, z) = WeightsTo(out[from], z)
      /\ \E v \in WeightsTo(o.links, to) : v <= weight
      /\ \A w \in WeightsTo(out[from], to) : \E v \in WeightsTo(o.links, to) : v <= w
      /\ WeightsTo(o.links, to) \subseteq WeightsTo(out[from], to) \cup {weight}
  BY DEF IsInserted
<1>10. \A a, b \in Nodes : a # from \/ b # to => /\ Count(out2[a], b) = Count(out[a], b)
                                                 /\ WeightsTo(out2[a], b) = WeightsTo(out[a], b)
  <2> SUFFICES ASSUME NEW a \in Nodes, NEW b \in Nodes, a # from \/ b # to
               PROVE  Count(out2[a], b) = Count(out[a], b) /\ WeightsTo(out2[a], b) = WeightsTo(out[a], b)
    OBVIOUS
  <2>1. CASE a # from
    BY <1>8, <2>1
  <2>2. CASE a = from /\ b # to
    BY <1>8, <1>9, <2>2
  <2> QED BY <2>1, <2>2
<1>11. Under(S, d, Q)
  <2> SUFFICES ASSUME NEW a \in S, NEW b \in S, NEW w \in Q[<<a, b>>] PROVE d[<<a, b>>] <= w
    BY DEF Under
  <2>0. a \in Nodes /\ b \in Nodes
    BY <1>5
  <2>1. w \in P[<<a, b>>]
    <3>1. CASE w \in PairWeights(t, a, b)
      BY <1>2, <1>7, <2>0, <3>1
    <3>2. CASE w \in WeightsTo(out2[a], b) /\ (a # from \/ b # to)
      BY <1>7, <1>10, <2>0, <3>2
    <3>3. CASE w \in WeightsTo(out2[a], b) /\ a = from /\ b = to
      <4>1. w \in WeightsTo(out[from], to) \/ w = weight
        BY <1>8, <1>9, <3>3
      <4>2. w \in P[<<from, to>>]
        BY <1>2, <1>7, <4>1
      <4> QED BY <3>3, <4>2
    <3> QED BY <1>7, <2>0, <3>1, <3>2, <3>3
  <2> QED BY <1>5, <2>1 DEF Spanned, Under
<1>12. ASSUME NEW a \in S, NEW b \in S, NEW w \in P[<<a, b>>] PROVE \E v \in Q[<<a, b>>] : v <= w
  <2>0. a \in Nodes /\ b \in Nodes /\ w \in Nat
    BY <1>5, <1>7
  <2>1. CASE w \in Q[<<a, b>>]
    BY <2>0, <2>1
  <2>2. CASE w \notin Q[<<a, b>>]
    <3>1. w \notin PairWeights(t, a, b) /\ w \notin WeightsTo(out2[a], b)
      BY <1>7, <2>0, <2>2
    <3>2. w \in PairWeights(prs, a, b) \/ w \in WeightsTo(out[a], b)
      BY <1>7, <2>0
    <3>3. a = from /\ b = to /\ (w = weight \/ w \in WeightsTo(out[from], to))
      BY <1>2, <1>10, <2>0, <3>1, <3>2
    <3>4. PICK v \in WeightsTo(o.links, to) : v <= w
      BY <1>9, <3>3
    <3>5. v \in Q[<<from, to>>]
      BY <1>2, <1>7, <1>8
    <3> QED BY <3>3, <3>4, <3>5
  <2> QED BY <2>1, <2>2
<1>13. ASSUME NEW e, MetricOn(S, e), Under(S, e, Q) PROVE Under(S, e, P)
  <2> SUFFICES ASSUME NEW a \in S, NEW b \in S, NEW w \in P[<<a, b>>] PROVE e[<<a, b>>] <= w
    BY DEF Under
  <2>1. PICK v \in Q[<<a, b>>] : v <= w
    BY <1>12
  <2>2. e[<<a, b>>] <= v
    BY <1>13 DEF Under
  <2>3. v \in Nat /\ w \in Nat /\ e[<<a, b>>] \in Nat
    BY <1>5, <1>7, <1>13 DEF MetricOn
  <2> QED BY <2>1, <2>2, <2>3
<1>14. Spanned(S, Q, d)
  BY <1>5, <1>11, <1>13, SpannedByOthers
<1>15. from \in Present(low) /\ to \in Present(low) /\ \A a \in Present(low) : a \in Nodes
  BY <1>3, <1>5, Zenon
<1>16. LinksAreUp(out2, low) /\ LinksAreUp(in2, low) /\ UpIsOnWay(out2, d, low) /\ UpIsOnWay(in2, Flip(d), low)
  <2>1. LinksAreUp(out, low) /\ LinksAreUp(in, low) /\ UpIsOnWay(out, d, low) /\ UpIsOnWay(in, Flip(d), low)
    BY DEF Contracts
  <2>2. LinksAreUp(out2, low) /\ UpIsOnWay(out2, d, low)
    BY <1>15, <2>1, InsertKeeps, Zenon
  <2>3. LinksAreUp(in2, low) /\ UpIsOnWay(in2, Flip(d), low)
    BY <1>15, <2>1, InsertKeeps, Zenon
  <2> QED BY <2>2, <2>3
<1>17. EndsAgree(out2, in2, low)
  <2> SUFFICES ASSUME NEW x \in Present(low), NEW y \in Present(low)
               PROVE  /\ Count(out2[x], y) = Count(in2[y], x)
                      /\ \A w \in WeightsTo(out2[x], y) : \E v \in WeightsTo(in2[y], x) : v <= w
                      /\ \A v \in WeightsTo(in2[y], x) : \E w \in WeightsTo(out2[x], y) : w <= v
    BY DEF EndsAgree
  <2>0. x \in Nodes /\ y \in Nodes
    BY <1>15
  <2>1. /\ Count(out[x], y) = Count(in[y], x)
        /\ \A w \in WeightsTo(out[x], y) : \E v \in WeightsTo(in[y], x) : v <= w
        /\ \A v \in WeightsTo(in[y], x) : \E w \in WeightsTo(out[x], y) : w <= v
    BY DEF Contracts, EndsAgree
  <2>2. CASE x # from \/ y # to
    <3>1. Count(out2[x], y) = Count(out[x], y) /\ WeightsTo(out2[x], y) = WeightsTo(out[x], y)
      BY <1>10, <2>0, <2>2
    <3>2. Count(in2[y], x) = Count(in[y], x) /\ WeightsTo(in2[y], x) = WeightsTo(in[y], x)
      <4>1. CASE y # to
        BY <1>8, <2>0, <4>1
      <4>2. CASE y = to /\ x # from
        <5>1. \A z : z # from => Count(i.links, z) = Count(in[to], z) /\ WeightsTo(i.links, z) = WeightsTo(in[to], z)
          BY DEF IsInserted
        <5> QED BY <1>8, <4>2, <5>1
      <4> QED BY <2>2, <4>1, <4>2
    <3> QED BY <2>1, <3>1, <3>2
  <2>3. CASE x = from /\ y = to
    <3>1. /\ Count(o.links, to) = (IF At(out[from], to) = {} THEN 1 ELSE Count(out[from], to))
          /\ Count(i.links, from) = (IF At(in[to], from) = {} THEN 1 ELSE Count(in[to], from))
          /\ o.result = "new" <=> At(out[from], to) = {}
          /\ i.result = "new" <=> At(in[to], from) = {}
      BY DEF IsInserted
    <3>2. Count(out[from], to) = Count(in[to], from)
      BY <2>1, <2>3
    <3>3. Count(o.links, to) = Count(i.links, from)
      BY <3>1, <3>2
    <3>4. \A w \in WeightsTo(out[from], to) : w \in Nat /\ weight <= w
      <4>1. PICK R : R = RemainingOf(out, low)
        OBVIOUS
      <4>2. R \in ArcSets /\ R[<<from, to>>] = WeightsTo(out[from], to)
        <5>1. /\ RemainingOf(out, low) \in ArcSets
              /\ \A a \in Present(low) : \A b \in Nodes : RemainingOf(out, low)[<<a, b>>] = WeightsTo(out[a], b)
          BY <1>2, RemainingFacts
        <5>2. RemainingOf(out, low)[<<from, to>>] = WeightsTo(out[from], to)
          BY <1>15, <5>1
        <5> QED BY <4>1, <5>1, <5>2, Zenon
      <4>3. /\ \A w \in R[<<from, to>>] : Distances(R)[<<from, to>>] <= w
            /\ Distances(R)[<<from, to>>] \in Nat
        BY <1>2, <4>2, DistancesAreSpanned DEF Spanned, Under, MetricOn
      <4>4. ~ Distances(R)[<<from, to>>] < weight
        BY <4>1, Zenon
      <4>5. WeightsTo(out[from], to) \subseteq Nat
        BY <1>2, <1>7
      <4>6. ASSUME NEW w \in WeightsTo(out[from], to) PROVE w \in Nat /\ weight <= w
        <5>1. w \in Nat
          BY <4>5
        <5>2. w \in R[<<from, to>>]
          BY <4>2
        <5>3. Distances(R)[<<from, to>>] <= w
          BY <4>3, <5>2
        <5> QED BY <1>2, <4>3, <4>4, <5>1, <5>3
      <4> QED BY <4>6
    <3>5. \A v \in WeightsTo(in[to], from) : v \in Nat /\ weight <= v
      <4> SUFFICES ASSUME NEW v \in WeightsTo(in[to], from) PROVE v \in Nat /\ weight <= v
        OBVIOUS
      <4>1. PICK w \in WeightsTo(out[from], to) : w <= v
        BY <2>1, <2>3
      <4>2. v \in Nat
        <5>1. in[to] \in Seq(Links)
          BY <1>2 DEF ListsOK
        <5> QED BY <5>1, WeightsFacts, InfAssumption DEF Weight
      <4> QED BY <1>2, <3>4, <4>1, <4>2
    <3>6. /\ \A w \in WeightsTo(o.links, to) : w \in Nat /\ weight <= w
          /\ \A v \in WeightsTo(i.links, from) : v \in Nat /\ weight <= v
      <4>1. WeightsTo(i.links, from) \subseteq WeightsTo(in[to], from) \cup {weight}
        BY DEF IsInserted
      <4> QED BY <1>2, <1>9, <3>4, <3>5, <4>1
    <3>7. PICK v \in WeightsTo(o.links, to), u \in WeightsTo(i.links, from) : v <= weight /\ u <= weight
      BY DEF IsInserted
    <3>8. v = weight /\ u = weight
      BY <1>2, <3>6, <3>7
    <3>9. /\ \A w \in WeightsTo(o.links, to) : \E z \in WeightsTo(i.links, from) : z <= w
          /\ \A w \in WeightsTo(i.links, from) : \E z \in WeightsTo(o.links, to) : z <= w
      BY <3>6, <3>8
    <3> QED BY <1>8, <2>3, <3>3, <3>9
  <2> QED BY <2>2, <2>3
<1>18. Contracts(d, out2, in2, low, t)
  <2>1. Spanned(Present(low), Overlay(out2, t), d)
    BY <1>3, <1>4, <1>14, Zenon
  <2>2. \A p \in ToSet(t) : p[1].node \in Present(low) /\ p[2].node \in Present(low)
    BY <1>2 DEF Contracts
  <2> QED BY <1>16, <1>17, <2>1, <2>2 DEF Contracts
<1>19. ListsOK(out2, in2, t)
  BY <1>2, <1>6 DEF ListsOK
<1> QED BY <1>1, <1>18, <1>19, Zenon

(* Without parallel arcs there is at most one link to each node, and both  *)
(* ends know the same.                                                     *)
Once(out, in, low) ==
    \A x, y \in Present(low) : Count(out[x], y) <= 1 /\ WeightsTo(out[x], y) = WeightsTo(in[y], x)

(* What the assertion in insert_or_decrease compares.                      *)
SameResult(o, i) == o.result = i.result

(* With at most one link between any two nodes, a shortcut has the same    *)
(* result at both of its ends.                                             *)
LEMMA ConnectOnce ==
    ASSUME NEW out, NEW in, NEW low \in 0 .. N, Once(out, in, low), EndsAgree(out, in, low), NEW prs, ListsOK(out, in, prs),
           NEW from \in Present(low), NEW to \in Present(low), NEW weight,
           NEW o, IsInserted(o, out[from], to, weight), NEW i, IsInserted(i, in[to], from, weight),
           NEW out2, IsReplaced(out2, out, from, o.links), NEW in2, IsReplaced(in2, in, to, i.links)
    PROVE  SameResult(o, i) /\ Once(out2, in2, low)
<1>0. \A x \in Present(low) : x \in Nodes
  BY NAssumption DEF Present, Nodes
<1>1. o.result = i.result
  <2>1. PICK p, q : p = out[from] /\ q = in[to]
    OBVIOUS
  <2>2. /\ p \in Seq(Links) /\ q \in Seq(Links)
        /\ Count(p, to) = Count(q, from) /\ Count(p, to) <= 1 /\ WeightsTo(p, to) = WeightsTo(q, from)
    <3>1. out[from] \in Seq(Links) /\ in[to] \in Seq(Links)
      BY <1>0 DEF ListsOK
    <3>2. Count(out[from], to) = Count(in[to], from) /\ Count(out[from], to) <= 1 /\ WeightsTo(out[from], to) = WeightsTo(in[to], from)
      BY DEF Once, EndsAgree
    <3> QED BY <2>1, <3>1, <3>2, Zenon
  <2>3. IsInserted(o, p, to, weight) /\ IsInserted(i, q, from, weight)
    BY <2>1, Zenon
  <2>4. At(p, to) = {} <=> At(q, from) = {}
    BY <2>2, CountFacts
  <2>5. /\ o.result \in {"new", "shortened", "shorter"} /\ i.result \in {"new", "shortened", "shorter"}
        /\ (o.result = "new" <=> At(p, to) = {}) /\ (i.result = "new" <=> At(q, from) = {})
        /\ (o.result = "shorter" <=> \E v \in WeightsTo(p, to) : ~weight < v)
        /\ (i.result = "shorter" <=> \E v \in WeightsTo(q, from) : ~weight < v)
    <3>1. Count(p, to) <= 1 /\ Count(q, from) <= 1
      BY <2>2
    <3> QED BY <2>3, <3>1 DEF IsInserted
  <2>6. o.result = "shorter" <=> i.result = "shorter"
    BY <2>2, <2>5
  <2> QED BY <2>4, <2>5, <2>6
<1> SUFFICES ASSUME NEW x \in Present(low), NEW y \in Present(low)
             PROVE  Count(out2[x], y) <= 1 /\ WeightsTo(out2[x], y) = WeightsTo(in2[y], x)
  BY <1>1 DEF Once, SameResult
<1>2. /\ x \in Nodes /\ y \in Nodes /\ from \in Nodes /\ to \in Nodes
      /\ Count(out[x], y) <= 1 /\ WeightsTo(out[x], y) = WeightsTo(in[y], x)
      /\ Count(out[from], to) <= 1 /\ WeightsTo(out[from], to) = WeightsTo(in[to], from)
      /\ Count(in[to], from) = Count(out[from], to)
  BY <1>0 DEF Once, EndsAgree
<1>3. /\ out2[from] = o.links /\ in2[to] = i.links
      /\ \A a \in Nodes : (a # from => out2[a] = out[a]) /\ (a # to => in2[a] = in[a])
  BY DEF IsReplaced
<1>4. CASE x # from \/ y # to
  <2>1. Count(out2[x], y) = Count(out[x], y) /\ WeightsTo(out2[x], y) = WeightsTo(out[x], y)
    <3>1. CASE x # from
      BY <1>2, <1>3, <3>1
    <3>2. CASE x = from /\ y # to
      <4>1. \A z : z # to => Count(o.links, z) = Count(out[from], z) /\ WeightsTo(o.links, z) = WeightsTo(out[from], z)
        BY DEF IsInserted
      <4> QED BY <1>3, <3>2, <4>1
    <3> QED BY <1>4, <3>1, <3>2
  <2>2. WeightsTo(in2[y], x) = WeightsTo(in[y], x)
    <3>1. CASE y # to
      BY <1>2, <1>3, <3>1
    <3>2. CASE y = to /\ x # from
      <4>1. \A z : z # from => WeightsTo(i.links, z) = WeightsTo(in[to], z)
        BY DEF IsInserted
      <4> QED BY <1>3, <3>2, <4>1
    <3> QED BY <1>4, <3>1, <3>2
  <2> QED BY <1>2, <2>1, <2>2
<1>5. CASE x = from /\ y = to
  <2>1. Count(o.links, to) <= 1
    <3>1. Count(o.links, to) = (IF At(out[from], to) = {} THEN 1 ELSE Count(out[from], to))
      BY DEF IsInserted
    <3> QED BY <1>2, <3>1
  <2>2. WeightsTo(o.links, to) = WeightsTo(i.links, from)
    <3>1. CASE o.result = "shorter"
      <4>1. o.links = out[from] /\ i.links = in[to]
        BY <1>1, <3>1 DEF IsInserted
      <4> QED BY <1>2, <4>1
    <3>2. CASE o.result # "shorter"
      <4>1. WeightsTo(o.links, to) = {weight}
        BY <1>2, <3>2 DEF IsInserted
      <4>2. Count(in[to], from) <= 1
        BY <1>2
      <4>3. WeightsTo(i.links, from) = {weight}
        BY <1>1, <3>2, <4>2 DEF IsInserted
      <4> QED BY <4>1, <4>3
    <3> QED BY <3>1, <3>2
  <2> QED BY <1>3, <1>5, <2>1, <2>2
<1> QED BY <1>4, <1>5

-----------------------------------------------------------------------------
(* Contraction keeps distances: from the network on                        *)

(* Lists with the arcs of the network, but for loops.                      *)
AreLinks(out, m) ==
    /\ out \in [Nodes -> Seq(Links)]
    /\ \A x, y \in Nodes : x # y => Count(out[x], y) = Cardinality(m[<<x, y>>]) /\ WeightsTo(out[x], y) = m[<<x, y>>]
    /\ \A x \in Nodes : Count(out[x], x) = 0 /\ WeightsTo(out[x], x) = {} /\ \A y : At(out[x], y) # {} => y \in Nodes /\ y # x

(* The first lists have the weights of the arcs.                           *)
LEMMA LinksOfNetwork ==
    ASSUME NEW m \in Metric
    PROVE  AreLinks([x \in Nodes |-> LinksTo(x, [y \in Nodes |-> m[<<x, y>>]])], m)
<1> SUFFICES ASSUME NEW out, out = [x \in Nodes |-> LinksTo(x, [y \in Nodes |-> m[<<x, y>>]])] PROVE AreLinks(out, m)
  OBVIOUS
<1>1. ASSUME NEW x \in Nodes
      PROVE  /\ out[x] \in Seq(Links)
             /\ \A y \in Nodes : y # x => Count(out[x], y) = Cardinality(m[<<x, y>>]) /\ WeightsTo(out[x], y) = m[<<x, y>>]
             /\ Count(out[x], x) = 0
  <2>1. PICK ws : ws = [y \in Nodes |-> m[<<x, y>>]]
    OBVIOUS
  <2>2. ws \in [Nodes -> SUBSET Weight] /\ \A y \in Nodes : ws[y] = m[<<x, y>>]
    BY <2>1 DEF Metric
  <2>3. out[x] = LinksTo(x, ws)
    BY <2>1
  <2>4. /\ LinksTo(x, ws) \in Seq(Links)
        /\ \A y \in Nodes : y # x => Count(LinksTo(x, ws), y) = Cardinality(ws[y]) /\ WeightsTo(LinksTo(x, ws), y) = ws[y]
        /\ Count(LinksTo(x, ws), x) = 0
    BY <2>2, LinksToFacts
  <2> QED BY <2>2, <2>3, <2>4
<1>2. out \in [Nodes -> Seq(Links)]
  BY <1>1
<1>3. ASSUME NEW x \in Nodes, NEW y, At(out[x], y) # {} PROVE y \in Nodes /\ y # x
  <2>1. PICK i \in 1 .. Len(out[x]) : out[x][i].node = y
    BY <1>3 DEF At
  <2>2. out[x][i] \in Links
    BY <1>1, <2>1
  <2>3. Count(out[x], x) = 0 /\ out[x] \in Seq(Links)
    BY <1>1
  <2>4. At(out[x], x) = {}
    BY <2>3, CountFacts
  <2> QED BY <1>3, <2>1, <2>2, <2>4 DEF Links
<1>4. \A x \in Nodes : WeightsTo(out[x], x) = {}
  BY <1>1, CountFacts
<1> QED BY <1>1, <1>2, <1>3, <1>4 DEF AreLinks

(* The arcs of the reversed graph.                                         *)
Opposite(m) == [a \in Nodes \X Nodes |-> m[<<a[2], a[1]>>]]

(* Before anything is contracted, the overlay is the network.              *)
LEMMA NetworkIsContracted ==
    ASSUME NEW m \in Metric,
           NEW out, AreLinks(out, m), NEW in, AreLinks(in, Opposite(m))
    PROVE  /\ ListsOK(out, in, <<>>) /\ Contracts(Distances(m), out, in, 0, <<>>)
           /\ (\A x, y \in Nodes : x # y => Cardinality(m[<<x, y>>]) <= 1) => Once(out, in, 0)
<1>2. \A x, y \in Nodes : Opposite(m)[<<x, y>>] = m[<<y, x>>]
  BY DEF Opposite
<1>3. /\ out \in [Nodes -> Seq(Links)]
      /\ \A x, y \in Nodes : x # y => Count(out[x], y) = Cardinality(m[<<x, y>>]) /\ WeightsTo(out[x], y) = m[<<x, y>>]
      /\ \A x \in Nodes : Count(out[x], x) = 0 /\ WeightsTo(out[x], x) = {} /\ \A y : At(out[x], y) # {} => y \in Nodes /\ y # x
  BY DEF AreLinks
<1>4. /\ in \in [Nodes -> Seq(Links)]
      /\ \A x, y \in Nodes : x # y => Count(in[x], y) = Cardinality(m[<<y, x>>]) /\ WeightsTo(in[x], y) = m[<<y, x>>]
      /\ \A x \in Nodes : Count(in[x], x) = 0 /\ WeightsTo(in[x], x) = {} /\ \A y : At(in[x], y) # {} => y \in Nodes /\ y # x
  <2>1. /\ in \in [Nodes -> Seq(Links)]
        /\ \A x, y \in Nodes : x # y => Count(in[x], y) = Cardinality(Opposite(m)[<<x, y>>]) /\ WeightsTo(in[x], y) = Opposite(m)[<<x, y>>]
        /\ \A x \in Nodes : Count(in[x], x) = 0 /\ WeightsTo(in[x], x) = {} /\ \A y : At(in[x], y) # {} => y \in Nodes /\ y # x
    BY DEF AreLinks
  <2> QED BY <1>2, <2>1
<1>5. /\ Present(0) = Nodes /\ \A x \in Nodes : x \in Nat /\ ~ x < 0 /\ 0 <= x
      /\ <<>> \in Seq(Links \X Links) /\ ToSet(<<>>) = {}
  <2>1. Present(0) = Nodes
    BY NAssumption DEF Present, Nodes
  <2>2. \A x \in Nodes : x \in Nat /\ ~ x < 0 /\ 0 <= x
    BY NAssumption DEF Nodes
  <2>3. <<>> \in Seq(Links \X Links) /\ ToSet(<<>>) = {}
    BY DEF ToSet
  <2> QED BY <2>1, <2>2, <2>3
<1>6. ListsOK(out, in, <<>>)
  BY <1>3, <1>4, <1>5 DEF ListsOK
<1>7. LinksAreUp(out, 0) /\ LinksAreUp(in, 0)
  BY <1>3, <1>4, <1>5 DEF LinksAreUp
<1>8. ASSUME NEW x \in Nodes, NEW y \in Nodes
      PROVE  WeightsTo(out[x], y) = WeightsTo(in[y], x) /\ Count(out[x], y) = Count(in[y], x)
  <2>1. CASE x = y
    <3>1. WeightsTo(out[x], x) = WeightsTo(in[x], x) /\ Count(out[x], x) = Count(in[x], x)
      BY <1>3, <1>4
    <3> QED BY <2>1, <3>1, Zenon
  <2>2. CASE x # y
    <3>1. Count(out[x], y) = Cardinality(m[<<x, y>>]) /\ WeightsTo(out[x], y) = m[<<x, y>>]
      BY <1>3, <2>2
    <3>2. Count(in[y], x) = Cardinality(m[<<x, y>>]) /\ WeightsTo(in[y], x) = m[<<x, y>>]
      BY <1>4, <2>2
    <3> QED BY <3>1, <3>2
  <2> QED BY <2>1, <2>2
<1>9. EndsAgree(out, in, 0)
  <2>1. \A x, y \in Nodes : WeightsTo(out[x], y) \subseteq Nat
    BY <1>3, WeightsFacts, InfAssumption DEF Weight
  <2>2. \A x, y \in Nodes : \A w \in WeightsTo(out[x], y) : w <= w
    BY <2>1
  <2>3. ASSUME NEW x \in Nodes, NEW y \in Nodes
        PROVE  /\ Count(out[x], y) = Count(in[y], x)
               /\ \A w \in WeightsTo(out[x], y) : \E v \in WeightsTo(in[y], x) : v <= w
               /\ \A v \in WeightsTo(in[y], x) : \E w \in WeightsTo(out[x], y) : w <= v
    BY <1>8, <2>2
  <2> QED BY <1>5, <2>3 DEF EndsAgree
<1>10. UpIsOnWay(out, Distances(m), 0) /\ UpIsOnWay(in, Flip(Distances(m)), 0)
  BY <1>5 DEF UpIsOnWay
<1>11. PICK P : P = Overlay(out, <<>>)
  OBVIOUS
<1>12. \A x, y \in Nodes : P[<<x, y>>] = WeightsTo(out[x], y)
  <2>1. AreWeights(out, <<>>)
    BY <1>3, <1>5, OverlayFacts
  <2>2. \A x, y \in Nodes : Overlay(out, <<>>)[<<x, y>>] = WeightsTo(out[x], y) \cup PairWeights(<<>>, x, y)
    BY <2>1 DEF AreWeights
  <2>3. \A x, y \in Nodes : PairWeights(<<>>, x, y) = {}
    BY <1>5 DEF PairWeights
  <2>4. ASSUME NEW x \in Nodes, NEW y \in Nodes PROVE Overlay(out, <<>>)[<<x, y>>] = WeightsTo(out[x], y)
    <3>1. Overlay(out, <<>>)[<<x, y>>] = WeightsTo(out[x], y) \cup PairWeights(<<>>, x, y)
      BY <2>2
    <3>2. PairWeights(<<>>, x, y) = {}
      BY <2>3
    <3>3. \A A, B, C : A = B \cup C /\ C = {} => A = B
      OBVIOUS
    <3> QED BY <3>1, <3>2, <3>3, Zenon
  <2> QED BY <1>11, <2>4, Zenon
<1>13. PICK d : d = Distances(m)
  OBVIOUS
<1>14. Spanned(Nodes, m, d)
  <2>1. m \in ArcSets
    BY DEF Metric, ArcSets, Weight
  <2> QED BY <1>13, <2>1, DistancesAreSpanned, Zenon
<1>15. Under(Nodes, d, P)
  <2>1. ASSUME NEW x \in Nodes, NEW y \in Nodes, NEW w \in P[<<x, y>>] PROVE w \in m[<<x, y>>]
    <3>1. w \in WeightsTo(out[x], y)
      BY <1>12
    <3>2. x # y
      BY <1>3, <3>1
    <3> QED BY <1>3, <3>1, <3>2
  <2> QED BY <1>14, <2>1 DEF Spanned, Under
<1>16. ASSUME NEW e, MetricOn(Nodes, e), Under(Nodes, e, P) PROVE Under(Nodes, e, m)
  <2> SUFFICES ASSUME NEW x \in Nodes, NEW y \in Nodes, NEW w \in m[<<x, y>>] PROVE e[<<x, y>>] <= w
    BY DEF Under
  <2>1. CASE x = y
    <3>1. e[<<x, y>>] = 0
      BY <1>16, <2>1 DEF MetricOn
    <3>2. w \in Nat
      BY InfAssumption DEF Metric, Weight
    <3> QED BY <3>1, <3>2
  <2>2. CASE x # y
    <3>1. w \in P[<<x, y>>]
      BY <1>3, <1>12, <2>2
    <3> QED BY <1>16, <3>1 DEF Under
  <2> QED BY <2>1, <2>2
<1>17. Spanned(Nodes, P, d)
  BY <1>14, <1>15, <1>16, SpannedByOthers
<1>18. Spanned(Present(0), Overlay(out, <<>>), Distances(m))
  BY <1>5, <1>11, <1>13, <1>17, Zenon
<1>19. Contracts(Distances(m), out, in, 0, <<>>)
  BY <1>5, <1>7, <1>9, <1>10, <1>18 DEF Contracts
<1>20. ASSUME \A x, y \in Nodes : x # y => Cardinality(m[<<x, y>>]) <= 1 PROVE Once(out, in, 0)
  <2>1. \A x, y \in Nodes : Count(out[x], y) <= 1
    <3> SUFFICES ASSUME NEW x \in Nodes, NEW y \in Nodes PROVE Count(out[x], y) <= 1
      OBVIOUS
    <3>1. CASE x = y
      BY <1>3, <3>1
    <3>2. CASE x # y
      BY <1>3, <1>20, <3>2
    <3> QED BY <3>1, <3>2
  <2> QED BY <1>5, <1>8, <2>1 DEF Once
<1> QED BY <1>6, <1>19, <1>20

(* ParallelArcs, of any weights.                                           *)
ParallelIn(m) == \E a \in Nodes \X Nodes : a[1] # a[2] /\ Cardinality(m[a]) > 1

(* The inductive invariant of contraction: unless the assertion failed,    *)
(* which takes parallel arcs, the overlay keeps the distances.             *)
ContractionOK(m, d, out, in, low, prs, pan) ==
    /\ m \in Metrics /\ d = Distances(m) /\ low \in 0 .. N /\ pan \in BOOLEAN
    /\ pan => ParallelIn(m)
    /\ ~pan => /\ ListsOK(out, in, prs) /\ Contracts(d, out, in, low, prs)
               /\ ParallelIn(m) \/ Once(out, in, low)

(* The same, of the variables.                                             *)
ContractionInv == ContractionOK(network.arcs, network.dist, outgoing, incoming, lowest, pairs, panicked)

(* No second link comes in when a node is removed.                         *)
LEMMA OnceRemoved ==
    ASSUME NEW out, NEW in, NEW low \in 0 .. N - 1, Once(out, in, low), NEW out2, NEW in2,
           SameLinks(out2, in2, out, in, low + 1)
    PROVE  Once(out2, in2, low + 1)
<1>1. Present(low + 1) \subseteq Present(low)
  BY NAssumption DEF Present
<1> QED BY <1>1 DEF Once, SameLinks

(* Removing a node keeps the distances between the others: the pairs stand *)
(* for the ways over it.                                                   *)
LEMMA RemoveStep ==
    ASSUME NEW m, NEW d, NEW out, NEW in, NEW low \in 0 .. N - 1, ContractionOK(m, d, out, in, low, <<>>, FALSE)
    PROVE  ContractionOK(m, d, Dropped(out, in[low], low), Dropped(in, out[low], low), low + 1,
                         PairsOf(in[low], out[low]), FALSE)
<1>1. PICK out2, in2, prs : /\ out2 = Dropped(out, in[low], low) /\ in2 = Dropped(in, out[low], low)
                            /\ prs = PairsOf(in[low], out[low])
  OBVIOUS
<1>2. /\ ListsOK(out, in, <<>>) /\ Contracts(d, out, in, low, <<>>)
      /\ ParallelIn(m) \/ Once(out, in, low)
      /\ m \in Metrics /\ d = Distances(m)
  BY DEF ContractionOK
<1>3. /\ IsDropped(Dropped(out, in[low], low), out, in[low], low)
      /\ IsDropped(Dropped(in, out[low], low), in, out[low], low)
      /\ ArePairs(PairsOf(in[low], out[low]), in[low], out[low])
  BY <1>2, DropIsOK, Zenon
<1>4. IsDropped(out2, out, in[low], low) /\ IsDropped(in2, in, out[low], low) /\ ArePairs(prs, in[low], out[low])
  BY <1>1, <1>3, Zenon
<1>5. /\ ListsOK(out2, in2, prs) /\ Contracts(d, out2, in2, low + 1, prs)
      /\ SameLinks(out2, in2, out, in, low + 1)
  BY <1>2, <1>4, RemoveKeeps, Zenon
<1>6. Once(out, in, low) => Once(out2, in2, low + 1)
  BY <1>5, OnceRemoved, Zenon
<1>7. low + 1 \in 0 .. N
  BY NAssumption
<1>8. ContractionOK(m, d, out2, in2, low + 1, prs, FALSE)
  BY <1>2, <1>5, <1>6, <1>7 DEF ContractionOK
<1> QED BY <1>1, <1>8, Zenon

(* A pair is dropped if the remaining arcs have a shorter way, which the   *)
(* witness search found.                                                   *)
LEMMA SkipStep ==
    ASSUME NEW m, NEW d, NEW out, NEW in, NEW low, NEW prs, prs # <<>>,
           ContractionOK(m, d, out, in, low, prs, FALSE),
           NEW from, NEW to, NEW weight, IsFirst(prs, from, to, weight),
           from = to \/ Distances(RemainingOf(out, low))[<<from, to>>] < weight
    PROVE  ContractionOK(m, d, out, in, low, Tail(prs), FALSE)
<1>1. PICK t : t = Tail(prs)
  OBVIOUS
<1>2. /\ ListsOK(out, in, prs) /\ Contracts(d, out, in, low, prs) /\ low \in 0 .. N
      /\ ParallelIn(m) \/ Once(out, in, low)
      /\ m \in Metrics /\ d = Distances(m)
  BY DEF ContractionOK
<1>3. ListsOK(out, in, Tail(prs)) /\ Contracts(d, out, in, low, Tail(prs))
  BY <1>2, SkipKeeps, Zenon
<1>4. ListsOK(out, in, t) /\ Contracts(d, out, in, low, t)
  BY <1>1, <1>3, Zenon
<1>5. ContractionOK(m, d, out, in, low, t, FALSE)
  BY <1>2, <1>4 DEF ContractionOK
<1> QED BY <1>1, <1>5, Zenon

(* A shortcut is inserted at both ends.                                    *)
AreConnected(out2, in2, pan, out, in, low, from, to, weight) ==
    LET o == InsertOrDecrease(out[from], to, weight, low - 1)
        i == InsertOrDecrease(in[to], from, weight, low - 1)
    IN  /\ out2 = [out EXCEPT ![from] = o.links]
        /\ in2 = [in EXCEPT ![to] = i.links]
        /\ pan = (o.result # i.result)

(* What a shortcut replaces at its two ends.                               *)
ShortcutBetween(o, i, out2, in2, pan, out, in, low, from, to, weight) ==
    /\ IsInserted(o, out[from], to, weight) /\ IsInserted(i, in[to], from, weight)
    /\ IsReplaced(out2, out, from, o.links) /\ IsReplaced(in2, in, to, i.links)
    /\ pan = (o.result # i.result)

(* What ConnectPair does to the lists.                                     *)
LEMMA ConnectedFacts ==
    ASSUME NEW m, NEW d, NEW out, NEW in, NEW low, NEW prs, prs # <<>>,
           ContractionOK(m, d, out, in, low, prs, FALSE),
           NEW from, NEW to, NEW weight, IsFirst(prs, from, to, weight),
           ~ Distances(RemainingOf(out, low))[<<from, to>>] < weight,
           NEW out2, NEW in2, NEW pan, AreConnected(out2, in2, pan, out, in, low, from, to, weight)
    PROVE  /\ from \in Present(low) /\ to \in Present(low) /\ from \in Nodes /\ to \in Nodes
           /\ Head(prs) \in ToSet(prs) /\ ToSet(Tail(prs)) \subseteq ToSet(prs)
           /\ \E o, i : ShortcutBetween(o, i, out2, in2, pan, out, in, low, from, to, weight)
<1>2. PICK o, i : o = InsertOrDecrease(out[from], to, weight, low - 1) /\ i = InsertOrDecrease(in[to], from, weight, low - 1)
  OBVIOUS
<1>3. /\ ListsOK(out, in, prs) /\ Contracts(d, out, in, low, prs) /\ low \in 0 .. N
      /\ ParallelIn(m) \/ Once(out, in, low)
      /\ m \in Metrics /\ d = Distances(m)
  BY DEF ContractionOK
<1>4. /\ out \in [Nodes -> Seq(Links)] /\ in \in [Nodes -> Seq(Links)] /\ prs \in Seq(Links \X Links)
  BY <1>3 DEF ListsOK
<1>5. /\ from \in Nodes /\ to \in Nodes /\ weight \in Nat /\ Head(prs) \in ToSet(prs)
      /\ ToSet(Tail(prs)) \subseteq ToSet(prs)
  BY <1>4, FirstPairFacts, Zenon
<1>6. from \in Present(low) /\ to \in Present(low) /\ EndsAgree(out, in, low) /\ \A x \in Present(low) : x \in Nodes
  <2>1. \A x \in Present(low) : x \in Nodes
    BY <1>3, NAssumption DEF Present, Nodes
  <2>2. /\ \A p \in ToSet(prs) : p[1].node \in Present(low) /\ p[2].node \in Present(low)
        /\ EndsAgree(out, in, low)
    BY <1>3 DEF Contracts
  <2>3. from \in Present(low) /\ to \in Present(low)
    BY <1>5, <2>2, Zenon DEF IsFirst
  <2> QED BY <2>1, <2>2, <2>3
<1>7. weight \in Weight
  <2>1. PICK R : R = RemainingOf(out, low)
    OBVIOUS
  <2>2. R \in ArcSets
    BY <1>3, <1>4, <2>1, RemainingFacts, Zenon
  <2>3. Distances(R)[<<from, to>>] \in Nat /\ Distances(R)[<<from, to>>] <= Inf
    BY <1>5, <2>2, DistancesAreSpanned DEF Spanned, MetricOn
  <2>4. ~ Distances(R)[<<from, to>>] < weight
    BY <2>1, Zenon
  <2> QED BY <1>5, <2>3, <2>4, InfAssumption DEF Weight
<1>8. IsInserted(o, out[from], to, weight) /\ IsInserted(i, in[to], from, weight)
  <2>1. out[from] \in Seq(Links) /\ in[to] \in Seq(Links) /\ low - 1 \in Int
    BY <1>3, <1>4, <1>5
  <2>2. /\ IsInserted(InsertOrDecrease(out[from], to, weight, low - 1), out[from], to, weight)
        /\ IsInserted(InsertOrDecrease(in[to], from, weight, low - 1), in[to], from, weight)
    BY <1>5, <1>7, <2>1, InsertFacts, Zenon
  <2> QED BY <1>2, <2>2, Zenon
<1>9. out2 = [out EXCEPT ![from] = o.links] /\ in2 = [in EXCEPT ![to] = i.links] /\ pan = (o.result # i.result)
  BY <1>2, Zenon DEF AreConnected
<1>10. IsReplaced(out2, out, from, o.links) /\ IsReplaced(in2, in, to, i.links)
  <2>1. o.links \in Seq(Links) /\ i.links \in Seq(Links)
    BY <1>8 DEF IsInserted
  <2> QED BY <1>4, <1>5, <1>9, <2>1 DEF IsReplaced
<1>11. ShortcutBetween(o, i, out2, in2, pan, out, in, low, from, to, weight)
  BY <1>8, <1>9, <1>10 DEF ShortcutBetween
<1> QED BY <1>5, <1>6, <1>11

(* A shortcut takes the place of the pair, whether it is new, shorter or   *)
(* longer than an existing link.                                           *)
LEMMA ConnectStep ==
    ASSUME NEW m, NEW d, NEW out, NEW in, NEW low, NEW prs, prs # <<>>,
           ContractionOK(m, d, out, in, low, prs, FALSE),
           NEW from, NEW to, NEW weight, IsFirst(prs, from, to, weight),
           from # to, ~ Distances(RemainingOf(out, low))[<<from, to>>] < weight,
           NEW out2, NEW in2, NEW pan, AreConnected(out2, in2, pan, out, in, low, from, to, weight)
    PROVE  ContractionOK(m, d, out2, in2, low, Tail(prs), pan)
<1>1. PICK t : t = Tail(prs)
  OBVIOUS
<1>3. /\ ListsOK(out, in, prs) /\ Contracts(d, out, in, low, prs) /\ low \in 0 .. N
      /\ ParallelIn(m) \/ Once(out, in, low)
      /\ m \in Metrics /\ d = Distances(m)
  BY DEF ContractionOK
<1>6. from \in Present(low) /\ to \in Present(low) /\ EndsAgree(out, in, low)
  <2>1. from \in Present(low) /\ to \in Present(low)
    BY ConnectedFacts, Zenon
  <2> QED BY <1>3, <2>1 DEF Contracts
<1>7. \E o, i : ShortcutBetween(o, i, out2, in2, pan, out, in, low, from, to, weight)
  BY ConnectedFacts, Zenon
<1>8. PICK o, i : ShortcutBetween(o, i, out2, in2, pan, out, in, low, from, to, weight)
  BY <1>7, Zenon
<1>9. pan = (o.result # i.result) /\ IsInserted(o, out[from], to, weight) /\ IsInserted(i, in[to], from, weight)
  BY <1>8 DEF ShortcutBetween
<1>10. IsReplaced(out2, out, from, o.links) /\ IsReplaced(in2, in, to, i.links)
  BY <1>8 DEF ShortcutBetween
<1>11. ASSUME Once(out, in, low) PROVE o.result = i.result /\ Once(out2, in2, low)
  <2>1. SameResult(o, i)
    BY <1>3, <1>6, <1>9, <1>10, <1>11, ConnectOnce, Zenon
  <2>2. Once(out2, in2, low)
    BY <1>3, <1>6, <1>9, <1>10, <1>11, ConnectOnce, Zenon
  <2> QED BY <2>1, <2>2 DEF SameResult
<1>12. CASE o.result = i.result
  <2>1. ListsOK(out2, in2, Tail(prs)) /\ Contracts(d, out2, in2, low, Tail(prs))
    BY <1>3, <1>9, <1>10, <1>12, ConnectKeeps, Zenon
  <2>2. ListsOK(out2, in2, t) /\ Contracts(d, out2, in2, low, t)
    BY <1>1, <2>1, Zenon
  <2>3. pan = FALSE
    BY <1>9, <1>12, Zenon
  <2>4. ContractionOK(m, d, out2, in2, low, t, FALSE)
    BY <1>3, <1>11, <2>2 DEF ContractionOK
  <2> QED BY <1>1, <2>3, <2>4, Zenon
<1>13. CASE o.result # i.result
  <2>1. pan = TRUE /\ ParallelIn(m)
    BY <1>3, <1>9, <1>11, <1>13, Zenon
  <2>2. ContractionOK(m, d, out2, in2, low, t, TRUE)
    BY <1>3, <2>1 DEF ContractionOK
  <2> QED BY <1>1, <2>1, <2>2, Zenon
<1> QED BY <1>12, <1>13

(* The invariant holds of the network.                                     *)
LEMMA ContractionStarts ==
    ASSUME NEW m \in Metrics
    PROVE  ContractionOK(m, Distances(m), [x \in Nodes |-> LinksTo(x, [y \in Nodes |-> m[<<x, y>>]])],
                         [x \in Nodes |-> LinksTo(x, [y \in Nodes |-> m[<<y, x>>]])], 0, <<>>, FALSE)
<1>1. PICK out, in : /\ out = [x \in Nodes |-> LinksTo(x, [y \in Nodes |-> m[<<x, y>>]])]
                     /\ in = [x \in Nodes |-> LinksTo(x, [y \in Nodes |-> m[<<y, x>>]])]
  OBVIOUS
<1>2. PICK n : n = Opposite(m)
  OBVIOUS
<1>3. m \in Metric /\ n \in Metric /\ \A x, y \in Nodes : n[<<x, y>>] = m[<<y, x>>]
  BY <1>2, MetricsAssumption DEF Opposite, Metric
<1>4. AreLinks(out, m)
  BY <1>1, <1>3, LinksOfNetwork, Zenon
<1>5. in = [x \in Nodes |-> LinksTo(x, [y \in Nodes |-> n[<<x, y>>]])]
  BY <1>1, <1>3
<1>6. AreLinks(in, n)
  BY <1>3, <1>5, LinksOfNetwork, Zenon
<1>7. AreLinks(in, Opposite(m))
  BY <1>2, <1>6, Zenon
<1>8. ListsOK(out, in, <<>>)
  BY <1>3, <1>4, <1>7, NetworkIsContracted, Zenon
<1>9. Contracts(Distances(m), out, in, 0, <<>>)
  BY <1>3, <1>4, <1>7, NetworkIsContracted, Zenon
<1>10. (\A x, y \in Nodes : x # y => Cardinality(m[<<x, y>>]) <= 1) => Once(out, in, 0)
  BY <1>3, <1>4, <1>7, NetworkIsContracted, Zenon
<1>11. ParallelIn(m) \/ \A x, y \in Nodes : x # y => Cardinality(m[<<x, y>>]) <= 1
  <2> SUFFICES ASSUME ~ParallelIn(m), NEW x \in Nodes, NEW y \in Nodes, x # y PROVE Cardinality(m[<<x, y>>]) <= 1
    OBVIOUS
  <2>1. <<x, y>> \in Nodes \X Nodes /\ <<x, y>>[1] # <<x, y>>[2]
    OBVIOUS
  <2>2. ~ Cardinality(m[<<x, y>>]) > 1
    BY <2>1 DEF ParallelIn
  <2>3. Cardinality(m[<<x, y>>]) \in Nat
    <3>1. m[<<x, y>>] \subseteq 0 .. Inf
      BY <1>3 DEF Metric, Weight
    <3>2. IsFiniteSet(m[<<x, y>>])
      <4>1. 0 \in Int /\ Inf \in Int
        BY InfAssumption
      <4>2. IsFiniteSet(0 .. Inf)
        BY <4>1, FS_Interval, Zenon
      <4> QED BY <3>1, <4>2, FS_Subset, Zenon
    <3> QED BY <3>2, FS_CardinalityType
  <2> QED BY <2>2, <2>3
<1>12. ContractionOK(m, Distances(m), out, in, 0, <<>>, FALSE)
  <2>1. 0 \in 0 .. N
    BY NAssumption
  <2> QED BY <1>8, <1>9, <1>10, <1>11, <2>1 DEF ContractionOK
<1> QED BY <1>1, <1>12, Zenon

(* Remaining is RemainingOf the variables.                                 *)
LEMMA RemainingIs == Remaining = RemainingOf(outgoing, lowest)
BY DEF Remaining, RemainingOf, WeightsTo

(* The invariant holds at first ...                                        *)
LEMMA ContractionStarts2 == ASSUME NEW m \in Metrics, InitHierarchy(m) PROVE ContractionInv
<1>1. /\ network.arcs = m /\ network.dist = Distances(m)
      /\ outgoing = [x \in Nodes |-> LinksTo(x, [y \in Nodes |-> m[<<x, y>>]])]
      /\ incoming = [x \in Nodes |-> LinksTo(x, [y \in Nodes |-> m[<<y, x>>]])]
      /\ lowest = 0 /\ pairs = <<>> /\ panicked = FALSE
  BY DEF InitHierarchy
<1> QED BY <1>1, ContractionStarts, Zenon DEF ContractionInv

(* ... and after every step.                                               *)
LEMMA ContractionKept == ContractionInv /\ [NextOfHierarchy]_hierarchyVars => ContractionInv'
<1> SUFFICES ASSUME ContractionInv, [NextOfHierarchy]_hierarchyVars PROVE ContractionInv'
  OBVIOUS
<1> USE DEF contractionVars, hierarchyVars
<1>1. PICK m, d, out, in, low, prs, pan :
          /\ m = network.arcs /\ d = network.dist /\ out = outgoing /\ in = incoming /\ low = lowest /\ prs = pairs /\ pan = panicked
  OBVIOUS
<1>2. ContractionOK(m, d, out, in, low, prs, pan)
  BY <1>1, Zenon DEF ContractionInv
<1>3. low \in 0 .. N /\ pan \in BOOLEAN
  BY <1>2 DEF ContractionOK
<1>4. CASE RemoveLowest
  <2>1. pan = FALSE /\ low \in 0 .. N - 1 /\ prs = <<>>
    <3>1. pan = FALSE /\ low < N /\ prs = <<>>
      BY <1>1, <1>3, <1>4, Zenon DEF RemoveLowest
    <3> QED BY <1>3, <3>1, NAssumption
  <2>2. /\ outgoing' = Dropped(outgoing, incoming[lowest], lowest)
        /\ incoming' = Dropped(incoming, outgoing[lowest], lowest)
        /\ pairs' = PairsOf(incoming[lowest], outgoing[lowest])
        /\ lowest' = lowest + 1 /\ network' = network /\ panicked' = panicked
    BY <1>4, Zenon DEF RemoveLowest, Dropped, PairsOf
  <2>3. ContractionOK(m, d, Dropped(out, in[low], low), Dropped(in, out[low], low), low + 1, PairsOf(in[low], out[low]), FALSE)
    BY <1>2, <2>1, RemoveStep, Zenon
  <2>4. /\ outgoing' = Dropped(out, in[low], low) /\ incoming' = Dropped(in, out[low], low)
        /\ pairs' = PairsOf(in[low], out[low]) /\ lowest' = low + 1 /\ network'.arcs = m /\ network'.dist = d /\ panicked' = FALSE
    BY <1>1, <2>1, <2>2, Zenon
  <2> QED BY <2>3, <2>4, Zenon DEF ContractionInv
<1>5. CASE ConnectPair
  <2>1. pan = FALSE /\ prs # <<>>
    BY <1>1, <1>3, <1>5 DEF ConnectPair
  <2>2. PICK from, to, weight : /\ from = Head(prs)[1].node /\ to = Head(prs)[2].node
                                /\ weight = Head(prs)[1].weight + Head(prs)[2].weight
    OBVIOUS
  <2>3. IsFirst(prs, from, to, weight)
    BY <2>2, Zenon DEF IsFirst
  <2>4. ContractionOK(m, d, out, in, low, prs, FALSE)
    BY <1>2, <2>1, Zenon
  <2>5. ShortcutRequired(from, to, weight) <=> from # to /\ ~ Distances(RemainingOf(out, low))[<<from, to>>] < weight
    BY <1>1, RemainingIs, Zenon DEF ShortcutRequired
  <2>6. pairs' = Tail(prs) /\ network'.arcs = m /\ network'.dist = d /\ lowest' = low
    BY <1>1, <1>5, Zenon DEF ConnectPair
  <2>7. CASE ShortcutRequired(from, to, weight)
    <3>1. PICK out2, in2, pan2 : AreConnected(out2, in2, pan2, out, in, low, from, to, weight)
                                 /\ outgoing' = out2 /\ incoming' = in2 /\ panicked' = pan2
      <4>1. AreConnected(outgoing', incoming', panicked', out, in, low, from, to, weight)
        BY <1>1, <1>5, <2>2, <2>7, Zenon DEF ConnectPair, AreConnected
      <4> QED BY <4>1
    <3>2. ContractionOK(m, d, out2, in2, low, Tail(prs), pan2)
      BY <2>1, <2>3, <2>4, <2>5, <2>7, <3>1, ConnectStep, Zenon
    <3> QED BY <2>6, <3>1, <3>2, Zenon DEF ContractionInv
  <2>8. CASE ~ShortcutRequired(from, to, weight)
    <3>1. outgoing' = out /\ incoming' = in /\ panicked' = FALSE
      BY <1>1, <1>5, <2>1, <2>2, <2>8, Zenon DEF ConnectPair
    <3>2. from = to \/ Distances(RemainingOf(out, low))[<<from, to>>] < weight
      BY <2>5, <2>8, Zenon
    <3>3. ContractionOK(m, d, out, in, low, Tail(prs), FALSE)
      BY <2>1, <2>3, <2>4, <3>2, SkipStep, Zenon
    <3> QED BY <2>6, <3>1, <3>3, Zenon DEF ContractionInv
  <2> QED BY <2>7, <2>8
<1>6. CASE UNCHANGED <<network, contractionVars>>
  BY <1>6, Zenon DEF ContractionInv
<1>7. CASE Query
  BY <1>6, <1>7, Zenon DEF Query
<1>8. CASE SettleNext
  BY <1>6, <1>8, Zenon DEF SettleNext
<1>9. CASE RunsEmpty
  BY <1>6, <1>9, Zenon DEF RunsEmpty
<1>10. CASE Return
  BY <1>6, <1>10, Zenon DEF Return
<1> QED BY <1>4, <1>5, <1>6, <1>7, <1>8, <1>9, <1>10, Zenon DEF NextOfHierarchy

(* When no pair is left to connect, the shortest paths of the remaining    *)
(* arcs are as long as those of the network.                               *)
LEMMA RemainingIsExact ==
    ASSUME NEW d, NEW out, NEW in, NEW low \in 0 .. N, ListsOK(out, in, <<>>), Contracts(d, out, in, low, <<>>),
           NEW x \in Present(low), NEW y \in Present(low)
    PROVE  Distances(RemainingOf(out, low))[<<x, y>>] = d[<<x, y>>]
<1>1. PICK S, P, R, D : S = Present(low) /\ P = Overlay(out, <<>>) /\ R = RemainingOf(out, low) /\ D = Distances(R)
  OBVIOUS
<1>2. out \in [Nodes -> Seq(Links)] /\ <<>> \in Seq(Links \X Links)
  BY DEF ListsOK
<1>3. Spanned(S, P, d)
  <2>1. Spanned(Present(low), Overlay(out, <<>>), d)
    BY DEF Contracts
  <2> QED BY <1>1, <2>1, Zenon
<1>4. /\ \A a \in S : a \in Nodes
      /\ R \in ArcSets
      /\ \A a \in Nodes \ S : \A b \in Nodes : R[<<a, b>>] = {}
      /\ \A a \in S : \A b \in Nodes : R[<<a, b>>] = WeightsTo(out[a], b)
  <2>1. /\ RemainingOf(out, low) \in ArcSets
        /\ \A a \in Nodes \ Present(low) : \A b \in Nodes : RemainingOf(out, low)[<<a, b>>] = {}
        /\ \A a \in Present(low) : a \in Nodes /\ \A b \in Nodes : RemainingOf(out, low)[<<a, b>>] = WeightsTo(out[a], b)
    BY <1>2, RemainingFacts
  <2>2. /\ \A a \in Present(low) : a \in Nodes
        /\ \A a \in Present(low) : \A b \in Nodes : RemainingOf(out, low)[<<a, b>>] = WeightsTo(out[a], b)
    BY <2>1
  <2> QED BY <1>1, <2>1, <2>2, Zenon
<1>5. \A a, b \in Nodes : P[<<a, b>>] = WeightsTo(out[a], b)
  <2>1. AreWeights(out, <<>>)
    BY <1>2, OverlayFacts
  <2>2. ASSUME NEW a \in Nodes, NEW b \in Nodes PROVE Overlay(out, <<>>)[<<a, b>>] = WeightsTo(out[a], b)
    <3>1. Overlay(out, <<>>)[<<a, b>>] = WeightsTo(out[a], b) \cup PairWeights(<<>>, a, b)
      BY <2>1 DEF AreWeights
    <3>2. PairWeights(<<>>, a, b) = {}
      BY DEF PairWeights, ToSet
    <3>3. \A A, B, C : A = B \cup C /\ C = {} => A = B
      OBVIOUS
    <3> QED BY <3>1, <3>2, <3>3, Zenon
  <2> QED BY <1>1, <2>2, Zenon
<1>6. \A a, b \in S : P[<<a, b>>] = R[<<a, b>>]
  BY <1>4, <1>5, ZenonT(30)
<1>7. Spanned(Nodes, R, D)
  BY <1>1, <1>4, DistancesAreSpanned, Zenon
<1>8. MetricOn(S, D) /\ Under(S, D, P)
  <2>1. MetricOn(S, D)
    BY <1>4, <1>7 DEF Spanned, MetricOn
  <2>2. Under(S, D, P)
    BY <1>4, <1>6, <1>7 DEF Spanned, Under
  <2> QED BY <2>1, <2>2
<1>9. MetricOn(S, d) /\ Under(S, d, R)
  BY <1>3, <1>6 DEF Spanned, Under
<1>10. x \in S /\ y \in S /\ S \in SUBSET Nodes
  BY <1>1, <1>4
<1>11. D[<<x, y>>] <= d[<<x, y>>]
  BY <1>3, <1>8, <1>10 DEF Spanned
<1>12. d[<<x, y>>] <= D[<<x, y>>]
  <2>1. d[<<x, y>>] <= Distances(R)[<<x, y>>]
    BY <1>4, <1>9, <1>10, MetricIsBelow
  <2> QED BY <1>1, <2>1, Zenon
<1>13. d[<<x, y>>] \in Nat /\ D[<<x, y>>] \in Nat
  BY <1>8, <1>9, <1>10 DEF MetricOn
<1>14. D[<<x, y>>] = d[<<x, y>>]
  BY <1>11, <1>12, <1>13
<1> QED BY <1>1, <1>14, Zenon

(* The property follows from the invariant.                                *)
LEMMA OverlayIsKept == ContractionInv => OverlayKeepsDistances
<1> SUFFICES ASSUME ContractionInv PROVE OverlayKeepsDistances
  OBVIOUS
<1>1. ParallelArcs <=> ParallelIn(network.arcs)
  BY DEF ParallelArcs, ParallelIn
<1>2. panicked => ParallelArcs
  BY <1>1 DEF ContractionInv, ContractionOK
<1>3. ASSUME ~panicked, pairs = <<>>, NEW x \in lowest .. N - 1, NEW y \in lowest .. N - 1
      PROVE  Distances(Remaining)[<<x, y>>] = network.dist[<<x, y>>]
  <2>1. PICK d, out, in, low : d = network.dist /\ out = outgoing /\ in = incoming /\ low = lowest
    OBVIOUS
  <2>2. ListsOK(outgoing, incoming, pairs) /\ Contracts(network.dist, outgoing, incoming, lowest, pairs) /\ lowest \in 0 .. N
    BY <1>3, Zenon DEF ContractionInv, ContractionOK
  <2>3. ListsOK(out, in, <<>>) /\ Contracts(d, out, in, low, <<>>) /\ low \in 0 .. N
    BY <1>3, <2>1, <2>2, Zenon
  <2>4. x \in Present(low) /\ y \in Present(low)
    BY <2>1, Zenon DEF Present
  <2>5. Distances(RemainingOf(out, low))[<<x, y>>] = d[<<x, y>>]
    BY <2>3, <2>4, RemainingIsExact, Zenon
  <2> QED BY <2>1, <2>5, RemainingIs, Zenon
<1> QED BY <1>2, <1>3 DEF OverlayKeepsDistances

(* The inductive invariant holds throughout, also while pairs are          *)
(* connected one by one and while queries run.                             *)
THEOREM ContractionInvariant == SpecOfHierarchy => []ContractionInv
<1>1. (\E m \in Metrics : InitHierarchy(m)) => ContractionInv
  BY ContractionStarts2
<1> QED BY <1>1, ContractionKept, PTL DEF SpecOfHierarchy

(* OverlayKeepsDistances, for every network and every number of nodes:     *)
(* after each node, the remaining nodes have the distances of the network, *)
(* and the assertion in insert_or_decrease fails with parallel arcs only.  *)
THEOREM OverlayIsExact == SpecOfHierarchy => []OverlayKeepsDistances
BY ContractionInvariant, OverlayIsKept, PTL

-----------------------------------------------------------------------------
(* Queries                                                                 *)

(* The weights of the links from a node to a higher one, on either side.   *)
UpWeights(out, in, side, x, y) == WeightsTo(IF side = "fw" THEN out[x] ELSE in[x], y)

(* The distance between two nodes in the direction of a side.              *)
Between(d, side, x, y) == IF side = "fw" THEN d[<<x, y>>] ELSE d[<<y, x>>]

(* What searches need of a hierarchy.                                      *)
GoesUp(d, out, in) ==
    /\ MetricOn(Nodes, d)
    /\ \A side \in Sides : \A x, y \in Nodes : \A w \in UpWeights(out, in, side, x, y) :
           w \in Nat /\ x < y /\ Between(d, side, x, y) <= w
    /\ \A side \in Sides : \A x, y \in Nodes : x < y /\ Between(d, side, x, y) < Inf =>
           \E z \in Nodes : \E w \in UpWeights(out, in, side, x, z) : w + Between(d, side, z, y) <= Between(d, side, x, y)

(* When all nodes are contracted, shortest paths go up and down.           *)
LEMMA HierarchyGoesUp ==
    ASSUME NEW d, NEW out, NEW in, NEW prs, MetricOn(Nodes, d), ListsOK(out, in, prs), Contracts(d, out, in, N, prs)
    PROVE  GoesUp(d, out, in)
<1>1. \A x \in Nodes : x \in Nat /\ x < N
  BY NAssumption DEF Nodes
<1>2. LinksAreUp(out, N) /\ LinksAreUp(in, N) /\ UpIsOnWay(out, d, N) /\ UpIsOnWay(in, Flip(d), N)
  BY DEF Contracts
<1>3. ASSUME NEW lists \in [Nodes -> Seq(Links)], LinksAreUp(lists, N), NEW x \in Nodes, NEW y \in Nodes,
             NEW w \in WeightsTo(lists[x], y)
      PROVE  w \in Nat /\ x < y
  <2>1. lists[x] \in Seq(Links)
    OBVIOUS
  <2>2. w \in Weight /\ At(lists[x], y) # {}
    BY <2>1, WeightsFacts
  <2>3. x < y
    BY <1>1, <1>3, <2>2 DEF LinksAreUp
  <2> QED BY <2>2, <2>3, InfAssumption DEF Weight
<1>4. out \in [Nodes -> Seq(Links)] /\ in \in [Nodes -> Seq(Links)]
  BY DEF ListsOK
<1>5. \A a, b \in Nodes : Flip(d)[<<a, b>>] = d[<<b, a>>]
  BY DEF Flip
<1>6. PICK e : e = Flip(d)
  OBVIOUS
<1>7. UpIsOnWay(in, e, N) /\ \A a, b \in Nodes : e[<<a, b>>] = d[<<b, a>>]
  BY <1>2, <1>5, <1>6, Zenon
<1>8. ASSUME NEW side \in Sides, NEW x \in Nodes, NEW y \in Nodes
      PROVE  /\ \A w \in UpWeights(out, in, side, x, y) : w \in Nat /\ x < y /\ Between(d, side, x, y) <= w
             /\ x < y /\ Between(d, side, x, y) < Inf =>
                  \E z \in Nodes : \E w \in UpWeights(out, in, side, x, z) :
                      w + Between(d, side, z, y) <= Between(d, side, x, y)
  <2>1. CASE side = "fw"
    <3>1. \A w \in WeightsTo(out[x], y) : w \in Nat /\ x < y
      BY <1>2, <1>3, <1>4
    <3>2. /\ \A w \in WeightsTo(out[x], y) : d[<<x, y>>] <= w
          /\ x < y /\ d[<<x, y>>] < Inf => \E z \in Nodes : \E w \in WeightsTo(out[x], z) : w + d[<<z, y>>] <= d[<<x, y>>]
      BY <1>1, <1>2 DEF UpIsOnWay
    <3> QED BY <2>1, <3>1, <3>2 DEF UpWeights, Between
  <2>2. CASE side = "bw"
    <3>0. "bw" # "fw"
      OBVIOUS
    <3>1. \A w \in WeightsTo(in[x], y) : w \in Nat /\ x < y
      BY <1>2, <1>3, <1>4
    <3>2. /\ \A w \in WeightsTo(in[x], y) : e[<<x, y>>] <= w
          /\ x < y /\ e[<<x, y>>] < Inf => \E z \in Nodes : \E w \in WeightsTo(in[x], z) : w + e[<<z, y>>] <= e[<<x, y>>]
      BY <1>1, <1>7 DEF UpIsOnWay
    <3>3. e[<<x, y>>] = d[<<y, x>>] /\ \A z \in Nodes : e[<<z, y>>] = d[<<y, z>>]
      BY <1>7
    <3>4. /\ \A w \in WeightsTo(in[x], y) : d[<<y, x>>] <= w
          /\ x < y /\ d[<<y, x>>] < Inf => \E z \in Nodes : \E w \in WeightsTo(in[x], z) : w + d[<<y, z>>] <= d[<<y, x>>]
      BY <3>2, <3>3
    <3> QED BY <2>2, <3>0, <3>1, <3>4 DEF UpWeights, Between
  <2> QED BY <2>1, <2>2 DEF Sides
<1> QED BY <1>8 DEF GoesUp

(* Where the search of a side starts.                                      *)
StartOf(q, side) == q[IF side = "fw" THEN 1 ELSE 2]

(* The distance that a side looks for.                                     *)
ExactFrom(d, q, side, x) == IF side = "fw" THEN d[<<q[1], x>>] ELSE d[<<x, q[2]>>]

(* Tentative distances are no less than exact ones; links of settled nodes *)
(* were relaxed; nodes settled on both sides were looked at; nodes in a    *)
(* queue are not below the progress of its side; and a side is done when   *)
(* its queue is empty or cannot make the result better.                    *)
SearchOK(d, out, in, q, ds, op, pr, bs, dn) ==
    /\ ds \in [Sides -> [Nodes -> 0 .. Inf]] /\ op \in [Sides -> SUBSET Nodes] /\ pr \in [Sides -> 0 .. Inf]
    /\ bs \in 0 .. Inf /\ dn \subseteq Sides
    /\ \A side \in Sides : ds[side][StartOf(q, side)] = 0
    /\ \A side \in Sides : \A x \in Nodes : ExactFrom(d, q, side, x) <= ds[side][x]
    /\ \A side \in Sides : \A x, y \in Nodes : x \notin op[side] =>
           \A w \in UpWeights(out, in, side, x, y) : ds[side][y] <= ds[side][x] + w
    /\ \A x \in Nodes : x \notin op["fw"] /\ x \notin op["bw"] => bs <= ds["fw"][x] + ds["bw"][x]
    /\ \A side \in Sides : \A x \in op[side] : pr[side] <= ds[side][x]
    /\ \A side \in dn : op[side] = {} \/ bs <= pr[side]
    /\ d[q] <= bs

(* There are two sides.                                                    *)
LEMMA SidesAre == "fw" \in Sides /\ "bw" \in Sides /\ "bw" # "fw" /\ \A side \in Sides : side = "fw" \/ side = "bw"
BY DEF Sides

(* A pair of nodes that ways up lead to, without getting longer than the   *)
(* shortest path.                                                          *)
OnWay(d, q, ds, x, y) ==
    x \in Nodes /\ y \in Nodes /\ ds["fw"][x] + d[<<x, y>>] + ds["bw"][y] <= d[q]

(* The last such pair is the middle of the path, or one of them is in the  *)
(* queue.                                                                  *)
LEMMA ResultIsFound ==
    ASSUME NEW d, NEW out, NEW in, GoesUp(d, out, in), NEW q \in Nodes \X Nodes, NEW ds, NEW op, NEW pr, NEW bs, NEW dn,
           SearchOK(d, out, in, q, ds, op, pr, bs, dn), (bs <= pr["fw"] /\ bs <= pr["bw"]) \/ dn = Sides
    PROVE  bs = d[q]
<1>1. /\ \A a, b \in Nodes : d[<<a, b>>] \in Nat /\ d[<<a, b>>] <= Inf
      /\ \A a \in Nodes : d[<<a, a>>] = 0
      /\ \A x \in Nodes : x \in Nat /\ x < N
      /\ N \in Nat /\ Inf \in Nat
  BY NAssumption, InfAssumption DEF GoesUp, MetricOn, Nodes
<1>2. PICK s \in Nodes, t \in Nodes : q = <<s, t>>
  OBVIOUS
<1>3. /\ ds["fw"] \in [Nodes -> 0 .. Inf] /\ ds["bw"] \in [Nodes -> 0 .. Inf]
      /\ ds["fw"][s] = 0 /\ ds["bw"][t] = 0
      /\ op["fw"] \subseteq Nodes /\ op["bw"] \subseteq Nodes
      /\ pr["fw"] \in Nat /\ pr["bw"] \in Nat /\ bs \in Nat /\ bs <= Inf
      /\ d[q] <= bs /\ d[q] \in Nat
  <2>1. StartOf(q, "fw") = s /\ StartOf(q, "bw") = t
    BY <1>2 DEF StartOf
  <2>2. ds["fw"][s] = 0 /\ ds["bw"][t] = 0
    BY <2>1, SidesAre DEF SearchOK
  <2>3. /\ ds["fw"] \in [Nodes -> 0 .. Inf] /\ ds["bw"] \in [Nodes -> 0 .. Inf]
        /\ op["fw"] \subseteq Nodes /\ op["bw"] \subseteq Nodes
        /\ pr["fw"] \in 0 .. Inf /\ pr["bw"] \in 0 .. Inf /\ bs \in 0 .. Inf /\ d[q] <= bs
    BY SidesAre DEF SearchOK
  <2>4. d[q] \in Nat
    BY <1>1, <1>2
  <2> QED BY <1>1, <2>2, <2>3, <2>4
<1>4. \A x \in Nodes : ds["fw"][x] \in Nat /\ ds["bw"][x] \in Nat
  BY <1>1, <1>3
<1> SUFFICES ASSUME d[q] < bs PROVE FALSE
  BY <1>3
<1>5. \A side \in Sides : \A x \in op[side] : bs <= ds[side][x]
  <2> SUFFICES ASSUME NEW side \in Sides, NEW x \in op[side] PROVE bs <= ds[side][x]
    OBVIOUS
  <2>1. pr[side] <= ds[side][x]
    BY DEF SearchOK
  <2>2. bs <= pr[side]
    <3>1. CASE dn = Sides
      BY <3>1 DEF SearchOK
    <3>2. CASE bs <= pr["fw"] /\ bs <= pr["bw"]
      BY <3>2, SidesAre
    <3> QED BY <3>1, <3>2
  <2>3. pr[side] \in Nat /\ ds[side][x] \in Nat
    <3>1. x \in Nodes /\ (side = "fw" \/ side = "bw")
      BY <1>3, SidesAre
    <3> QED BY <1>3, <1>4, <3>1
  <2> QED BY <1>3, <2>1, <2>2, <2>3
<1>6. \A x \in Nodes : (x \in op["fw"] => bs <= ds["fw"][x]) /\ (x \in op["bw"] => bs <= ds["bw"][x])
  BY <1>5, SidesAre
<1> DEFINE M == {k \in Nat : \E x, y \in Nodes : OnWay(d, q, ds, x, y) /\ k = (N - x) + (N - y)}
<1>7. ASSUME NEW x \in Nodes, NEW y \in Nodes, OnWay(d, q, ds, x, y) PROVE (N - x) + (N - y) \in M
  <2>1. (N - x) + (N - y) \in Nat
    BY <1>1
  <2> QED BY <1>7, <2>1
<1>8. M # {}
  <2>1. ds["fw"][s] + d[<<s, t>>] + ds["bw"][t] <= d[q]
    BY <1>1, <1>2, <1>3
  <2>2. OnWay(d, q, ds, s, t)
    BY <2>1 DEF OnWay
  <2> QED BY <1>7, <2>2
<1>9. PICK k \in M : \A j \in M : k <= j
  <2>1. M \in SUBSET Nat
    OBVIOUS
  <2> HIDE DEF M
  <2> QED BY <1>8, <2>1, LeastElement
<1>10. PICK x \in Nodes : \E y \in Nodes : OnWay(d, q, ds, x, y) /\ k = (N - x) + (N - y)
  OBVIOUS
<1>11. PICK y \in Nodes : OnWay(d, q, ds, x, y) /\ k = (N - x) + (N - y)
  BY <1>10
<1> HIDE DEF M
<1>12. /\ ds["fw"][x] + d[<<x, y>>] + ds["bw"][y] <= d[q]
       /\ ds["fw"][x] \in Nat /\ ds["bw"][y] \in Nat /\ d[<<x, y>>] \in Nat
       /\ ds["fw"][y] \in Nat /\ ds["bw"][x] \in Nat
       /\ x \in Nat /\ y \in Nat
  BY <1>1, <1>4, <1>11 DEF OnWay
<1>13. d[<<x, y>>] < Inf /\ ds["fw"][x] < bs /\ ds["bw"][y] < bs
  BY <1>1, <1>3, <1>12
<1>14. x \notin op["fw"] /\ y \notin op["bw"]
  BY <1>3, <1>6, <1>12, <1>13
<1>15. CASE x < y
  <2>1. PICK z \in Nodes : \E w \in UpWeights(out, in, "fw", x, z) : w + d[<<z, y>>] <= d[<<x, y>>]
    BY <1>13, <1>15, SidesAre DEF GoesUp, Between
  <2>2. PICK w \in UpWeights(out, in, "fw", x, z) : w + d[<<z, y>>] <= d[<<x, y>>]
    BY <2>1
  <2>3. w \in Nat /\ x < z
    BY SidesAre DEF GoesUp
  <2>4. ds["fw"][z] <= ds["fw"][x] + w
    BY <1>14, SidesAre DEF SearchOK
  <2>5. ds["fw"][z] \in Nat /\ d[<<z, y>>] \in Nat /\ z \in Nat
    BY <1>1, <1>4
  <2>6. ds["fw"][z] + d[<<z, y>>] + ds["bw"][y] <= d[q]
    BY <1>3, <1>12, <2>2, <2>3, <2>4, <2>5
  <2>7. (N - z) + (N - y) \in M
    BY <1>7, <2>6 DEF OnWay
  <2>8. k <= (N - z) + (N - y)
    BY <1>9, <2>7
  <2> QED BY <1>1, <1>11, <1>12, <2>3, <2>5, <2>8
<1>16. CASE y < x
  <2>1. PICK z \in Nodes : \E w \in UpWeights(out, in, "bw", y, z) : w + d[<<x, z>>] <= d[<<x, y>>]
    BY <1>13, <1>16, SidesAre DEF GoesUp, Between
  <2>2. PICK w \in UpWeights(out, in, "bw", y, z) : w + d[<<x, z>>] <= d[<<x, y>>]
    BY <2>1
  <2>3. w \in Nat /\ y < z
    BY SidesAre DEF GoesUp
  <2>4. ds["bw"][z] <= ds["bw"][y] + w
    BY <1>14, SidesAre DEF SearchOK
  <2>5. ds["bw"][z] \in Nat /\ d[<<x, z>>] \in Nat /\ z \in Nat
    BY <1>1, <1>4
  <2>6. ds["fw"][x] + d[<<x, z>>] + ds["bw"][z] <= d[q]
    BY <1>3, <1>12, <2>2, <2>3, <2>4, <2>5
  <2>7. (N - x) + (N - z) \in M
    BY <1>7, <2>6 DEF OnWay
  <2>8. k <= (N - x) + (N - z)
    BY <1>9, <2>7
  <2> QED BY <1>1, <1>11, <1>12, <2>3, <2>5, <2>8
<1>17. CASE x = y
  <2>1. bs <= ds["fw"][x] + ds["bw"][x]
    BY <1>14, <1>17 DEF SearchOK
  <2>2. d[<<x, x>>] = 0 /\ ds["fw"][x] + d[<<x, x>>] + ds["bw"][x] <= d[q]
    BY <1>1, <1>12, <1>17
  <2> QED BY <1>3, <1>12, <2>1, <2>2
<1> QED BY <1>12, <1>15, <1>16, <1>17

(* The next node of a queue is settled.                                    *)
Settles(out, in, q, T, x, ds, op, pr, bs, dn, ds2, op2, pr2, bs2, dn2) ==
    /\ ds2 \in [Sides -> [Nodes -> 0 .. Inf]] /\ op2 \in [Sides -> SUBSET Nodes] /\ pr2 \in [Sides -> 0 .. Inf]
    /\ ds2[Other(T)] = ds[Other(T)] /\ op2[Other(T)] = op[Other(T)] /\ pr2[Other(T)] = pr[Other(T)]
    /\ \A y \in Nodes : /\ ds2[T][y] <= ds[T][y]
                        /\ \A w \in UpWeights(out, in, T, x, y) : ds2[T][y] <= ds[T][x] + w
                        /\ ds2[T][y] = ds[T][y] \/ \E w \in UpWeights(out, in, T, x, y) : ds2[T][y] = ds[T][x] + w
    /\ op2[T] = (op[T] \ {x}) \cup {y \in Nodes : ds2[T][y] < ds[T][y]}
    /\ pr2[T] = ds[T][x]
    /\ bs2 \in Nat /\ bs2 <= bs /\ bs2 <= ds[T][x] + ds[Other(T)][x]
    /\ bs2 = bs \/ bs2 = ds[T][x] + ds[Other(T)][x]
    /\ dn2 = IF x = StartOf(q, Other(T)) THEN dn \cup {T} ELSE dn

(* The other side is the other one.                                        *)
LEMMA OtherFacts ==
    ASSUME NEW T \in Sides
    PROVE  Other(T) \in Sides /\ Other(T) # T /\ \A side \in Sides : side = T \/ side = Other(T)
BY SidesAre DEF Other

(* Settling the closest node of a queue keeps the invariant of the search. *)
LEMMA SettleKeeps ==
    ASSUME NEW d, NEW out, NEW in, GoesUp(d, out, in), NEW q \in Nodes \X Nodes, NEW ds, NEW op, NEW pr, NEW bs, NEW dn,
           SearchOK(d, out, in, q, ds, op, pr, bs, dn),
           NEW T \in Sides, T \notin dn, NEW x \in op[T], \A y \in op[T] : ds[T][x] <= ds[T][y],
           NEW ds2, NEW op2, NEW pr2, NEW bs2, NEW dn2,
           Settles(out, in, q, T, x, ds, op, pr, bs, dn, ds2, op2, pr2, bs2, dn2)
    PROVE  SearchOK(d, out, in, q, ds2, op2, pr2, bs2, dn2)
<1>1. /\ \A a, b \in Nodes : d[<<a, b>>] \in Nat /\ d[<<a, b>>] <= Inf
      /\ \A a, b, c \in Nodes : d[<<a, c>>] <= d[<<a, b>>] + d[<<b, c>>]
      /\ \A y \in Nodes : y \in Nat /\ y < N
      /\ N \in Nat /\ Inf \in Nat
  BY NAssumption, InfAssumption DEF GoesUp, MetricOn, Nodes
<1>2. PICK O : O = Other(T)
  OBVIOUS
<1>3. O \in Sides /\ O # T /\ \A side \in Sides : side = T \/ side = O
  BY <1>2, OtherFacts
<1>4. PICK f, g, h : f = ds[T] /\ g = ds[O] /\ h = ds2[T]
  OBVIOUS
<1>5. /\ ds2 \in [Sides -> [Nodes -> 0 .. Inf]] /\ op2 \in [Sides -> SUBSET Nodes] /\ pr2 \in [Sides -> 0 .. Inf]
      /\ ds2[O] = g /\ op2[O] = op[O] /\ pr2[O] = pr[O]
      /\ \A y \in Nodes : /\ h[y] <= f[y]
                          /\ \A w \in UpWeights(out, in, T, x, y) : h[y] <= f[x] + w
                          /\ h[y] = f[y] \/ \E w \in UpWeights(out, in, T, x, y) : h[y] = f[x] + w
      /\ op2[T] = (op[T] \ {x}) \cup {y \in Nodes : h[y] < f[y]}
      /\ pr2[T] = f[x]
      /\ bs2 \in Nat /\ bs2 <= bs /\ bs2 <= f[x] + g[x]
      /\ bs2 = bs \/ bs2 = f[x] + g[x]
      /\ dn2 = IF x = StartOf(q, O) THEN dn \cup {T} ELSE dn
  BY <1>2, <1>4, Zenon DEF Settles
<1>6. /\ f \in [Nodes -> 0 .. Inf] /\ g \in [Nodes -> 0 .. Inf] /\ h \in [Nodes -> 0 .. Inf]
      /\ op[T] \subseteq Nodes /\ op[O] \subseteq Nodes /\ bs \in Nat /\ bs <= Inf /\ dn \subseteq Sides
      /\ d[q] <= bs
  BY <1>1, <1>3, <1>4, <1>5 DEF SearchOK
<1>7. /\ \A y \in Nodes : f[y] \in Nat /\ g[y] \in Nat /\ h[y] \in Nat
      /\ x \in Nodes
  BY <1>1, <1>6
<1>8. /\ f[StartOf(q, T)] = 0 /\ g[StartOf(q, O)] = 0
      /\ \A y \in Nodes : ExactFrom(d, q, T, y) <= f[y] /\ ExactFrom(d, q, O, y) <= g[y]
      /\ \A u, y \in Nodes : u \notin op[T] => \A w \in UpWeights(out, in, T, u, y) : f[y] <= f[u] + w
      /\ \A u, y \in Nodes : u \notin op[O] => \A w \in UpWeights(out, in, O, u, y) : g[y] <= g[u] + w
      /\ \A y \in Nodes : y \notin op[T] /\ y \notin op[O] => bs <= f[y] + g[y]
      /\ \A y \in op[O] : pr[O] <= g[y]
      /\ O \in dn => op[O] = {} \/ bs <= pr[O]
  <2>1. /\ f[StartOf(q, T)] = 0 /\ g[StartOf(q, O)] = 0
        /\ \A y \in Nodes : ExactFrom(d, q, T, y) <= f[y] /\ ExactFrom(d, q, O, y) <= g[y]
    BY <1>3, <1>4, Zenon DEF SearchOK
  <2>2. /\ \A u, y \in Nodes : u \notin op[T] => \A w \in UpWeights(out, in, T, u, y) : f[y] <= f[u] + w
        /\ \A u, y \in Nodes : u \notin op[O] => \A w \in UpWeights(out, in, O, u, y) : g[y] <= g[u] + w
    BY <1>3, <1>4, Zenon DEF SearchOK
  <2>3. ASSUME NEW y \in Nodes, y \notin op[T], y \notin op[O] PROVE bs <= f[y] + g[y]
    <3>1. bs <= ds["fw"][y] + ds["bw"][y]
      <4>1. y \notin op["fw"] /\ y \notin op["bw"]
        BY <1>3, <2>3, SidesAre
      <4> QED BY <4>1 DEF SearchOK
    <3>2. (T = "fw" /\ O = "bw") \/ (T = "bw" /\ O = "fw")
      BY <1>3, SidesAre
    <3>3. f[y] \in Nat /\ g[y] \in Nat
      BY <1>7
    <3> QED BY <1>4, <3>1, <3>2, <3>3
  <2>4. (\A y \in op[O] : pr[O] <= g[y]) /\ (O \in dn => op[O] = {} \/ bs <= pr[O])
    BY <1>3, <1>4 DEF SearchOK
  <2> QED BY <2>1, <2>2, <2>3, <2>4
<1>9. \A u, y \in Nodes : \A w \in UpWeights(out, in, T, u, y) : w \in Nat /\ u < y /\ Between(d, T, u, y) <= w
  BY DEF GoesUp
<1>10. \A y \in op[T] : f[x] <= f[y]
  BY <1>4
<1>11. f[x] \in 0 .. Inf /\ f[x] \in Nat /\ g[x] \in Nat
  BY <1>6, <1>7
<1>12. bs2 \in 0 .. Inf
  BY <1>1, <1>5, <1>6
<1>13. \A side \in Sides : ds2[side][StartOf(q, side)] = 0
  <2>1. StartOf(q, T) \in Nodes
    BY DEF StartOf
  <2>2. h[StartOf(q, T)] = 0
    <3>1. h[StartOf(q, T)] <= 0 /\ h[StartOf(q, T)] \in Nat
      BY <1>5, <1>7, <1>8, <2>1
    <3> QED BY <3>1
  <2> QED BY <1>3, <1>4, <1>5, <1>8, <2>2
<1>14. \A side \in Sides : \A y \in Nodes : ExactFrom(d, q, side, y) <= ds2[side][y]
  <2> SUFFICES ASSUME NEW side \in Sides, NEW y \in Nodes PROVE ExactFrom(d, q, side, y) <= ds2[side][y]
    OBVIOUS
  <2>1. CASE side = O
    BY <1>5, <1>8, <2>1
  <2>2. ExactFrom(d, q, T, y) <= h[y]
    <3>1. CASE h[y] = f[y]
      BY <1>8, <3>1
    <3>2. ASSUME NEW w \in UpWeights(out, in, T, x, y), h[y] = f[x] + w PROVE ExactFrom(d, q, T, y) <= h[y]
      <4>1. w \in Nat /\ Between(d, T, x, y) <= w
        BY <1>7, <1>9
      <4>2. ExactFrom(d, q, T, x) <= f[x]
        BY <1>7, <1>8
      <4>3. /\ ExactFrom(d, q, T, y) <= ExactFrom(d, q, T, x) + Between(d, T, x, y)
            /\ ExactFrom(d, q, T, x) \in Nat /\ ExactFrom(d, q, T, y) \in Nat /\ Between(d, T, x, y) \in Nat
        <5>1. PICK s \in Nodes, t \in Nodes : q = <<s, t>>
          OBVIOUS
        <5>2. /\ d[<<s, y>>] <= d[<<s, x>>] + d[<<x, y>>] /\ d[<<y, t>>] <= d[<<y, x>>] + d[<<x, t>>]
              /\ d[<<s, y>>] \in Nat /\ d[<<s, x>>] \in Nat /\ d[<<x, y>>] \in Nat
              /\ d[<<y, t>>] \in Nat /\ d[<<y, x>>] \in Nat /\ d[<<x, t>>] \in Nat
          BY <1>1, <1>7
        <5>3. q[1] = s /\ q[2] = t
          BY <5>1
        <5>4. CASE T = "fw"
          BY <5>2, <5>3, <5>4 DEF ExactFrom, Between
        <5>5. CASE T = "bw"
          <6>1. ExactFrom(d, q, T, y) = d[<<y, t>>] /\ ExactFrom(d, q, T, x) = d[<<x, t>>] /\ Between(d, T, x, y) = d[<<y, x>>]
            BY <5>3, <5>5, SidesAre DEF ExactFrom, Between
          <6> QED BY <5>2, <6>1
        <5> QED BY <5>4, <5>5, SidesAre
      <4> QED BY <1>11, <3>2, <4>1, <4>2, <4>3
    <3> QED BY <1>5, <3>1, <3>2
  <2> QED BY <1>3, <1>4, <2>1, <2>2
<1>15. h[x] = f[x]
  <2>1. ASSUME NEW w \in UpWeights(out, in, T, x, x) PROVE FALSE
    BY <1>7, <1>9, <1>1
  <2> QED BY <1>5, <1>7, <2>1
<1>16. \A side \in Sides : \A u, y \in Nodes : u \notin op2[side] =>
           \A w \in UpWeights(out, in, side, u, y) : ds2[side][y] <= ds2[side][u] + w
  <2> SUFFICES ASSUME NEW side \in Sides, NEW u \in Nodes, NEW y \in Nodes, u \notin op2[side],
                      NEW w \in UpWeights(out, in, side, u, y)
               PROVE  ds2[side][y] <= ds2[side][u] + w
    OBVIOUS
  <2>1. CASE side = O
    BY <1>5, <1>8, <2>1
  <2>2. CASE side = T
    <3>1. w \in UpWeights(out, in, T, u, y) /\ u \notin op2[T]
      BY <2>2
    <3>2. w \in Nat
      BY <1>9, <3>1
    <3>3. h[y] <= h[u] + w
      <4>1. CASE u = x
        BY <1>5, <1>15, <3>1, <4>1
      <4>2. CASE u # x
        <5>1. u \notin op[T] /\ ~ (h[u] < f[u])
          BY <1>5, <3>1, <4>2
        <5>2. h[u] = f[u]
          <6>1. h[u] <= f[u] /\ h[u] \in Nat /\ f[u] \in Nat
            BY <1>5, <1>7
          <6> QED BY <5>1, <6>1
        <5>3. f[y] <= f[u] + w /\ h[y] <= f[y] /\ f[y] \in Nat /\ h[y] \in Nat /\ f[u] \in Nat
          BY <1>5, <1>7, <1>8, <3>1, <5>1
        <5> QED BY <3>2, <5>2, <5>3
      <4> QED BY <4>1, <4>2
    <3> QED BY <1>4, <2>2, <3>3
  <2> QED BY <1>3, <2>1, <2>2
<1>17. \A y \in Nodes : y \notin op2["fw"] /\ y \notin op2["bw"] => bs2 <= ds2["fw"][y] + ds2["bw"][y]
  <2> SUFFICES ASSUME NEW y \in Nodes, y \notin op2["fw"], y \notin op2["bw"] PROVE bs2 <= ds2["fw"][y] + ds2["bw"][y]
    OBVIOUS
  <2>1. (T = "fw" /\ O = "bw") \/ (T = "bw" /\ O = "fw")
    BY <1>3, SidesAre
  <2>2. y \notin op2[T] /\ y \notin op2[O]
    BY <2>1
  <2>3. f[y] \in Nat /\ g[y] \in Nat /\ h[y] \in Nat
    BY <1>7
  <2>4. bs2 <= h[y] + g[y]
    <3>1. CASE y = x
      BY <1>5, <1>15, <3>1
    <3>2. CASE y # x
      <4>1. y \notin op[T] /\ y \notin op[O] /\ ~ (h[y] < f[y])
        BY <1>5, <2>2, <3>2
      <4>2. h[y] <= f[y] /\ bs <= f[y] + g[y]
        BY <1>5, <1>8, <4>1
      <4> QED BY <1>5, <1>6, <2>3, <4>1, <4>2
    <3> QED BY <3>1, <3>2
  <2>5. h[y] + g[y] = g[y] + h[y]
    BY <2>3
  <2> QED BY <1>4, <1>5, <2>1, <2>4, <2>5
<1>18. \A side \in Sides : \A y \in op2[side] : pr2[side] <= ds2[side][y]
  <2> SUFFICES ASSUME NEW side \in Sides, NEW y \in op2[side] PROVE pr2[side] <= ds2[side][y]
    OBVIOUS
  <2>1. CASE side = O
    BY <1>5, <1>8, <2>1
  <2>2. CASE side = T
    <3>1. y \in Nodes
      BY <1>3, <1>5
    <3>2. h[y] \in Nat /\ f[y] \in Nat
      BY <1>7, <3>1
    <3>3. f[x] <= h[y]
      <4>1. CASE h[y] = f[y]
        <5>1. y \in op[T]
          BY <1>5, <2>2, <3>2, <4>1
        <5> QED BY <1>10, <4>1, <5>1
      <4>2. ASSUME NEW w \in UpWeights(out, in, T, x, y), h[y] = f[x] + w PROVE f[x] <= h[y]
        <5>1. w \in Nat
          BY <1>7, <1>9, <3>1
        <5> QED BY <1>11, <4>2, <5>1
      <4> QED BY <1>5, <3>1, <4>1, <4>2
    <3> QED BY <1>4, <1>5, <2>2, <3>3
  <2> QED BY <1>3, <2>1, <2>2
<1>19. \A side \in dn2 : op2[side] = {} \/ bs2 <= pr2[side]
  <2> SUFFICES ASSUME NEW side \in dn2 PROVE op2[side] = {} \/ bs2 <= pr2[side]
    OBVIOUS
  <2>1. side = T \/ side = O
    BY <1>3, <1>5, <1>6
  <2>2. CASE side = T
    <3>1. x = StartOf(q, O)
      BY <1>5, <2>2
    <3>2. g[x] = 0
      BY <1>8, <3>1
    <3> QED BY <1>5, <1>11, <2>2, <3>2
  <2>3. CASE side = O
    <3>1. O \in dn
      BY <1>3, <1>5, <2>3
    <3>2. op[O] = {} \/ bs <= pr[O]
      BY <1>8, <3>1
    <3>3. pr[O] \in 0 .. Inf
      BY <1>3 DEF SearchOK
    <3> QED BY <1>1, <1>5, <1>6, <2>3, <3>2, <3>3
  <2> QED BY <2>1, <2>2, <2>3
<1>20. d[q] <= bs2
  <2>1. d[q] <= f[x] + g[x]
    <3>1. PICK s \in Nodes, t \in Nodes : q = <<s, t>>
      OBVIOUS
    <3>2. q[1] = s /\ q[2] = t
      BY <3>1
    <3>3. d[<<s, t>>] <= d[<<s, x>>] + d[<<x, t>>] /\ d[<<s, t>>] \in Nat /\ d[<<s, x>>] \in Nat /\ d[<<x, t>>] \in Nat
      BY <1>1, <1>7
    <3>4. (T = "fw" /\ O = "bw") \/ (T = "bw" /\ O = "fw")
      BY <1>3, SidesAre
    <3>5. (d[<<s, x>>] <= f[x] /\ d[<<x, t>>] <= g[x]) \/ (d[<<s, x>>] <= g[x] /\ d[<<x, t>>] <= f[x])
      <4>1. ExactFrom(d, q, T, x) <= f[x] /\ ExactFrom(d, q, O, x) <= g[x]
        BY <1>7, <1>8
      <4>2. ExactFrom(d, q, "fw", x) = d[<<s, x>>] /\ ExactFrom(d, q, "bw", x) = d[<<x, t>>]
        BY <3>2, SidesAre DEF ExactFrom
      <4> QED BY <3>4, <4>1, <4>2
    <3>6. d[q] = d[<<s, t>>]
      BY <3>1
    <3> QED BY <1>11, <3>3, <3>5, <3>6
  <2> QED BY <1>5, <1>6, <2>1
<1>21. dn2 \subseteq Sides
  BY <1>5, <1>6
<1> QED BY <1>5, <1>12, <1>13, <1>14, <1>16, <1>17, <1>18, <1>19, <1>20, <1>21 DEF SearchOK

(* It holds when the query starts, ...                                     *)
LEMMA SearchStarts ==
    ASSUME NEW d, NEW out, NEW in, GoesUp(d, out, in), NEW q \in Nodes \X Nodes
    PROVE  SearchOK(d, out, in, q, [side \in Sides |-> [x \in Nodes |-> IF x = q[IF side = "fw" THEN 1 ELSE 2] THEN 0 ELSE Inf]],
                    [side \in Sides |-> {q[IF side = "fw" THEN 1 ELSE 2]}], [side \in Sides |-> 0], Inf, {})
<1>1. /\ \A a, b \in Nodes : d[<<a, b>>] \in Nat /\ d[<<a, b>>] <= Inf
      /\ \A a \in Nodes : d[<<a, a>>] = 0
      /\ Inf \in Nat /\ 0 \in 0 .. Inf /\ Inf \in 0 .. Inf
  BY InfAssumption DEF GoesUp, MetricOn
<1>2. PICK s \in Nodes, t \in Nodes : q = <<s, t>>
  OBVIOUS
<1>3. \A side \in Sides : q[IF side = "fw" THEN 1 ELSE 2] = StartOf(q, side) /\ StartOf(q, side) \in Nodes
  BY <1>2 DEF StartOf
<1>4. PICK ds, op, pr :
          /\ ds = [side \in Sides |-> [x \in Nodes |-> IF x = q[IF side = "fw" THEN 1 ELSE 2] THEN 0 ELSE Inf]]
          /\ op = [side \in Sides |-> {q[IF side = "fw" THEN 1 ELSE 2]}] /\ pr = [side \in Sides |-> 0]
  OBVIOUS
<1>5. /\ \A side \in Sides : ds[side] = [x \in Nodes |-> IF x = StartOf(q, side) THEN 0 ELSE Inf]
      /\ \A side \in Sides : op[side] = {StartOf(q, side)} /\ pr[side] = 0
  BY <1>3, <1>4
<1>6. \A side \in Sides : \A x \in Nodes : ds[side][x] = IF x = StartOf(q, side) THEN 0 ELSE Inf
  <2> SUFFICES ASSUME NEW side \in Sides, NEW x \in Nodes PROVE ds[side][x] = IF x = StartOf(q, side) THEN 0 ELSE Inf
    OBVIOUS
  <2>1. PICK f : f = ds[side]
    OBVIOUS
  <2>2. f = [y \in Nodes |-> IF y = StartOf(q, side) THEN 0 ELSE Inf]
    BY <1>5, <2>1
  <2> QED BY <2>1, <2>2
<1>7. ds \in [Sides -> [Nodes -> 0 .. Inf]] /\ op \in [Sides -> SUBSET Nodes] /\ pr \in [Sides -> 0 .. Inf]
  BY <1>1, <1>3, <1>4
<1>8. \A side \in Sides : ds[side][StartOf(q, side)] = 0
  BY <1>3, <1>6
<1>9. \A side \in Sides : \A x \in Nodes : ExactFrom(d, q, side, x) <= ds[side][x]
  <2> SUFFICES ASSUME NEW side \in Sides, NEW x \in Nodes PROVE ExactFrom(d, q, side, x) <= ds[side][x]
    OBVIOUS
  <2>1. q[1] = s /\ q[2] = t
    BY <1>2
  <2>2. ExactFrom(d, q, side, x) \in Nat /\ ExactFrom(d, q, side, x) <= Inf
    BY <1>1, <2>1 DEF ExactFrom
  <2>3. CASE x = StartOf(q, side)
    <3>1. CASE side = "fw"
      BY <1>1, <1>6, <2>1, <2>3, <3>1 DEF ExactFrom, StartOf
    <3>2. CASE side = "bw"
      <4>1. x = t /\ ExactFrom(d, q, side, x) = d[<<x, t>>]
        BY <2>1, <2>3, <3>2, SidesAre DEF ExactFrom, StartOf
      <4> QED BY <1>1, <1>6, <2>3, <4>1
    <3> QED BY <3>1, <3>2, SidesAre
  <2>4. CASE x # StartOf(q, side)
    BY <1>6, <2>2, <2>4
  <2> QED BY <2>3, <2>4
<1>10. \A side \in Sides : \A x, y \in Nodes : x \notin op[side] =>
           \A w \in UpWeights(out, in, side, x, y) : ds[side][y] <= ds[side][x] + w
  <2> SUFFICES ASSUME NEW side \in Sides, NEW x \in Nodes, NEW y \in Nodes, x \notin op[side],
                      NEW w \in UpWeights(out, in, side, x, y)
               PROVE  ds[side][y] <= ds[side][x] + w
    OBVIOUS
  <2>1. ds[side][x] = Inf
    BY <1>5, <1>6
  <2>2. w \in Nat
    BY DEF GoesUp
  <2>3. ds[side][y] = 0 \/ ds[side][y] = Inf
    BY <1>6
  <2> QED BY <1>1, <2>1, <2>2, <2>3
<1>11. \A x \in Nodes : x \notin op["fw"] /\ x \notin op["bw"] => Inf <= ds["fw"][x] + ds["bw"][x]
  <2> SUFFICES ASSUME NEW x \in Nodes, x \notin op["fw"], x \notin op["bw"] PROVE Inf <= ds["fw"][x] + ds["bw"][x]
    OBVIOUS
  <2>1. ds["fw"][x] = Inf /\ ds["bw"][x] = Inf
    BY <1>5, <1>6, SidesAre
  <2> QED BY <1>1, <2>1
<1>12. \A side \in Sides : \A x \in op[side] : pr[side] <= ds[side][x]
  BY <1>5, <1>8
<1>13. d[q] <= Inf
  BY <1>1, <1>2
<1>14. SearchOK(d, out, in, q, ds, op, pr, Inf, {})
  BY <1>1, <1>7, <1>8, <1>9, <1>10, <1>11, <1>12, <1>13 DEF SearchOK
<1> QED BY <1>4, <1>14, Zenon

(* ... and when a side runs empty.                                         *)
LEMMA EmptyRunKeeps ==
    ASSUME NEW d, NEW out, NEW in, NEW q, NEW ds, NEW op, NEW pr, NEW bs, NEW dn,
           SearchOK(d, out, in, q, ds, op, pr, bs, dn), NEW T \in Sides, op[T] = {}
    PROVE  SearchOK(d, out, in, q, ds, op, pr, bs, dn \cup {T})
BY DEF SearchOK

(* The side whose turn it is is not done.                                  *)
TurnOf(pr, dn) == IF "bw" \in dn \/ (pr["fw"] <= pr["bw"] /\ "fw" \notin dn) THEN "fw" ELSE "bw"

(* It is the turn of a side that goes on.                                  *)
LEMMA TurnIsNotDone ==
    ASSUME NEW pr, NEW dn \in SUBSET Sides, dn # Sides
    PROVE  TurnOf(pr, dn) \in Sides /\ TurnOf(pr, dn) \notin dn
<1>1. ~ ("fw" \in dn /\ "bw" \in dn)
  BY SidesAre
<1> QED BY <1>1, SidesAre DEF TurnOf

(* Least, of any distances and any queue.                                  *)
LeastOf(f, queue) == Lowest({x \in queue : \A y \in queue : f[x] <= f[y]})

(* It is in the queue, and none is closer.                                 *)
LEMMA LeastOfFacts ==
    ASSUME NEW f \in [Nodes -> 0 .. Inf], NEW queue \in SUBSET Nodes, queue # {}
    PROVE  LeastOf(f, queue) \in queue /\ \A y \in queue : f[LeastOf(f, queue)] <= f[y]
<1>1. Nodes \subseteq Nat /\ \A x \in Nodes : f[x] \in Nat
  BY NAssumption, InfAssumption DEF Nodes
<1>2. PICK S : S = {x \in queue : \A y \in queue : f[x] <= f[y]}
  OBVIOUS
<1>3. S \in SUBSET Nat
  BY <1>1, <1>2
<1>4. S # {}
  <2> DEFINE V == {n \in Nat : \E x \in queue : f[x] = n}
  <2>1. PICK x \in queue : TRUE
    OBVIOUS
  <2>2. f[x] \in V
    BY <1>1, <2>1
  <2>3. V \in SUBSET Nat
    OBVIOUS
  <2>4. PICK n \in V : \A k \in V : n <= k
    <3> HIDE DEF V
    <3> QED BY <2>2, <2>3, LeastElement
  <2>5. PICK z \in queue : f[z] = n
    OBVIOUS
  <2>6. \A y \in queue : f[z] <= f[y]
    BY <1>1, <2>4, <2>5
  <2> QED BY <1>2, <2>5, <2>6
<1>5. Lowest(S) \in S
  BY <1>3, <1>4, LowestIsLeast
<1>6. Lowest(S) = LeastOf(f, queue)
  BY <1>2, Zenon DEF LeastOf
<1> QED BY <1>2, <1>5, <1>6

(* What relaxing the links of a node leaves at their ends.                 *)
IsRelaxed(h, f, dx, W) ==
    /\ h \in Nat /\ h <= f
    /\ \A w \in W : h <= dx + w
    /\ h = f \/ \E w \in W : h = dx + w

(* A relaxed distance is the least of the old one and those over the       *)
(* links.                                                                  *)
LEMMA RelaxedFacts ==
    ASSUME NEW f \in Nat, NEW dx \in Nat, NEW W \in SUBSET Nat
    PROVE  IsRelaxed(Lowest({f} \cup {dx + w : w \in W}), f, dx, W)
<1>1. PICK S : S = {f} \cup {dx + w : w \in W}
  OBVIOUS
<1>2. S \in SUBSET Nat /\ S # {} /\ f \in S /\ \A w \in W : dx + w \in S
  BY <1>1
<1>3. Lowest(S) \in S /\ \A k \in S : Lowest(S) <= k
  BY <1>2, LowestIsLeast
<1>4. IsRelaxed(Lowest(S), f, dx, W)
  BY <1>1, <1>2, <1>3 DEF IsRelaxed
<1> QED BY <1>1, <1>4, Zenon

(* The inductive invariant of queries: they run on a hierarchy that is     *)
(* complete, with the invariant of the search, and answers are distances.  *)
AnswersOK(d, out, in, low, prs, pan, ph, q, ds, op, pr, bs, dn) ==
    /\ ph \in {"contracting", "searching", "answered"}
    /\ ph # "contracting" => low = N /\ prs = <<>> /\ pan = FALSE /\ q \in Nodes \X Nodes
    /\ ph = "searching" => SearchOK(d, out, in, q, ds, op, pr, bs, dn)
    /\ ph = "answered" => bs = d[q]

(* The same, of the variables.                                             *)
SearchInv ==
    AnswersOK(network.dist, outgoing, incoming, lowest, pairs, panicked, phase, query, dist, open, progress, best, done)

(* A complete hierarchy goes up.                                           *)
LEMMA MetricGoesUp ==
    ASSUME NEW m, NEW d, NEW out, NEW in, ContractionOK(m, d, out, in, N, <<>>, FALSE)
    PROVE  GoesUp(d, out, in)
<1>1. m \in ArcSets /\ d = Distances(m) /\ ListsOK(out, in, <<>>) /\ Contracts(d, out, in, N, <<>>)
  BY MetricsAssumption DEF ContractionOK, Metric, Weight, ArcSets
<1>2. Spanned(Nodes, m, Distances(m))
  BY <1>1, DistancesAreSpanned, Zenon
<1>3. Spanned(Nodes, m, d)
  BY <1>1, <1>2, Zenon
<1>4. MetricOn(Nodes, d)
  BY <1>3 DEF Spanned
<1> QED BY <1>1, <1>4, HierarchyGoesUp, Zenon

(* The goal of a side is where the other one starts.                       *)
LEMMA GoalIsOtherStart ==
    ASSUME NEW T \in Sides, NEW q
    PROVE  q[IF T = "fw" THEN 2 ELSE 1] = StartOf(q, Other(T))
BY SidesAre DEF StartOf, Other

(* Reached, in terms of the weights of links.                              *)
LEMMA ReachedIs ==
    ASSUME NEW T \in Sides, NEW x \in Nodes, NEW y \in Nodes
    PROVE  Reached(T, x, y) = Lowest({dist[T][y]} \cup {dist[T][x] + w : w \in UpWeights(outgoing, incoming, T, x, y)})
<1>1. UpWeights(outgoing, incoming, T, x, y) = {link.weight : link \in {l \in UpwardLinks(T, x) : l.node = y}}
  BY Zenon DEF UpWeights, UpwardLinks, WeightsTo
<1>2. PICK L, W : L = {l \in UpwardLinks(T, x) : l.node = y} /\ W = UpWeights(outgoing, incoming, T, x, y)
  OBVIOUS
<1>3. W = {link.weight : link \in L}
  BY <1>1, <1>2, Zenon
<1>4. {dist[T][x] + link.weight : link \in L} = {dist[T][x] + w : w \in W}
  BY <1>3
<1> QED BY <1>2, <1>4, Zenon DEF Reached

(* Reached at all nodes, at once.                                          *)
AllRelaxed(h, f, out, in, T, x) ==
    /\ h \in [Nodes -> 0 .. Inf]
    /\ \A y \in Nodes : IsRelaxed(h[y], f[y], f[x], UpWeights(out, in, T, x, y))

(* Reached relaxes all links of the settled node.                          *)
LEMMA ReachedRelaxed ==
    ASSUME NEW d, NEW q, NEW op, NEW pr, NEW bs, NEW dn, GoesUp(d, outgoing, incoming),
           SearchOK(d, outgoing, incoming, q, dist, op, pr, bs, dn), NEW T \in Sides, NEW x \in Nodes
    PROVE  AllRelaxed([y \in Nodes |-> Reached(T, x, y)], dist[T], outgoing, incoming, T, x)
<1>1. PICK f : f = dist[T]
  OBVIOUS
<1>2. f \in [Nodes -> 0 .. Inf] /\ Inf \in Nat
  BY <1>1, InfAssumption DEF SearchOK
<1>3. \A y \in Nodes : f[y] \in Nat /\ f[y] <= Inf
  BY <1>2
<1>4. ASSUME NEW y \in Nodes
      PROVE  IsRelaxed(Reached(T, x, y), f[y], f[x], UpWeights(outgoing, incoming, T, x, y))
  <2>1. PICK W : W = UpWeights(outgoing, incoming, T, x, y)
    OBVIOUS
  <2>2. W \in SUBSET Nat
    BY <2>1 DEF GoesUp
  <2>3. IsRelaxed(Lowest({f[y]} \cup {f[x] + w : w \in W}), f[y], f[x], W)
    BY <1>3, <2>2, RelaxedFacts
  <2>4. Reached(T, x, y) = Lowest({f[y]} \cup {f[x] + w : w \in W})
    <3>1. Reached(T, x, y) = Lowest({dist[T][y]} \cup {dist[T][x] + w : w \in UpWeights(outgoing, incoming, T, x, y)})
      BY ReachedIs, Zenon
    <3>2. PICK V : V = {dist[T][x] + w : w \in UpWeights(outgoing, incoming, T, x, y)}
      OBVIOUS
    <3>3. V = {f[x] + w : w \in W}
      BY <1>1, <2>1, <3>2
    <3>4. Reached(T, x, y) = Lowest({f[y]} \cup V)
      BY <1>1, <3>1, <3>2, Zenon
    <3> QED BY <3>3, <3>4, Zenon
  <2> QED BY <2>1, <2>3, <2>4, Zenon
<1>5. \A y \in Nodes : Reached(T, x, y) \in 0 .. Inf
  <2> SUFFICES ASSUME NEW y \in Nodes PROVE Reached(T, x, y) \in 0 .. Inf
    OBVIOUS
  <2>1. Reached(T, x, y) \in Nat /\ Reached(T, x, y) <= f[y]
    BY <1>4 DEF IsRelaxed
  <2> QED BY <1>2, <1>3, <2>1
<1>6. PICK h : h = [y \in Nodes |-> Reached(T, x, y)]
  OBVIOUS
<1>7. h \in [Nodes -> 0 .. Inf] /\ \A y \in Nodes : h[y] = Reached(T, x, y)
  BY <1>5, <1>6, Zenon
<1>8. \A y \in Nodes : IsRelaxed(h[y], f[y], f[x], UpWeights(outgoing, incoming, T, x, y))
  BY <1>4, <1>7, Zenon
<1> QED BY <1>1, <1>6, <1>7, <1>8, Zenon DEF AllRelaxed

(* What a step does, in terms of the state before it.                      *)
AreSettled(h, q, T, x, ds, op, pr, bs, dn, ds2, op2, pr2, bs2, dn2) ==
    /\ ds2 = [ds EXCEPT ![T] = h]
    /\ op2 = [op EXCEPT ![T] = (op[T] \ {x}) \cup {y \in Nodes : h[y] < ds[T][y]}]
    /\ pr2 = [pr EXCEPT ![T] = ds[T][x]]
    /\ bs2 = Lowest({bs, ds[T][x] + ds[Other(T)][x]})
    /\ dn2 = IF x = StartOf(q, Other(T)) THEN dn \cup {T} ELSE dn

(* A step that relaxes the links of the closest node settles it.           *)
LEMMA SettlesByReached ==
    ASSUME NEW d, NEW out, NEW in, NEW q, NEW ds, NEW op, NEW pr, NEW bs, NEW dn,
           SearchOK(d, out, in, q, ds, op, pr, bs, dn), NEW T \in Sides, NEW x \in op[T],
           NEW h, AllRelaxed(h, ds[T], out, in, T, x),
           NEW ds2, NEW op2, NEW pr2, NEW bs2, NEW dn2, AreSettled(h, q, T, x, ds, op, pr, bs, dn, ds2, op2, pr2, bs2, dn2)
    PROVE  Settles(out, in, q, T, x, ds, op, pr, bs, dn, ds2, op2, pr2, bs2, dn2)
<1>1. PICK O : O = Other(T)
  OBVIOUS
<1>2. O \in Sides /\ O # T /\ \A side \in Sides : side = T \/ side = O
  BY <1>1, OtherFacts
<1>3. /\ ds \in [Sides -> [Nodes -> 0 .. Inf]] /\ op \in [Sides -> SUBSET Nodes] /\ pr \in [Sides -> 0 .. Inf]
      /\ bs \in 0 .. Inf /\ dn \subseteq Sides
  BY DEF SearchOK
<1>4. /\ h \in [Nodes -> 0 .. Inf]
      /\ \A y \in Nodes : IsRelaxed(h[y], ds[T][y], ds[T][x], UpWeights(out, in, T, x, y))
  BY DEF AllRelaxed
<1>5. PICK more : more = {y \in Nodes : h[y] < ds[T][y]}
  OBVIOUS
<1>6. /\ ds2 = [ds EXCEPT ![T] = h] /\ op2 = [op EXCEPT ![T] = (op[T] \ {x}) \cup more]
      /\ pr2 = [pr EXCEPT ![T] = ds[T][x]] /\ more \subseteq Nodes
      /\ bs2 = Lowest({bs, ds[T][x] + ds[O][x]})
      /\ dn2 = IF x = StartOf(q, O) THEN dn \cup {T} ELSE dn
  BY <1>1, <1>5 DEF AreSettled
<1>7. x \in Nodes /\ op[T] \subseteq Nodes
  BY <1>3
<1>8. ds[T][x] \in 0 .. Inf /\ ds[O][x] \in 0 .. Inf
  BY <1>2, <1>3, <1>7
<1>9. ds2 \in [Sides -> [Nodes -> 0 .. Inf]] /\ ds2[T] = h /\ ds2[O] = ds[O]
  BY <1>2, <1>3, <1>4, <1>6
<1>10. op2 \in [Sides -> SUBSET Nodes] /\ op2[T] = (op[T] \ {x}) \cup more /\ op2[O] = op[O]
  BY <1>2, <1>3, <1>6, <1>7
<1>11. pr2 \in [Sides -> 0 .. Inf] /\ pr2[T] = ds[T][x] /\ pr2[O] = pr[O]
  BY <1>2, <1>3, <1>6, <1>8
<1>12. bs2 \in Nat /\ bs2 <= bs /\ bs2 <= ds[T][x] + ds[O][x] /\ (bs2 = bs \/ bs2 = ds[T][x] + ds[O][x])
  <2>1. PICK S : S = {bs, ds[T][x] + ds[O][x]}
    OBVIOUS
  <2>2. Inf \in Nat
    BY InfAssumption
  <2>3. S \in SUBSET Nat /\ S # {}
    BY <1>3, <1>8, <2>1, <2>2
  <2>4. Lowest(S) \in S /\ \A k \in S : Lowest(S) <= k
    BY <2>3, LowestIsLeast
  <2>5. bs2 = Lowest(S)
    BY <1>6, <2>1, Zenon
  <2> QED BY <2>1, <2>3, <2>4, <2>5
<1>13. \A y \in Nodes : /\ h[y] <= ds[T][y]
                        /\ \A w \in UpWeights(out, in, T, x, y) : h[y] <= ds[T][x] + w
                        /\ h[y] = ds[T][y] \/ \E w \in UpWeights(out, in, T, x, y) : h[y] = ds[T][x] + w
  BY <1>4, Zenon DEF IsRelaxed
<1>14. /\ \A y \in Nodes : /\ ds2[T][y] <= ds[T][y]
                           /\ \A w \in UpWeights(out, in, T, x, y) : ds2[T][y] <= ds[T][x] + w
                           /\ ds2[T][y] = ds[T][y] \/ \E w \in UpWeights(out, in, T, x, y) : ds2[T][y] = ds[T][x] + w
       /\ op2[T] = (op[T] \ {x}) \cup {y \in Nodes : ds2[T][y] < ds[T][y]}
  BY <1>5, <1>9, <1>10, <1>13, Zenon
<1> QED BY <1>1, <1>6, <1>9, <1>10, <1>11, <1>12, <1>14, Zenon DEF Settles

(* SettleNext is such a step.                                              *)
LEMMA StepSettles ==
    ASSUME NEW d, GoesUp(d, outgoing, incoming), query \in Nodes \X Nodes,
           SearchOK(d, outgoing, incoming, query, dist, open, progress, best, done),
           SettleNext
    PROVE  SearchOK(d, outgoing, incoming, query, dist', open', progress', best', done')
<1>1. PICK out, in, q, ds, op, pr, bs, dn :
          /\ out = outgoing /\ in = incoming /\ q = query /\ ds = dist /\ op = open /\ pr = progress
          /\ bs = best /\ dn = done
  OBVIOUS
<1>2. PICK ds2, op2, pr2, bs2, dn2 : /\ ds2 = dist' /\ op2 = open' /\ pr2 = progress' /\ bs2 = best' /\ dn2 = done'
  OBVIOUS
<1>3. PICK T : T = TurnOf(pr, dn)
  OBVIOUS
<1>4. Turn = T
  BY <1>1, <1>3, Zenon DEF Turn, TurnOf
<1>5. SearchOK(d, out, in, q, ds, op, pr, bs, dn) /\ GoesUp(d, out, in) /\ q \in Nodes \X Nodes
  BY <1>1, Zenon
<1>6. T \in Sides /\ T \notin dn
  <2>1. dn # Sides
    BY <1>1, Zenon DEF SettleNext, GoesOn
  <2>2. dn \in SUBSET Sides
    BY <1>5 DEF SearchOK
  <2> QED BY <1>3, <2>1, <2>2, TurnIsNotDone
<1>7. ds[T] \in [Nodes -> 0 .. Inf] /\ op[T] \in SUBSET Nodes
  BY <1>5, <1>6 DEF SearchOK
<1>8. op[T] # {}
  BY <1>1, <1>4, Zenon DEF SettleNext
<1>9. PICK x : x = LeastOf(ds[T], op[T])
  OBVIOUS
<1>10. x \in op[T] /\ \A y \in op[T] : ds[T][x] <= ds[T][y]
  <2>1. LeastOf(ds[T], op[T]) \in op[T] /\ \A y \in op[T] : ds[T][LeastOf(ds[T], op[T])] <= ds[T][y]
    BY <1>7, <1>8, LeastOfFacts
  <2> QED BY <1>9, <2>1, Zenon
<1>11. Least(Turn) = x
  BY <1>1, <1>4, <1>9, Zenon DEF Least, LeastOf
<1>12. PICK h : h = [y \in Nodes |-> Reached(T, x, y)]
  OBVIOUS
<1>13. AllRelaxed(h, ds[T], out, in, T, x)
  <2>1. x \in Nodes
    BY <1>7, <1>10
  <2>2. AllRelaxed([y \in Nodes |-> Reached(T, x, y)], dist[T], outgoing, incoming, T, x)
    BY <1>6, <2>1, ReachedRelaxed, Zenon
  <2> QED BY <1>1, <1>12, <2>2, Zenon
<1>14. \A y \in Nodes : h[y] = Reached(T, x, y)
  BY <1>12, Zenon
<1>15. AreSettled(h, q, T, x, ds, op, pr, bs, dn, ds2, op2, pr2, bs2, dn2)
  <2>1. /\ dist' = [dist EXCEPT ![T] = [y \in Nodes |-> Reached(T, x, y)]]
        /\ open' = [open EXCEPT ![T] = (@ \ {x}) \cup {y \in Nodes : Reached(T, x, y) < dist[T][y]}]
        /\ progress' = [progress EXCEPT ![T] = dist[T][x]]
        /\ best' = Lowest({best, dist[T][x] + dist[Other(T)][x]})
        /\ done' = IF x = Goal(T) THEN done \cup {T} ELSE done
    BY <1>4, <1>11 DEF SettleNext
  <2>2. Goal(T) = StartOf(query, Other(T))
    BY <1>6, GoalIsOtherStart, Zenon DEF Goal
  <2>3. {y \in Nodes : Reached(T, x, y) < dist[T][y]} = {y \in Nodes : h[y] < ds[T][y]}
    BY <1>1, <1>14, Zenon
  <2>4. open' = [open EXCEPT ![T] = (open[T] \ {x}) \cup {y \in Nodes : Reached(T, x, y) < dist[T][y]}]
    BY <2>1, Zenon
  <2> QED BY <1>1, <1>2, <1>12, <2>1, <2>2, <2>3, <2>4, Zenon DEF AreSettled
<1>16. Settles(out, in, q, T, x, ds, op, pr, bs, dn, ds2, op2, pr2, bs2, dn2)
  BY <1>5, <1>6, <1>10, <1>13, <1>15, SettlesByReached, Zenon
<1>17. SearchOK(d, out, in, q, ds2, op2, pr2, bs2, dn2)
  BY <1>5, <1>6, <1>10, <1>16, SettleKeeps, Zenon
<1> QED BY <1>1, <1>2, <1>17, Zenon

(* The invariant of queries holds at first ...                             *)
LEMMA SearchInvStarts == ASSUME NEW m \in Metrics, InitHierarchy(m) PROVE SearchInv
<1>1. phase = "contracting"
  BY DEF InitHierarchy
<1> QED BY <1>1 DEF SearchInv, AnswersOK

(* ... and after every step. The loop ends when no side can find a better  *)
(* node, or both are done.                                                 *)
LEMMA SearchInvKept == ContractionInv /\ SearchInv /\ [NextOfHierarchy]_hierarchyVars => SearchInv'
<1> SUFFICES ASSUME ContractionInv, SearchInv, [NextOfHierarchy]_hierarchyVars PROVE SearchInv'
  OBVIOUS
<1>1. PICK d, out, in, q, ds, op, pr, bs, dn, ph :
          /\ d = network.dist /\ out = outgoing /\ in = incoming /\ q = query /\ ds = dist /\ op = open /\ pr = progress
          /\ bs = best /\ dn = done /\ ph = phase
  OBVIOUS
<1>2. AnswersOK(d, out, in, lowest, pairs, panicked, ph, q, ds, op, pr, bs, dn)
  BY <1>1, Zenon DEF SearchInv
<1>3. ASSUME lowest = N, pairs = <<>>, panicked = FALSE PROVE GoesUp(d, out, in)
  <2>1. ContractionOK(network.arcs, d, out, in, N, <<>>, FALSE)
    BY <1>1, <1>3, Zenon DEF ContractionInv
  <2> QED BY <2>1, MetricGoesUp, Zenon
<1>4. panicked \in BOOLEAN
  BY DEF ContractionInv, ContractionOK
<1>5. ASSUME ph = "searching" PROVE GoesUp(d, out, in) /\ q \in Nodes \X Nodes /\ SearchOK(d, out, in, q, ds, op, pr, bs, dn)
  <2>1. lowest = N /\ pairs = <<>> /\ panicked = FALSE /\ q \in Nodes \X Nodes /\ SearchOK(d, out, in, q, ds, op, pr, bs, dn)
    BY <1>2, <1>5 DEF AnswersOK
  <2> QED BY <1>3, <2>1, Zenon
<1>6. ASSUME UNCHANGED <<network, contractionVars>> PROVE network' = network /\ network'.dist = d /\ outgoing' = out /\ incoming' = in
             /\ lowest' = lowest /\ pairs' = pairs /\ panicked' = panicked
  BY <1>1, <1>6, Zenon DEF contractionVars
<1>7. ASSUME UNCHANGED searchVars PROVE phase' = ph /\ query' = q /\ dist' = ds /\ open' = op /\ progress' = pr /\ best' = bs /\ done' = dn
  BY <1>1, <1>7, Zenon DEF searchVars
<1>8. CASE RemoveLowest
  <2>1. lowest < N /\ UNCHANGED searchVars
    BY <1>8 DEF RemoveLowest
  <2>2. ph = "contracting"
    <3>1. lowest # N
      BY <2>1, NAssumption
    <3> QED BY <1>2, <3>1 DEF AnswersOK
  <2>3. phase' = "contracting"
    BY <1>7, <2>1, <2>2, Zenon
  <2> QED BY <2>3 DEF SearchInv, AnswersOK
<1>9. CASE ConnectPair
  <2>1. pairs # <<>> /\ UNCHANGED searchVars
    BY <1>9 DEF ConnectPair
  <2>2. ph = "contracting"
    BY <1>2, <2>1 DEF AnswersOK
  <2>3. phase' = "contracting"
    BY <1>7, <2>1, <2>2, Zenon
  <2> QED BY <2>3 DEF SearchInv, AnswersOK
<1>10. CASE Query
  <2>1. /\ lowest = N /\ pairs = <<>> /\ panicked = FALSE /\ phase' = "searching" /\ query' \in Nodes \X Nodes
        /\ UNCHANGED <<network, contractionVars>>
    BY <1>4, <1>10 DEF Query
  <2>2. PICK r : r = query'
    OBVIOUS
  <2>3. /\ dist' = [side \in Sides |-> [x \in Nodes |-> IF x = r[IF side = "fw" THEN 1 ELSE 2] THEN 0 ELSE Inf]]
        /\ open' = [side \in Sides |-> {r[IF side = "fw" THEN 1 ELSE 2]}]
        /\ progress' = [side \in Sides |-> 0] /\ best' = Inf /\ done' = {}
    BY <1>10, <2>2, Zenon DEF Query
  <2>4. GoesUp(d, out, in) /\ r \in Nodes \X Nodes
    BY <1>3, <2>1, <2>2, Zenon
  <2>5. PICK ds2, op2, pr2 :
            /\ ds2 = [side \in Sides |-> [x \in Nodes |-> IF x = r[IF side = "fw" THEN 1 ELSE 2] THEN 0 ELSE Inf]]
            /\ op2 = [side \in Sides |-> {r[IF side = "fw" THEN 1 ELSE 2]}] /\ pr2 = [side \in Sides |-> 0]
    OBVIOUS
  <2>6. SearchOK(d, out, in, r, ds2, op2, pr2, Inf, {})
    BY <2>4, <2>5, SearchStarts, Zenon
  <2>7. dist' = ds2 /\ open' = op2 /\ progress' = pr2
    BY <2>3, <2>5, Zenon
  <2>8. AnswersOK(d, out, in, N, <<>>, FALSE, "searching", r, ds2, op2, pr2, Inf, {})
    BY <2>4, <2>6 DEF AnswersOK
  <2> QED BY <1>6, <2>1, <2>2, <2>3, <2>7, <2>8, Zenon DEF SearchInv
<1>11. ASSUME ph = "searching", UNCHANGED <<network, contractionVars>>, query' = q, phase' = "searching",
              SearchOK(d, out, in, q, dist', open', progress', best', done')
       PROVE  SearchInv'
  <2>1. lowest = N /\ pairs = <<>> /\ panicked = FALSE /\ q \in Nodes \X Nodes
    BY <1>2, <1>11 DEF AnswersOK
  <2>2. PICK ds2, op2, pr2, bs2, dn2 : /\ ds2 = dist' /\ op2 = open' /\ pr2 = progress' /\ bs2 = best' /\ dn2 = done'
    OBVIOUS
  <2>3. SearchOK(d, out, in, q, ds2, op2, pr2, bs2, dn2)
    BY <1>11, <2>2, Zenon
  <2>4. AnswersOK(d, out, in, N, <<>>, FALSE, "searching", q, ds2, op2, pr2, bs2, dn2)
    BY <2>1, <2>3 DEF AnswersOK
  <2> QED BY <1>6, <1>11, <2>1, <2>2, <2>4, Zenon DEF SearchInv
<1>12. CASE SettleNext
  <2>1. ph = "searching" /\ UNCHANGED <<network, contractionVars>> /\ query' = q /\ phase' = "searching"
    BY <1>1, <1>12, Zenon DEF SettleNext
  <2>2. /\ GoesUp(d, outgoing, incoming) /\ query \in Nodes \X Nodes
        /\ SearchOK(d, outgoing, incoming, query, dist, open, progress, best, done)
    BY <1>1, <1>5, <2>1, Zenon
  <2>3. SearchOK(d, outgoing, incoming, query, dist', open', progress', best', done')
    BY <1>12, <2>2, StepSettles
  <2>4. SearchOK(d, out, in, q, dist', open', progress', best', done')
    BY <1>1, <2>3, Zenon
  <2> QED BY <1>11, <2>1, <2>4
<1>13. CASE RunsEmpty
  <2>1. PICK T : T = TurnOf(pr, dn)
    OBVIOUS
  <2>2. /\ ph = "searching" /\ UNCHANGED <<network, contractionVars>> /\ query' = q /\ phase' = "searching"
        /\ Turn = T /\ dn # Sides /\ op[T] = {}
        /\ dist' = ds /\ open' = op /\ progress' = pr /\ best' = bs /\ done' = dn \cup {T}
    BY <1>1, <1>13, <2>1, Zenon DEF RunsEmpty, GoesOn, Turn, TurnOf
  <2>3. SearchOK(d, out, in, q, ds, op, pr, bs, dn)
    BY <1>5, <2>2
  <2>4. T \in Sides
    <3>1. dn \in SUBSET Sides
      BY <2>3 DEF SearchOK
    <3> QED BY <2>1, <2>2, <3>1, TurnIsNotDone
  <2>5. SearchOK(d, out, in, q, ds, op, pr, bs, dn \cup {T})
    BY <2>2, <2>3, <2>4, EmptyRunKeeps, Zenon
  <2>6. SearchOK(d, out, in, q, dist', open', progress', best', done')
    BY <2>2, <2>5, Zenon
  <2> QED BY <1>11, <2>2, <2>6
<1>14. CASE Return
  <2>1. /\ ph = "searching" /\ UNCHANGED <<network, contractionVars>> /\ query' = q /\ phase' = "answered" /\ best' = bs
        /\ ~ ((bs > pr["fw"] \/ bs > pr["bw"]) /\ dn # Sides)
    BY <1>1, <1>14, Zenon DEF Return, GoesOn
  <2>2. GoesUp(d, out, in) /\ q \in Nodes \X Nodes /\ SearchOK(d, out, in, q, ds, op, pr, bs, dn)
    BY <1>5, <2>1
  <2>3. (bs <= pr["fw"] /\ bs <= pr["bw"]) \/ dn = Sides
    <3>1. Inf \in Nat
      BY InfAssumption
    <3>2. pr["fw"] \in Nat /\ pr["bw"] \in Nat /\ bs \in Nat
      BY <2>2, <3>1, SidesAre DEF SearchOK
    <3> QED BY <2>1, <3>2
  <2>4. bs = d[q]
    BY <2>2, <2>3, ResultIsFound
  <2>5. lowest = N /\ pairs = <<>> /\ panicked = FALSE
    BY <1>2, <2>1 DEF AnswersOK
  <2>6. PICK ds2, op2, pr2, dn2 : ds2 = dist' /\ op2 = open' /\ pr2 = progress' /\ dn2 = done'
    OBVIOUS
  <2>7. AnswersOK(d, out, in, N, <<>>, FALSE, "answered", q, ds2, op2, pr2, bs, dn2)
    BY <2>2, <2>4 DEF AnswersOK
  <2> QED BY <1>6, <2>1, <2>5, <2>6, <2>7, Zenon DEF SearchInv
<1>15. CASE UNCHANGED hierarchyVars
  BY <1>15, Zenon DEF hierarchyVars, contractionVars, searchVars, SearchInv
<1> QED BY <1>8, <1>9, <1>10, <1>12, <1>13, <1>14, <1>15, Zenon DEF NextOfHierarchy

(* The property follows from the invariant.                                *)
LEMMA AnswersAreExact == SearchInv => ChAnswersAreDistances
BY DEF SearchInv, AnswersOK, ChAnswersAreDistances

(* ChAnswersAreDistances, for every network: once the loop has ended, the  *)
(* best node found by the two searches gives the distance, though each     *)
(* side ends on its own and its goal ends it early.                        *)
THEOREM ChAnswersAreExact == SpecOfHierarchy => []ChAnswersAreDistances
<1>1. (\E m \in Metrics : InitHierarchy(m)) => ContractionInv /\ SearchInv
  BY ContractionStarts2, SearchInvStarts
<1>2. ContractionInv /\ SearchInv /\ [NextOfHierarchy]_hierarchyVars => (ContractionInv /\ SearchInv)'
  BY ContractionKept, SearchInvKept
<1>3. ContractionInv /\ SearchInv => ChAnswersAreDistances
  BY AnswersAreExact
<1> QED BY <1>1, <1>2, <1>3, PTL DEF SpecOfHierarchy

-----------------------------------------------------------------------------
(* Hub labels: networks with short paths                                   *)

(* No arc and no shortest path is as long as Inf: two that can be put      *)
(* together make one that is shorter than Inf. Labels add up without a     *)
(* bound, in u32, and where INFINITY is exceeded there is no distance to   *)
(* compare them with.                                                      *)
ShortPaths(m, d) ==
    /\ \A a \in Nodes \X Nodes : \A w \in m[a] : w < Inf
    /\ \A x \in Nodes : d[<<x, x>>] < Inf
    /\ \A x, y, z \in Nodes : d[<<x, y>>] < Inf /\ d[<<y, z>>] < Inf => d[<<x, z>>] < Inf

(* Links lead to nodes that can be reached.                                *)
Reaches(lists, e) == \A x, y \in Nodes : WeightsTo(lists[x], y) # {} => e[<<x, y>>] < Inf

(* Every link and every pair joins a node to one that it can reach.        *)
LinksReach(d, out, in, prs) ==
    /\ Reaches(out, d) /\ Reaches(in, Flip(d))
    /\ \A p \in ToSet(prs) : d[<<p[1].node, p[2].node>>] < Inf

(* An invariant of contraction, of networks with short paths.              *)
ReachOK(m, d, out, in, prs, pan) == ShortPaths(m, d) /\ pan = FALSE => LinksReach(d, out, in, prs)

(* The same, of the variables.                                             *)
ReachInv == ReachOK(network.arcs, network.dist, outgoing, incoming, pairs, panicked)

(* It holds of arcs, ...                                                   *)
LEMMA ArcsReach ==
    ASSUME NEW m \in ArcSets, NEW d, Under(Nodes, d, m), MetricOn(Nodes, d), \A a \in Nodes \X Nodes : \A w \in m[a] : w < Inf,
           NEW out, AreLinks(out, m)
    PROVE  Reaches(out, d)
<1> SUFFICES ASSUME NEW x \in Nodes, NEW y \in Nodes, WeightsTo(out[x], y) # {} PROVE d[<<x, y>>] < Inf
  BY DEF Reaches
<1>1. x # y /\ WeightsTo(out[x], y) = m[<<x, y>>]
  BY DEF AreLinks
<1>2. PICK w \in m[<<x, y>>] : TRUE
  BY <1>1
<1>3. w \in Nat /\ w < Inf /\ d[<<x, y>>] <= w /\ d[<<x, y>>] \in Nat /\ Inf \in Nat
  <2>1. m[<<x, y>>] \in SUBSET (0 .. Inf) /\ <<x, y>> \in Nodes \X Nodes
    BY DEF ArcSets
  <2>2. w \in 0 .. Inf /\ w < Inf
    BY <2>1
  <2>3. d[<<x, y>>] <= w
    BY DEF Under
  <2>4. d[<<x, y>>] \in Nat
    BY DEF MetricOn
  <2> QED BY <2>2, <2>3, <2>4, InfAssumption
<1> QED BY <1>3

(* ... of lists without the links to a removed node, ...                   *)
LEMMA DroppedReach ==
    ASSUME NEW e, NEW lists \in [Nodes -> Seq(Links)], Reaches(lists, e), NEW list \in Seq(Links), NEW x,
           NEW r, IsDropped(r, lists, list, x)
    PROVE  Reaches(r, e)
<1> SUFFICES ASSUME NEW y \in Nodes, NEW z \in Nodes, WeightsTo(r[y], z) # {} PROVE WeightsTo(lists[y], z) # {}
  BY DEF Reaches
<1>1. r[y] \in Seq(Links) /\ lists[y] \in Seq(Links)
  BY DEF IsDropped
<1>2. CASE z # x
  BY <1>2 DEF IsDropped
<1>3. CASE z = x
  <2>1. Count(r[y], z) # 0 /\ Count(r[y], z) \in Nat
    BY <1>1, CountFacts
  <2>2. Count(list, y) \in Nat /\ Count(lists[y], z) \in Nat
    BY <1>1, CountFacts
  <2>3. Count(r[y], z) = Count(lists[y], z) - Count(list, y)
    BY <1>3 DEF IsDropped
  <2>4. Count(lists[y], z) # 0
    BY <2>1, <2>2, <2>3
  <2> QED BY <1>1, <2>4, CountFacts
<1> QED BY <1>2, <1>3

(* ... of the pairs of links of a removed node, ...                        *)
LEMMA PairsReach ==
    ASSUME NEW m, NEW d, ShortPaths(m, d), NEW out, NEW in, NEW low \in Nodes, ListsOK(out, in, <<>>),
           Reaches(out, d), Reaches(in, Flip(d)), NEW prs, ArePairs(prs, in[low], out[low]), NEW p \in ToSet(prs)
    PROVE  d[<<p[1].node, p[2].node>>] < Inf
<1>1. PICK i \in 1 .. Len(in[low]), j \in 1 .. Len(out[low]) : p = <<in[low][i], out[low][j]>>
  BY DEF ArePairs
<1>2. in[low] \in Seq(Links) /\ out[low] \in Seq(Links)
  BY DEF ListsOK
<1>3. PICK a, b : a = in[low][i].node /\ b = out[low][j].node
  OBVIOUS
<1>4. a \in Nodes /\ b \in Nodes
  <2>1. in[low][i] \in Links /\ out[low][j] \in Links
    BY <1>2
  <2>2. \A l \in Links : l.node \in Nodes
    BY DEF Links
  <2> QED BY <1>3, <2>1, <2>2, Zenon
<1>5. At(in[low], a) # {} /\ At(out[low], b) # {}
  BY <1>3 DEF At
<1>6. WeightsTo(in[low], a) # {} /\ WeightsTo(out[low], b) # {}
  BY <1>2, <1>5, CountFacts
<1>7. Flip(d)[<<low, a>>] < Inf /\ d[<<low, b>>] < Inf
  BY <1>4, <1>6 DEF Reaches
<1>8. Flip(d)[<<low, a>>] = d[<<a, low>>]
  BY <1>4 DEF Flip
<1>9. d[<<a, b>>] < Inf
  BY <1>4, <1>7, <1>8 DEF ShortPaths
<1>10. p[1].node = a /\ p[2].node = b
  BY <1>1, <1>3
<1> QED BY <1>9, <1>10

(* ... and of a list with a shortcut.                                      *)
LEMMA InsertReaches ==
    ASSUME NEW e, NEW lists, Reaches(lists, e), NEW x \in Nodes, NEW y \in Nodes, e[<<x, y>>] < Inf,
           NEW weight, NEW r, IsInserted(r, lists[x], y, weight), NEW lists2, IsReplaced(lists2, lists, x, r.links)
    PROVE  Reaches(lists2, e)
<1> SUFFICES ASSUME NEW a \in Nodes, NEW b \in Nodes, WeightsTo(lists2[a], b) # {} PROVE e[<<a, b>>] < Inf
  BY DEF Reaches
<1>1. CASE a # x
  BY <1>1 DEF Reaches, IsReplaced
<1>2. CASE a = x /\ b # y
  <2>1. lists2[a] = r.links
    BY <1>2 DEF IsReplaced
  <2>2. WeightsTo(r.links, b) = WeightsTo(lists[x], b)
    BY <1>2 DEF IsInserted
  <2> QED BY <1>2, <2>1, <2>2 DEF Reaches
<1>3. CASE a = x /\ b = y
  BY <1>3
<1> QED BY <1>1, <1>2, <1>3

(* It holds of the network.                                                *)
LEMMA LinksReachAtFirst ==
    ASSUME NEW m \in Metrics
    PROVE  ReachOK(m, Distances(m), [x \in Nodes |-> LinksTo(x, [y \in Nodes |-> m[<<x, y>>]])],
                   [x \in Nodes |-> LinksTo(x, [y \in Nodes |-> m[<<y, x>>]])], <<>>, FALSE)
<1>1. PICK d, out, in : /\ d = Distances(m)
                        /\ out = [x \in Nodes |-> LinksTo(x, [y \in Nodes |-> m[<<x, y>>]])]
                        /\ in = [x \in Nodes |-> LinksTo(x, [y \in Nodes |-> m[<<y, x>>]])]
  OBVIOUS
<1>2. PICK n, e : n = Opposite(m) /\ e = Flip(d)
  OBVIOUS
<1>3. /\ m \in Metric /\ n \in Metric /\ \A x, y \in Nodes : n[<<x, y>>] = m[<<y, x>>]
      /\ \A x, y \in Nodes : e[<<x, y>>] = d[<<y, x>>]
  BY <1>2, MetricsAssumption DEF Opposite, Metric, Flip
<1>4. AreLinks(out, m)
  BY <1>1, <1>3, LinksOfNetwork, Zenon
<1>5. in = [x \in Nodes |-> LinksTo(x, [y \in Nodes |-> n[<<x, y>>]])]
  BY <1>1, <1>3
<1>6. AreLinks(in, n)
  BY <1>3, <1>5, LinksOfNetwork, Zenon
<1>7. m \in ArcSets /\ n \in ArcSets
  BY <1>3 DEF Metric, Weight, ArcSets
<1>8. MetricOn(Nodes, d) /\ Under(Nodes, d, m)
  <2>1. Spanned(Nodes, m, Distances(m))
    BY <1>7, DistancesAreSpanned, Zenon
  <2>2. Spanned(Nodes, m, d)
    BY <1>1, <2>1, Zenon
  <2> QED BY <2>2 DEF Spanned
<1>9. MetricOn(Nodes, e) /\ Under(Nodes, e, n)
  <2>1. MetricOn(Nodes, e)
    <3>1. \A a, b, c \in Nodes : e[<<a, c>>] <= e[<<a, b>>] + e[<<b, c>>]
      <4> SUFFICES ASSUME NEW a \in Nodes, NEW b \in Nodes, NEW c \in Nodes PROVE e[<<a, c>>] <= e[<<a, b>>] + e[<<b, c>>]
        OBVIOUS
      <4>1. d[<<c, a>>] <= d[<<c, b>>] + d[<<b, a>>] /\ d[<<c, b>>] \in Nat /\ d[<<b, a>>] \in Nat
        BY <1>8 DEF MetricOn
      <4>2. e[<<a, c>>] = d[<<c, a>>] /\ e[<<a, b>>] = d[<<b, a>>] /\ e[<<b, c>>] = d[<<c, b>>]
        BY <1>3
      <4> QED BY <4>1, <4>2
    <3>2. \A a, b \in Nodes : e[<<a, b>>] \in Nat /\ e[<<a, b>>] <= Inf /\ e[<<a, a>>] = 0
      BY <1>3, <1>8 DEF MetricOn
    <3> QED BY <3>1, <3>2 DEF MetricOn
  <2>2. Under(Nodes, e, n)
    BY <1>3, <1>8 DEF Under
  <2> QED BY <2>1, <2>2
<1>10. ASSUME ShortPaths(m, d) PROVE LinksReach(d, out, in, <<>>)
  <2>1. \A a \in Nodes \X Nodes : \A w \in m[a] : w < Inf
    BY <1>10 DEF ShortPaths
  <2>2. \A a \in Nodes \X Nodes : \A w \in n[a] : w < Inf
    <3> SUFFICES ASSUME NEW x \in Nodes, NEW y \in Nodes, NEW w \in n[<<x, y>>] PROVE w < Inf
      OBVIOUS
    <3>1. w \in m[<<y, x>>] /\ <<y, x>> \in Nodes \X Nodes
      BY <1>3
    <3> QED BY <2>1, <3>1
  <2>3. Reaches(out, d)
    BY <1>4, <1>7, <1>8, <2>1, ArcsReach, Zenon
  <2>4. Reaches(in, e)
    BY <1>6, <1>7, <1>9, <2>2, ArcsReach, Zenon
  <2>5. Reaches(in, Flip(d))
    BY <1>2, <2>4, Zenon
  <2>6. ToSet(<<>>) = {}
    BY DEF ToSet
  <2> QED BY <2>3, <2>5, <2>6 DEF LinksReach
<1>11. ReachOK(m, d, out, in, <<>>, FALSE)
  BY <1>10 DEF ReachOK
<1> QED BY <1>1, <1>11, Zenon

(* RemoveLowest keeps it.                                                  *)
LEMMA RemoveReaches ==
    ASSUME NEW m, NEW d, NEW out, NEW in, NEW low \in 0 .. N - 1, ContractionOK(m, d, out, in, low, <<>>, FALSE),
           ReachOK(m, d, out, in, <<>>, FALSE)
    PROVE  ReachOK(m, d, Dropped(out, in[low], low), Dropped(in, out[low], low), PairsOf(in[low], out[low]), FALSE)
<1>1. PICK out2, in2, prs : /\ out2 = Dropped(out, in[low], low) /\ in2 = Dropped(in, out[low], low)
                            /\ prs = PairsOf(in[low], out[low])
  OBVIOUS
<1>2. ListsOK(out, in, <<>>) /\ Contracts(d, out, in, low, <<>>)
  BY DEF ContractionOK
<1>3. /\ IsDropped(Dropped(out, in[low], low), out, in[low], low)
      /\ IsDropped(Dropped(in, out[low], low), in, out[low], low)
      /\ ArePairs(PairsOf(in[low], out[low]), in[low], out[low])
  BY <1>2, DropIsOK, Zenon
<1>4. IsDropped(out2, out, in[low], low) /\ IsDropped(in2, in, out[low], low) /\ ArePairs(prs, in[low], out[low])
  BY <1>1, <1>3, Zenon
<1>5. low \in Nodes /\ out \in [Nodes -> Seq(Links)] /\ in \in [Nodes -> Seq(Links)]
  BY <1>2 DEF ListsOK, Nodes
<1>6. out[low] \in Seq(Links) /\ in[low] \in Seq(Links)
  BY <1>5
<1>7. ASSUME ShortPaths(m, d) PROVE LinksReach(d, out2, in2, prs)
  <2>1. Reaches(out, d) /\ Reaches(in, Flip(d))
    BY <1>7 DEF ReachOK, LinksReach
  <2>2. Reaches(out2, d)
    BY <1>4, <1>5, <1>6, <2>1, DroppedReach, Zenon
  <2>3. Reaches(in2, Flip(d))
    BY <1>4, <1>5, <1>6, <2>1, DroppedReach, Zenon
  <2>4. \A p \in ToSet(prs) : d[<<p[1].node, p[2].node>>] < Inf
    BY <1>2, <1>4, <1>5, <1>7, <2>1, PairsReach, Zenon
  <2> QED BY <2>2, <2>3, <2>4 DEF LinksReach
<1>8. ReachOK(m, d, out2, in2, prs, FALSE)
  BY <1>7 DEF ReachOK
<1> QED BY <1>1, <1>8, Zenon

(* Dropping a pair keeps it.                                               *)
LEMMA SkipReaches ==
    ASSUME NEW m, NEW d, NEW out, NEW in, NEW prs \in Seq(Links \X Links), prs # <<>>, ReachOK(m, d, out, in, prs, FALSE)
    PROVE  ReachOK(m, d, out, in, Tail(prs), FALSE)
<1>1. ToSet(Tail(prs)) \subseteq ToSet(prs)
  <2>1. PICK from, to, weight : /\ from = Head(prs)[1].node /\ to = Head(prs)[2].node
                                /\ weight = Head(prs)[1].weight + Head(prs)[2].weight
    OBVIOUS
  <2>2. IsFirst(prs, from, to, weight)
    BY <2>1, Zenon DEF IsFirst
  <2> QED BY <2>2, FirstPairFacts, Zenon
<1> QED BY <1>1 DEF ReachOK, LinksReach

(* Inserting a shortcut keeps it.                                          *)
LEMMA ConnectReaches ==
    ASSUME NEW m, NEW d, NEW out, NEW in, NEW low, NEW prs, prs # <<>>,
           ContractionOK(m, d, out, in, low, prs, FALSE),
           NEW from, NEW to, NEW weight, IsFirst(prs, from, to, weight),
           ~ Distances(RemainingOf(out, low))[<<from, to>>] < weight,
           NEW out2, NEW in2, NEW pan, AreConnected(out2, in2, pan, out, in, low, from, to, weight),
           ReachOK(m, d, out, in, prs, FALSE)
    PROVE  ReachOK(m, d, out2, in2, Tail(prs), pan)
<1>1. PICK t, p, e : t = Tail(prs) /\ p = Head(prs) /\ e = Flip(d)
  OBVIOUS
<1>2. from \in Nodes /\ to \in Nodes /\ p \in ToSet(prs) /\ ToSet(t) \subseteq ToSet(prs)
  <2>1. from \in Nodes /\ to \in Nodes /\ Head(prs) \in ToSet(prs) /\ ToSet(Tail(prs)) \subseteq ToSet(prs)
    BY ConnectedFacts, Zenon
  <2> QED BY <1>1, <2>1, Zenon
<1>3. \E o, i : ShortcutBetween(o, i, out2, in2, pan, out, in, low, from, to, weight)
  BY ConnectedFacts, Zenon
<1>4. PICK o, i : ShortcutBetween(o, i, out2, in2, pan, out, in, low, from, to, weight)
  BY <1>3, Zenon
<1>5. /\ IsInserted(o, out[from], to, weight) /\ IsInserted(i, in[to], from, weight)
      /\ IsReplaced(out2, out, from, o.links) /\ IsReplaced(in2, in, to, i.links)
  BY <1>4 DEF ShortcutBetween
<1>6. ASSUME ShortPaths(m, d) PROVE LinksReach(d, out2, in2, t)
  <2>1. /\ Reaches(out, d) /\ Reaches(in, Flip(d))
        /\ \A q \in ToSet(prs) : d[<<q[1].node, q[2].node>>] < Inf
    BY <1>6 DEF ReachOK, LinksReach
  <2>2. d[<<from, to>>] < Inf
    <3>1. from = p[1].node /\ to = p[2].node
      BY <1>1, Zenon DEF IsFirst
    <3>2. d[<<p[1].node, p[2].node>>] < Inf
      BY <1>2, <2>1
    <3> QED BY <3>1, <3>2
  <2>3. e[<<to, from>>] < Inf
    BY <1>1, <1>2, <2>2 DEF Flip
  <2>4. Reaches(out2, d)
    BY <1>2, <1>5, <2>1, <2>2, InsertReaches, Zenon
  <2>5. Reaches(in, e)
    BY <1>1, <2>1, Zenon
  <2>6. Reaches(in2, e)
    BY <1>2, <1>5, <2>3, <2>5, InsertReaches, Zenon
  <2>7. Reaches(in2, Flip(d))
    BY <1>1, <2>6, Zenon
  <2> QED BY <1>2, <2>1, <2>4, <2>7 DEF LinksReach
<1>7. ReachOK(m, d, out2, in2, t, pan)
  BY <1>6 DEF ReachOK
<1> QED BY <1>1, <1>7, Zenon

(* It holds at first ...                                                   *)
LEMMA ReachStarts == ASSUME NEW m \in Metrics, InitHierarchy(m) PROVE ReachInv
<1>1. /\ network.arcs = m /\ network.dist = Distances(m)
      /\ outgoing = [x \in Nodes |-> LinksTo(x, [y \in Nodes |-> m[<<x, y>>]])]
      /\ incoming = [x \in Nodes |-> LinksTo(x, [y \in Nodes |-> m[<<y, x>>]])]
      /\ pairs = <<>> /\ panicked = FALSE
  BY DEF InitHierarchy
<1> QED BY <1>1, LinksReachAtFirst, Zenon DEF ReachInv

(* ... and after every step.                                               *)
LEMMA ReachKept == ContractionInv /\ ReachInv /\ [NextOfHierarchy]_hierarchyVars => ReachInv'
<1> SUFFICES ASSUME ContractionInv, ReachInv, [NextOfHierarchy]_hierarchyVars PROVE ReachInv'
  OBVIOUS
<1> USE DEF contractionVars, hierarchyVars
<1>1. PICK m, d, out, in, low, prs, pan :
          /\ m = network.arcs /\ d = network.dist /\ out = outgoing /\ in = incoming /\ low = lowest /\ prs = pairs /\ pan = panicked
  OBVIOUS
<1>2. ContractionOK(m, d, out, in, low, prs, pan) /\ ReachOK(m, d, out, in, prs, pan)
  BY <1>1, Zenon DEF ContractionInv, ReachInv
<1>3. low \in 0 .. N /\ pan \in BOOLEAN
  BY <1>2 DEF ContractionOK
<1>4. CASE RemoveLowest
  <2>1. pan = FALSE /\ low \in 0 .. N - 1 /\ prs = <<>>
    <3>1. pan = FALSE /\ low < N /\ prs = <<>>
      BY <1>1, <1>3, <1>4, Zenon DEF RemoveLowest
    <3> QED BY <1>3, <3>1, NAssumption
  <2>2. /\ outgoing' = Dropped(outgoing, incoming[lowest], lowest)
        /\ incoming' = Dropped(incoming, outgoing[lowest], lowest)
        /\ pairs' = PairsOf(incoming[lowest], outgoing[lowest])
        /\ network' = network /\ panicked' = panicked
    BY <1>4, Zenon DEF RemoveLowest, Dropped, PairsOf
  <2>3. ReachOK(m, d, Dropped(out, in[low], low), Dropped(in, out[low], low), PairsOf(in[low], out[low]), FALSE)
    BY <1>2, <2>1, RemoveReaches, Zenon
  <2>4. /\ outgoing' = Dropped(out, in[low], low) /\ incoming' = Dropped(in, out[low], low)
        /\ pairs' = PairsOf(in[low], out[low]) /\ network'.arcs = m /\ network'.dist = d /\ panicked' = FALSE
    BY <1>1, <2>1, <2>2, Zenon
  <2> QED BY <2>3, <2>4, Zenon DEF ReachInv
<1>5. CASE ConnectPair
  <2>1. pan = FALSE /\ prs # <<>>
    BY <1>1, <1>3, <1>5 DEF ConnectPair
  <2>2. PICK from, to, weight : /\ from = Head(prs)[1].node /\ to = Head(prs)[2].node
                                /\ weight = Head(prs)[1].weight + Head(prs)[2].weight
    OBVIOUS
  <2>3. IsFirst(prs, from, to, weight)
    BY <2>2, Zenon DEF IsFirst
  <2>4. ContractionOK(m, d, out, in, low, prs, FALSE) /\ ReachOK(m, d, out, in, prs, FALSE)
    BY <1>2, <2>1, Zenon
  <2>5. pairs' = Tail(prs) /\ network'.arcs = m /\ network'.dist = d
    BY <1>1, <1>5, Zenon DEF ConnectPair
  <2>6. CASE ShortcutRequired(from, to, weight)
    <3>1. PICK out2, in2, pan2 : AreConnected(out2, in2, pan2, out, in, low, from, to, weight)
                                 /\ outgoing' = out2 /\ incoming' = in2 /\ panicked' = pan2
      <4>1. AreConnected(outgoing', incoming', panicked', out, in, low, from, to, weight)
        BY <1>1, <1>5, <2>2, <2>6, Zenon DEF ConnectPair, AreConnected
      <4> QED BY <4>1
    <3>2. ~ Distances(RemainingOf(out, low))[<<from, to>>] < weight
      BY <1>1, <2>6, RemainingIs, Zenon DEF ShortcutRequired
    <3>3. ReachOK(m, d, out2, in2, Tail(prs), pan2)
      BY <2>1, <2>3, <2>4, <3>1, <3>2, ConnectReaches, Zenon
    <3> QED BY <2>5, <3>1, <3>3, Zenon DEF ReachInv
  <2>7. CASE ~ShortcutRequired(from, to, weight)
    <3>1. outgoing' = out /\ incoming' = in /\ panicked' = FALSE
      BY <1>1, <1>5, <2>1, <2>2, <2>7, Zenon DEF ConnectPair
    <3>2. prs \in Seq(Links \X Links)
      BY <2>4 DEF ContractionOK, ListsOK
    <3>3. ReachOK(m, d, out, in, Tail(prs), FALSE)
      BY <2>1, <2>4, <3>2, SkipReaches, Zenon
    <3> QED BY <2>5, <3>1, <3>3, Zenon DEF ReachInv
  <2> QED BY <2>6, <2>7
<1>6. CASE UNCHANGED <<network, contractionVars>>
  BY <1>6, Zenon DEF ReachInv
<1>7. CASE Query
  BY <1>6, <1>7, Zenon DEF Query
<1>8. CASE SettleNext
  BY <1>6, <1>8, Zenon DEF SettleNext
<1>9. CASE RunsEmpty
  BY <1>6, <1>9, Zenon DEF RunsEmpty
<1>10. CASE Return
  BY <1>6, <1>10, Zenon DEF Return
<1> QED BY <1>4, <1>5, <1>6, <1>7, <1>8, <1>9, <1>10, Zenon DEF NextOfHierarchy

-----------------------------------------------------------------------------
(* Hub labels: what labels are                                             *)

(* The distance in the direction of a side is a metric.                    *)
LEMMA BetweenFacts ==
    ASSUME NEW d, MetricOn(Nodes, d)
    PROVE  /\ \A side \in Sides : \A x, y \in Nodes : /\ Between(d, side, x, y) \in Nat /\ Between(d, side, x, y) <= Inf
                                                      /\ Between(d, side, x, x) = 0
                                                      /\ Between(d, Other(side), x, y) = Between(d, side, y, x)
           /\ \A side \in Sides : \A x, y, z \in Nodes : Between(d, side, x, z) <= Between(d, side, x, y) + Between(d, side, y, z)
<1>1. /\ \A a, b \in Nodes : d[<<a, b>>] \in Nat /\ d[<<a, b>>] <= Inf
      /\ \A a \in Nodes : d[<<a, a>>] = 0
      /\ \A a, b, c \in Nodes : d[<<a, c>>] <= d[<<a, b>>] + d[<<b, c>>]
  BY DEF MetricOn
<1>2. /\ \A x, y : Between(d, "fw", x, y) = d[<<x, y>>]
      /\ \A x, y : Between(d, "bw", x, y) = d[<<y, x>>]
      /\ Other("fw") = "bw" /\ Other("bw") = "fw"
  BY SidesAre DEF Between, Other
<1>3. ASSUME NEW side \in Sides, NEW x \in Nodes, NEW y \in Nodes, NEW z \in Nodes
      PROVE  Between(d, side, x, z) <= Between(d, side, x, y) + Between(d, side, y, z)
  <2>1. CASE side = "fw"
    BY <1>1, <1>2, <2>1
  <2>2. CASE side = "bw"
    <3>1. d[<<z, x>>] <= d[<<z, y>>] + d[<<y, x>>] /\ d[<<z, y>>] \in Nat /\ d[<<y, x>>] \in Nat
      BY <1>1
    <3> QED BY <1>2, <2>2, <3>1
  <2> QED BY <2>1, <2>2, SidesAre
<1>4. ASSUME NEW side \in Sides, NEW x \in Nodes, NEW y \in Nodes
      PROVE  /\ Between(d, side, x, y) \in Nat /\ Between(d, side, x, y) <= Inf
             /\ Between(d, side, x, x) = 0
             /\ Between(d, Other(side), x, y) = Between(d, side, y, x)
  <2>1. CASE side = "fw"
    <3>1. /\ Between(d, side, x, y) = d[<<x, y>>] /\ Between(d, side, x, x) = d[<<x, x>>]
          /\ Between(d, side, y, x) = d[<<y, x>>] /\ Between(d, Other(side), x, y) = d[<<y, x>>]
      BY <1>2, <2>1, Zenon
    <3>2. d[<<x, y>>] \in Nat /\ d[<<x, y>>] <= Inf /\ d[<<y, x>>] \in Nat /\ d[<<y, x>>] <= Inf /\ d[<<x, x>>] = 0
      BY <1>1
    <3> QED BY <3>1, <3>2
  <2>2. CASE side = "bw"
    <3>1. /\ Between(d, side, x, y) = d[<<y, x>>] /\ Between(d, side, x, x) = d[<<x, x>>]
          /\ Between(d, side, y, x) = d[<<x, y>>] /\ Between(d, Other(side), x, y) = d[<<x, y>>]
      BY <1>2, <2>2, Zenon
    <3>2. d[<<x, y>>] \in Nat /\ d[<<x, y>>] <= Inf /\ d[<<y, x>>] \in Nat /\ d[<<y, x>>] <= Inf /\ d[<<x, x>>] = 0
      BY <1>1
    <3> QED BY <3>1, <3>2
  <2> QED BY <2>1, <2>2, SidesAre
<1> QED BY <1>3, <1>4

(* Pairs of a hub and a distance.                                          *)
LabelSets == SUBSET (Nodes \X Nat)

(* A common hub on a shortest path.                                        *)
Meets(d, side, x, y, from, to) ==
    \E h \in Nodes : /\ <<h, Between(d, side, x, h)>> \in from /\ <<h, Between(d, side, h, y)>> \in to
                     /\ Between(d, side, x, h) + Between(d, side, h, y) = Between(d, side, x, y)

(* Labels are higher than their node, and distances.                       *)
LabelsOf(d, side, x, from) ==
    /\ from \in LabelSets /\ <<x, 0>> \in from
    /\ \A l \in from : x <= l[1] /\ l[2] = Between(d, side, x, l[1]) /\ l[2] < Inf

(* Of the labeled nodes, labels are distances and any two nodes with a     *)
(* path have a hub in common on a shortest one.                            *)
LabelsOK(d, lab, un) ==
    \A side \in Sides : \A x \in Nodes : un <= x =>
        /\ LabelsOf(d, side, x, lab[side][x])
        /\ \A y \in Nodes : un <= y /\ Between(d, side, x, y) < Inf => Meets(d, side, x, y, lab[side][x], lab[Other(side)][y])

(* Candidates for labels of x: no shorter than distances, and one of each  *)
(* hub.                                                                    *)
Candidates(d, side, x, from) ==
    /\ from \in LabelSets /\ <<x, 0>> \in from
    /\ \A l \in from : x <= l[1] /\ Between(d, side, x, l[1]) <= l[2] /\ Between(d, side, x, l[1]) < Inf
                       /\ (l[1] = x => l[2] = 0)
    /\ \A l, k \in from : l[1] = k[1] => l = k

(* They are no longer than the labels of higher neighbors make them.       *)
CandidatesOver(out, in, lab, side, x, from) ==
    \A z \in Nodes : \A w \in UpWeights(out, in, side, x, z) : \A l \in lab[side][z] :
        \E k \in from : k[1] = l[1] /\ k[2] <= l[2] + w

(* Merged, for any lists and labels.                                       *)
FromHigher(out, in, lab, side, x, l) ==
    \E z \in Nodes : \E w \in UpWeights(out, in, side, x, z) : \E k \in lab[side][z] : l = <<k[1], k[2] + w>>

(* Own and inherited labels, before the best are chosen.                   *)
AllOf(out, in, lab, side, x) ==
    {l \in Nodes \X Nat : l = <<x, 0>> \/ FromHigher(out, in, lab, side, x, l)}

(* The best label of each hub.                                             *)
Lightest(all) == {l \in all : \A other \in all : other[1] = l[1] => l[2] <= other[2]}

(* Every label has one of the same hub among the lightest.                 *)
LEMMA LightestFacts ==
    ASSUME NEW all \in LabelSets, NEW l \in all
    PROVE  \E k \in Lightest(all) : k[1] = l[1] /\ k[2] <= l[2]
<1> DEFINE V == {n \in Nat : \E k \in all : k[1] = l[1] /\ k[2] = n}
<1>1. \A k \in all : k[2] \in Nat
  BY DEF LabelSets
<1>2. l[2] \in V /\ V \in SUBSET Nat
  BY <1>1
<1>3. PICK n \in V : \A j \in V : n <= j
  <2> HIDE DEF V
  <2> QED BY <1>2, LeastElement
<1>4. PICK k \in all : k[1] = l[1] /\ k[2] = n
  OBVIOUS
<1>5. \A other \in all : other[1] = k[1] => k[2] <= other[2]
  BY <1>1, <1>3, <1>4
<1> QED BY <1>2, <1>3, <1>4, <1>5 DEF Lightest

(* Short paths and links, from either side.                                *)
ShortReach(d, side) ==
    /\ \A x \in Nodes : Between(d, side, x, x) < Inf
    /\ \A x, y, z \in Nodes : Between(d, side, x, y) < Inf /\ Between(d, side, y, z) < Inf => Between(d, side, x, z) < Inf

(* With short paths, reaching is transitive in the direction of a side.    *)
LEMMA ShortPathsReach ==
    ASSUME NEW m, NEW d, ShortPaths(m, d), NEW side \in Sides
    PROVE  ShortReach(d, side)
<1>1. \A x, y : Between(d, side, x, y) = d[<<x, y>>] \/ Between(d, side, x, y) = d[<<y, x>>]
  BY DEF Between
<1>2. CASE side = "fw"
  BY <1>2 DEF ShortReach, ShortPaths, Between
<1>3. CASE side = "bw"
  <2>1. \A x, y : Between(d, side, x, y) = d[<<y, x>>]
    BY <1>3, SidesAre DEF Between
  <2>2. \A x \in Nodes : Between(d, side, x, x) < Inf
    BY <2>1 DEF ShortPaths
  <2>3. ASSUME NEW x \in Nodes, NEW y \in Nodes, NEW z \in Nodes, Between(d, side, x, y) < Inf, Between(d, side, y, z) < Inf
        PROVE  Between(d, side, x, z) < Inf
    <3>1. d[<<z, y>>] < Inf /\ d[<<y, x>>] < Inf
      BY <2>1, <2>3
    <3>2. d[<<z, x>>] < Inf
      BY <3>1 DEF ShortPaths
    <3> QED BY <2>1, <3>2
  <2> QED BY <2>2, <2>3 DEF ShortReach
<1> QED BY <1>2, <1>3, SidesAre

(* Links lead to nodes in reach.                                           *)
LEMMA ReachBetween ==
    ASSUME NEW d, NEW out, NEW in, NEW prs, LinksReach(d, out, in, prs), NEW side \in Sides, NEW x \in Nodes, NEW y \in Nodes,
           NEW w \in UpWeights(out, in, side, x, y)
    PROVE  Between(d, side, x, y) < Inf
<1>1. CASE side = "fw"
  BY <1>1 DEF UpWeights, Between, LinksReach, Reaches
<1>2. CASE side = "bw"
  <2>1. Between(d, side, x, y) = d[<<y, x>>] /\ w \in WeightsTo(in[x], y)
    BY <1>2, SidesAre DEF Between, UpWeights
  <2>2. Flip(d)[<<x, y>>] < Inf
    BY <2>1 DEF LinksReach, Reaches
  <2>3. Flip(d)[<<x, y>>] = d[<<y, x>>]
    BY DEF Flip
  <2> QED BY <2>1, <2>2, <2>3
<1> QED BY <1>1, <1>2, SidesAre

(* The labels that Merged chooses are candidates.                          *)
LEMMA CandidatesFacts ==
    ASSUME NEW m, NEW d, NEW out, NEW in, GoesUp(d, out, in), ShortPaths(m, d), LinksReach(d, out, in, <<>>),
           NEW lab, NEW x \in Nodes, LabelsOK(d, lab, x + 1), NEW side \in Sides
    PROVE  /\ Candidates(d, side, x, Lightest(AllOf(out, in, lab, side, x)))
           /\ CandidatesOver(out, in, lab, side, x, Lightest(AllOf(out, in, lab, side, x)))
<1>1. PICK all : all = AllOf(out, in, lab, side, x)
  OBVIOUS
<1>2. PICK from : from = Lightest(all)
  OBVIOUS
<1>3. /\ \A l : l \in all <=> l \in Nodes \X Nat /\ (l = <<x, 0>> \/ FromHigher(out, in, lab, side, x, l))
      /\ \A l : l \in from <=> l \in all /\ \A other \in all : other[1] = l[1] => l[2] <= other[2]
  <2>1. \A l : l \in all <=> l \in Nodes \X Nat /\ (l = <<x, 0>> \/ FromHigher(out, in, lab, side, x, l))
    BY <1>1, Zenon DEF AllOf
  <2>2. \A l : l \in from <=> l \in all /\ \A other \in all : other[1] = l[1] => l[2] <= other[2]
    BY <1>2, Zenon DEF Lightest
  <2> QED BY <2>1, <2>2
<1>4. /\ MetricOn(Nodes, d) /\ x \in Nat /\ x < N /\ \A y \in Nodes : y \in Nat
      /\ \A z \in Nodes : \A w \in UpWeights(out, in, side, x, z) : w \in Nat /\ x < z /\ Between(d, side, x, z) <= w
  BY NAssumption DEF GoesUp, Nodes
<1>5. /\ \A y, z \in Nodes : Between(d, side, y, z) \in Nat /\ Between(d, side, y, z) <= Inf /\ Between(d, side, y, y) = 0
      /\ \A y, z, v \in Nodes : Between(d, side, y, v) <= Between(d, side, y, z) + Between(d, side, z, v)
      /\ Inf \in Nat
  <2>1. /\ \A y, z \in Nodes : Between(d, side, y, z) \in Nat /\ Between(d, side, y, z) <= Inf /\ Between(d, side, y, y) = 0
        /\ \A y, z, v \in Nodes : Between(d, side, y, v) <= Between(d, side, y, z) + Between(d, side, z, v)
    BY <1>4, BetweenFacts, Zenon
  <2> QED BY <2>1, InfAssumption
<1>6. all \in LabelSets /\ from \in LabelSets
  <2>1. \A l \in all : l \in Nodes \X Nat
    BY <1>3, Zenon
  <2>2. \A l \in from : l \in all
    BY <1>3, Zenon
  <2> QED BY <2>1, <2>2 DEF LabelSets
<1>7. \A l \in all : \E k \in from : k[1] = l[1] /\ k[2] <= l[2]
  BY <1>2, <1>6, LightestFacts, Zenon
<1>8. ShortReach(d, side)
  BY ShortPathsReach, Zenon
<1>9. \A z \in Nodes : \A w \in UpWeights(out, in, side, x, z) : Between(d, side, x, z) < Inf
  BY ReachBetween, Zenon
<1>10. \A z \in Nodes : x < z => LabelsOf(d, side, z, lab[side][z])
  <2> SUFFICES ASSUME NEW z \in Nodes, x < z PROVE LabelsOf(d, side, z, lab[side][z])
    OBVIOUS
  <2>1. x + 1 <= z
    BY <1>4
  <2> QED BY <2>1 DEF LabelsOK
<1>11. \A l \in all : /\ x <= l[1] /\ Between(d, side, x, l[1]) <= l[2] /\ Between(d, side, x, l[1]) < Inf
                      /\ l[1] = x => l = <<x, 0>>
  <2> SUFFICES ASSUME NEW l \in all
               PROVE  /\ x <= l[1] /\ Between(d, side, x, l[1]) <= l[2] /\ Between(d, side, x, l[1]) < Inf
                      /\ l[1] = x => l = <<x, 0>>
    OBVIOUS
  <2>1. CASE l = <<x, 0>>
    BY <1>4, <1>5, <1>8, <2>1 DEF ShortReach
  <2>2. CASE FromHigher(out, in, lab, side, x, l)
    <3>1. PICK z \in Nodes : \E w \in UpWeights(out, in, side, x, z) : \E k \in lab[side][z] : l = <<k[1], k[2] + w>>
      BY <2>2 DEF FromHigher
    <3>2. PICK w \in UpWeights(out, in, side, x, z) : \E k \in lab[side][z] : l = <<k[1], k[2] + w>>
      BY <3>1
    <3>3. PICK k \in lab[side][z] : l = <<k[1], k[2] + w>>
      BY <3>2
    <3>4. w \in Nat /\ x < z /\ Between(d, side, x, z) <= w /\ Between(d, side, x, z) < Inf /\ z \in Nat
      BY <1>4, <1>9
    <3>5. k \in Nodes \X Nat /\ z <= k[1] /\ k[2] = Between(d, side, z, k[1]) /\ k[2] < Inf
      BY <1>10, <3>4 DEF LabelsOf, LabelSets
    <3>6. PICK h \in Nodes, v \in Nat : k = <<h, v>>
      BY <3>5
    <3>7. z <= h /\ v = Between(d, side, z, h) /\ v < Inf /\ l[1] = h /\ l[2] = v + w
      BY <3>3, <3>5, <3>6
    <3>8. Between(d, side, x, h) < Inf
      BY <1>8, <3>4, <3>7 DEF ShortReach
    <3>9. Between(d, side, x, h) <= Between(d, side, x, z) + v
      BY <1>5, <3>7
    <3>10. Between(d, side, x, h) \in Nat /\ Between(d, side, x, z) \in Nat /\ h \in Nat
      BY <1>4, <1>5
    <3> QED BY <1>4, <3>4, <3>6, <3>7, <3>8, <3>9, <3>10
  <2> QED BY <1>3, <2>1, <2>2
<1>12. <<x, 0>> \in from
  <2>1. <<x, 0>> \in all
    BY <1>3
  <2>2. ASSUME NEW other \in all, other[1] = x PROVE 0 <= other[2]
    <3>1. other = <<x, 0>>
      BY <1>11, <2>2
    <3> QED BY <3>1
  <2> QED BY <1>3, <2>1, <2>2
<1>13. Candidates(d, side, x, from)
  <2>1. \A l \in from : x <= l[1] /\ Between(d, side, x, l[1]) <= l[2] /\ Between(d, side, x, l[1]) < Inf
                         /\ (l[1] = x => l[2] = 0)
    <3> SUFFICES ASSUME NEW l \in from
                 PROVE  x <= l[1] /\ Between(d, side, x, l[1]) <= l[2] /\ Between(d, side, x, l[1]) < Inf
                        /\ (l[1] = x => l[2] = 0)
      OBVIOUS
    <3>1. l \in all
      BY <1>3, Zenon
    <3>2. /\ x <= l[1] /\ Between(d, side, x, l[1]) <= l[2] /\ Between(d, side, x, l[1]) < Inf
          /\ l[1] = x => l = <<x, 0>>
      BY <1>11, <3>1, Zenon
    <3>3. l = <<x, 0>> => l[2] = 0
      OBVIOUS
    <3> QED BY <3>2, <3>3, Zenon
  <2>2. ASSUME NEW l \in from, NEW k \in from, l[1] = k[1] PROVE l = k
    <3>1. l \in all /\ k \in all /\ l[2] <= k[2] /\ k[2] <= l[2]
      BY <1>3, <2>2
    <3>2. l \in Nodes \X Nat /\ k \in Nodes \X Nat
      BY <1>6, <3>1 DEF LabelSets
    <3> QED BY <2>2, <3>1, <3>2
  <2> QED BY <1>6, <1>12, <2>1, <2>2 DEF Candidates
<1>14. CandidatesOver(out, in, lab, side, x, from)
  <2> SUFFICES ASSUME NEW z \in Nodes, NEW w \in UpWeights(out, in, side, x, z), NEW l \in lab[side][z]
               PROVE  \E k \in from : k[1] = l[1] /\ k[2] <= l[2] + w
    BY DEF CandidatesOver
  <2>1. PICK j : j = <<l[1], l[2] + w>>
    OBVIOUS
  <2>2. l \in Nodes \X Nat /\ w \in Nat
    BY <1>4, <1>10 DEF LabelsOf, LabelSets
  <2>3. j \in Nodes \X Nat /\ j[1] = l[1] /\ j[2] = l[2] + w
    BY <2>1, <2>2
  <2>4. FromHigher(out, in, lab, side, x, j)
    BY <2>1 DEF FromHigher
  <2>5. j \in all
    BY <1>3, <2>3, <2>4, Zenon
  <2> QED BY <1>7, <2>3, <2>5
<1> QED BY <1>1, <1>2, <1>13, <1>14, Zenon

(* The candidates of a node have a hub on a shortest path in common with   *)
(* each labeled node that it can reach.                                    *)
LEMMA CandidatesMeet ==
    ASSUME NEW d, NEW out, NEW in, GoesUp(d, out, in), NEW lab, NEW x \in Nodes, LabelsOK(d, lab, x + 1),
           NEW side \in Sides, NEW from, Candidates(d, side, x, from), CandidatesOver(out, in, lab, side, x, from),
           NEW y \in Nodes, x < y, Between(d, side, x, y) < Inf
    PROVE  Meets(d, side, x, y, from, lab[Other(side)][y])
<1>1. MetricOn(Nodes, d) /\ \A z \in Nodes : z \in Nat
  BY NAssumption DEF GoesUp, Nodes
<1>2. /\ \A u, v \in Nodes : Between(d, side, u, v) \in Nat /\ Between(d, side, u, v) <= Inf
      /\ \A u, v, z \in Nodes : Between(d, side, u, z) <= Between(d, side, u, v) + Between(d, side, v, z)
  BY <1>1, BetweenFacts, Zenon
<1>3. PICK z \in Nodes : \E w \in UpWeights(out, in, side, x, z) : w + Between(d, side, z, y) <= Between(d, side, x, y)
  BY DEF GoesUp
<1>4. PICK w \in UpWeights(out, in, side, x, z) : w + Between(d, side, z, y) <= Between(d, side, x, y)
  BY <1>3
<1>5. w \in Nat /\ x < z /\ Inf \in Nat
  BY InfAssumption DEF GoesUp
<1>6. Between(d, side, z, y) < Inf /\ x + 1 <= z /\ x + 1 <= y
  <2>1. Between(d, side, z, y) \in Nat /\ Between(d, side, x, y) \in Nat /\ x \in Nat /\ z \in Nat /\ y \in Nat
    BY <1>1, <1>2
  <2> QED BY <1>4, <1>5, <2>1
<1>7. Meets(d, side, z, y, lab[side][z], lab[Other(side)][y])
  BY <1>6 DEF LabelsOK
<1>8. PICK h \in Nodes : /\ <<h, Between(d, side, z, h)>> \in lab[side][z] /\ <<h, Between(d, side, h, y)>> \in lab[Other(side)][y]
                         /\ Between(d, side, z, h) + Between(d, side, h, y) = Between(d, side, z, y)
  BY <1>7 DEF Meets
<1>9. PICK k \in from : k[1] = h /\ k[2] <= Between(d, side, z, h) + w
  <2>1. PICK l : l = <<h, Between(d, side, z, h)>>
    OBVIOUS
  <2>2. l \in lab[side][z] /\ l[1] = h /\ l[2] = Between(d, side, z, h)
    BY <1>8, <2>1
  <2>3. \E k \in from : k[1] = l[1] /\ k[2] <= l[2] + w
    BY <2>2 DEF CandidatesOver
  <2> QED BY <2>2, <2>3
<1>10. k \in Nodes \X Nat /\ Between(d, side, x, h) <= k[2]
  BY <1>9 DEF Candidates, LabelSets
<1>11. PICK n \in Nat : k = <<h, n>>
  BY <1>9, <1>10
<1>12. n <= Between(d, side, z, h) + w /\ Between(d, side, x, h) <= n
  BY <1>9, <1>10, <1>11
<1>13. /\ Between(d, side, x, h) \in Nat /\ Between(d, side, z, h) \in Nat /\ Between(d, side, h, y) \in Nat
       /\ Between(d, side, z, y) \in Nat /\ Between(d, side, x, y) \in Nat
       /\ Between(d, side, x, y) <= Between(d, side, x, h) + Between(d, side, h, y)
  BY <1>2
<1>14. n = Between(d, side, x, h) /\ Between(d, side, x, h) + Between(d, side, h, y) = Between(d, side, x, y)
  BY <1>4, <1>5, <1>8, <1>12, <1>13
<1>15. <<h, Between(d, side, x, h)>> \in from
  BY <1>9, <1>11, <1>14
<1> QED BY <1>8, <1>14, <1>15 DEF Meets

-----------------------------------------------------------------------------
(* Hub labels: best hubs                                                   *)

(* A common hub and the length of the way over it.                         *)
IsWay(from, to, h, k) == \E u, v \in Nat : <<h, u>> \in from /\ <<h, v>> \in to /\ k = u + v

(* Ways are those of common hubs.                                          *)
LEMMA WaysFacts ==
    ASSUME NEW from \in LabelSets, NEW to \in LabelSets
    PROVE  /\ Ways(from, to) \in LabelSets
           /\ \A h, k : <<h, k>> \in Ways(from, to) <=> IsWay(from, to, h, k)
<1> DEFINE W == Ways(from, to)
<1>1. \A w : w \in W <=> \E p \in from \X to : p[1][1] = p[2][1] /\ w = <<p[1][1], p[1][2] + p[2][2]>>
  BY DEF Ways
<1>2. \A l \in from : \E h \in Nodes, n \in Nat : l = <<h, n>>
  BY DEF LabelSets
<1>3. \A l \in to : \E h \in Nodes, n \in Nat : l = <<h, n>>
  BY DEF LabelSets
<1>4. ASSUME NEW w \in W
      PROVE  \E h \in Nodes : \E u, v \in Nat : w = <<h, u + v>> /\ <<h, u>> \in from /\ <<h, v>> \in to
  <2>1. PICK p \in from \X to : p[1][1] = p[2][1] /\ w = <<p[1][1], p[1][2] + p[2][2]>>
    BY <1>1
  <2>2. PICK l \in from, r \in to : p = <<l, r>>
    OBVIOUS
  <2>3. PICK h \in Nodes, u \in Nat : l = <<h, u>>
    BY <1>2
  <2>4. PICK g \in Nodes, v \in Nat : r = <<g, v>>
    BY <1>3
  <2>5. p[1] = l /\ p[2] = r /\ l[1] = h /\ l[2] = u /\ r[1] = g /\ r[2] = v
    BY <2>2, <2>3, <2>4
  <2>6. h = g /\ w = <<h, u + v>>
    BY <2>1, <2>5
  <2> QED BY <2>2, <2>3, <2>4, <2>6
<1>5. ASSUME NEW h, NEW u \in Nat, NEW v \in Nat, <<h, u>> \in from, <<h, v>> \in to PROVE <<h, u + v>> \in W
  <2>1. PICK p : p = <<<<h, u>>, <<h, v>>>>
    OBVIOUS
  <2>2. p \in from \X to /\ p[1][1] = h /\ p[2][1] = h /\ p[1][2] = u /\ p[2][2] = v
    BY <1>5, <2>1
  <2> QED BY <1>1, <2>2
<1> HIDE DEF W
<1>6. W \in LabelSets
  <2> SUFFICES ASSUME NEW w \in W PROVE w \in Nodes \X Nat
    BY DEF LabelSets
  <2>1. PICK h \in Nodes : \E u, v \in Nat : w = <<h, u + v>> /\ <<h, u>> \in from /\ <<h, v>> \in to
    BY <1>4
  <2>2. PICK u \in Nat, v \in Nat : w = <<h, u + v>>
    BY <2>1
  <2> QED BY <2>2
<1>7. ASSUME NEW h, NEW k, <<h, k>> \in W
      PROVE  IsWay(from, to, h, k)
  <2>1. PICK g \in Nodes : \E u, v \in Nat : <<h, k>> = <<g, u + v>> /\ <<g, u>> \in from /\ <<g, v>> \in to
    BY <1>4, <1>7
  <2>2. PICK u \in Nat, v \in Nat : <<h, k>> = <<g, u + v>> /\ <<g, u>> \in from /\ <<g, v>> \in to
    BY <2>1
  <2>3. h = g /\ k = u + v
    BY <2>2
  <2>4. <<h, u>> \in from /\ <<h, v>> \in to
    BY <2>2, <2>3
  <2> QED BY <2>3, <2>4 DEF IsWay
<1>8. ASSUME NEW h, NEW k PROVE <<h, k>> \in W <=> IsWay(from, to, h, k)
  <2>1. ASSUME IsWay(from, to, h, k) PROVE <<h, k>> \in W
    <3>1. PICK u \in Nat, v \in Nat : <<h, u>> \in from /\ <<h, v>> \in to /\ k = u + v
      BY <2>1 DEF IsWay
    <3> QED BY <1>5, <3>1, Zenon
  <2>2. ASSUME <<h, k>> \in W PROVE IsWay(from, to, h, k)
    BY <1>7, <2>2, Zenon
  <2> QED BY <2>1, <2>2
<1> QED BY <1>6, <1>8, Zenon DEF W

(* The best hub does not depend on the direction.                          *)
LEMMA WaysCommute ==
    ASSUME NEW from \in LabelSets, NEW to \in LabelSets
    PROVE  BestHub(from, to) = BestHub(to, from)
<1>1. PICK W, V : W = Ways(from, to) /\ V = Ways(to, from)
  OBVIOUS
<1>2. W \in LabelSets /\ V \in LabelSets
  BY <1>1, WaysFacts, Zenon
<1>3. /\ \A h, k : <<h, k>> \in W <=> IsWay(from, to, h, k)
      /\ \A h, k : <<h, k>> \in V <=> IsWay(to, from, h, k)
  BY <1>1, WaysFacts, Zenon
<1>4. \A h, k : <<h, k>> \in W <=> <<h, k>> \in V
  <2>1. \A u, v \in Nat : u + v = v + u
    OBVIOUS
  <2>2. \A h, k : IsWay(from, to, h, k) <=> IsWay(to, from, h, k)
    BY <2>1, ZenonT(30) DEF IsWay
  <2> QED BY <1>3, <2>2, Zenon
<1>5. W = V
  <2>1. \A w \in Nodes \X Nat : w = <<w[1], w[2]>>
    OBVIOUS
  <2>2. \A w \in W : w \in Nodes \X Nat
    BY <1>2 DEF LabelSets
  <2>3. \A w \in V : w \in Nodes \X Nat
    BY <1>2 DEF LabelSets
  <2> QED BY <1>4, <2>1, <2>2, <2>3
<1> QED BY <1>1, <1>5, Zenon DEF BestHub

(* A node is best hub to itself if and only if its labels are exact.       *)
LEMMA BestIsExact ==
    ASSUME NEW from \in LabelSets, NEW to \in LabelSets, NEW h \in Nodes, NEW D \in Nat,
           \A w \in Ways(from, to) : h <= w[1] /\ D <= w[2],
           \E w \in Ways(from, to) : w[2] = D
    PROVE  BestHub(from, to) = h <=> <<h, D>> \in Ways(from, to)
<1>1. PICK W : W = Ways(from, to)
  OBVIOUS
<1>2. PICK S : S = {w[1] : w \in {v \in W : \A u \in W : v[2] <= u[2]}}
  OBVIOUS
<1>3. BestHub(from, to) = Lowest(S)
  BY <1>1, <1>2, Zenon DEF BestHub
<1>4. W \in LabelSets
  BY <1>1, WaysFacts, Zenon
<1>5. \A w \in W : w \in Nodes \X Nat /\ h <= w[1] /\ D <= w[2]
  BY <1>1, <1>4 DEF LabelSets
<1>6. \A g : g \in S <=> \E w \in W : w[2] = D /\ w[1] = g
  <2>1. PICK b \in W : b[2] = D
    BY <1>1
  <2>2. \A w \in W : (\A u \in W : w[2] <= u[2]) <=> w[2] = D
    <3> SUFFICES ASSUME NEW w \in W PROVE (\A u \in W : w[2] <= u[2]) <=> w[2] = D
      OBVIOUS
    <3>1. w[2] \in Nat /\ D <= w[2]
      BY <1>5
    <3>2. w[2] <= b[2] => w[2] = D
      BY <2>1, <3>1
    <3> QED BY <1>5, <3>2
  <2> QED BY <1>2, <2>2
<1>7. S \in SUBSET Nat /\ S # {}
  <2>1. \A g \in S : g \in Nat
    BY <1>5, <1>6, NAssumption DEF Nodes
  <2>2. PICK b \in W : b[2] = D
    BY <1>1
  <2> QED BY <1>6, <2>1, <2>2
<1>8. Lowest(S) \in S /\ \A g \in S : Lowest(S) <= g
  BY <1>7, LowestIsLeast
<1>9. ASSUME Lowest(S) = h PROVE <<h, D>> \in W
  <2>1. PICK w \in W : w[2] = D /\ w[1] = h
    BY <1>6, <1>8, <1>9
  <2>2. w = <<h, D>>
    BY <1>5, <2>1
  <2> QED BY <2>2
<1>10. ASSUME <<h, D>> \in W PROVE Lowest(S) = h
  <2>1. h \in S
    BY <1>6, <1>10
  <2>2. Lowest(S) <= h /\ Lowest(S) \in Nat
    BY <1>7, <1>8, <2>1
  <2>3. PICK w \in W : w[1] = Lowest(S)
    BY <1>6, <1>8
  <2>4. h <= Lowest(S)
    BY <1>5, <2>3
  <2>5. h \in Nat
    BY NAssumption DEF Nodes
  <2> QED BY <2>2, <2>4, <2>5
<1> QED BY <1>1, <1>3, <1>9, <1>10

(* The labels of the other side that candidates for x with hub h meet.     *)
Compared(d, other, h, to) ==
    /\ to \in LabelSets /\ <<h, 0>> \in to
    /\ \A l \in to : h <= l[1] /\ Between(d, other, h, l[1]) <= l[2] /\ (l[1] = h => l[2] = 0)

(* Labels can be compared with candidates, ...                             *)
LEMMA LabelsAreCompared ==
    ASSUME NEW d, MetricOn(Nodes, d), NEW other \in Sides, NEW h \in Nodes, NEW to, LabelsOf(d, other, h, to)
    PROVE  Compared(d, other, h, to)
<1>1. \A g \in Nodes : Between(d, other, h, g) \in Nat
  BY BetweenFacts, Zenon
<1>2. Between(d, other, h, h) = 0
  BY BetweenFacts, Zenon
<1>3. \A l \in to : l \in Nodes \X Nat /\ h <= l[1] /\ l[2] = Between(d, other, h, l[1])
  BY DEF LabelsOf, LabelSets
<1>4. \A l \in to : Between(d, other, h, l[1]) <= l[2] /\ (l[1] = h => l[2] = 0)
  BY <1>1, <1>2, <1>3
<1> QED BY <1>3, <1>4 DEF Compared, LabelsOf

(* ... and so can candidates.                                              *)
LEMMA CandidatesAreCompared ==
    ASSUME NEW d, NEW other, NEW x, NEW to, Candidates(d, other, x, to)
    PROVE  Compared(d, other, x, to)
BY DEF Candidates, Compared

(* Candidates that are distances, the others are dropped.                  *)
ExactOf(d, side, x, from) == {l \in from : l[2] = Between(d, side, x, l[1])}

(* A hub is the best one for itself if the candidate is a distance.        *)
LEMMA BestForItself ==
    ASSUME NEW d, MetricOn(Nodes, d), NEW side \in Sides, NEW x \in Nodes, NEW from, Candidates(d, side, x, from),
           NEW l \in from, NEW h \in Nodes, l[1] = h, NEW to, Compared(d, Other(side), h, to),
           x = h \/ Meets(d, side, x, h, from, to)
    PROVE  BestHub(from, to) = h <=> l[2] = Between(d, side, x, h)
<1>1. PICK D : D = Between(d, side, x, h)
  OBVIOUS
<1>2. /\ \A u, v \in Nodes : Between(d, side, u, v) \in Nat /\ Between(d, side, u, u) = 0
                             /\ Between(d, Other(side), u, v) = Between(d, side, v, u)
      /\ \A u, v, z \in Nodes : Between(d, side, u, z) <= Between(d, side, u, v) + Between(d, side, v, z)
      /\ \A u \in Nodes : u \in Nat
  <2>1. /\ \A u, v \in Nodes : Between(d, side, u, v) \in Nat /\ Between(d, side, u, u) = 0
                               /\ Between(d, Other(side), u, v) = Between(d, side, v, u)
        /\ \A u, v, z \in Nodes : Between(d, side, u, z) <= Between(d, side, u, v) + Between(d, side, v, z)
    <3>1. \A u, v, z \in Nodes : Between(d, side, u, z) <= Between(d, side, u, v) + Between(d, side, v, z)
      BY BetweenFacts, Zenon
    <3>2. ASSUME NEW u \in Nodes, NEW v \in Nodes
          PROVE  /\ Between(d, side, u, v) \in Nat /\ Between(d, side, u, u) = 0
                 /\ Between(d, Other(side), u, v) = Between(d, side, v, u)
      BY BetweenFacts, ZenonT(30)
    <3> QED BY <3>1, <3>2
  <2> QED BY <2>1, NAssumption DEF Nodes
<1>3. /\ from \in LabelSets /\ <<x, 0>> \in from
      /\ \A k \in from : x <= k[1] /\ Between(d, side, x, k[1]) <= k[2] /\ (k[1] = x => k[2] = 0)
      /\ \A j, k \in from : j[1] = k[1] => j = k
  BY DEF Candidates
<1>4. /\ to \in LabelSets /\ <<h, 0>> \in to
      /\ \A k \in to : h <= k[1] /\ Between(d, Other(side), h, k[1]) <= k[2] /\ (k[1] = h => k[2] = 0)
  BY DEF Compared
<1>5. PICK W : W = Ways(from, to)
  OBVIOUS
<1>6. W \in LabelSets /\ \A g, k : <<g, k>> \in W <=> IsWay(from, to, g, k)
  BY <1>3, <1>4, <1>5, WaysFacts, Zenon
<1>7. D \in Nat
  BY <1>1, <1>2
<1>8. \A w \in W : h <= w[1] /\ D <= w[2]
  <2> SUFFICES ASSUME NEW w \in W PROVE h <= w[1] /\ D <= w[2]
    OBVIOUS
  <2>1. PICK g \in Nodes, k \in Nat : w = <<g, k>>
    BY <1>6 DEF LabelSets
  <2>2. IsWay(from, to, g, k)
    BY <1>6, <2>1
  <2>3. PICK u \in Nat, v \in Nat : <<g, u>> \in from /\ <<g, v>> \in to /\ k = u + v
    BY <2>2 DEF IsWay
  <2>4. Between(d, side, x, g) <= u
    BY <1>3, <2>3
  <2>5. h <= g /\ Between(d, Other(side), h, g) <= v
    BY <1>4, <2>3
  <2>6. Between(d, side, g, h) <= v /\ Between(d, side, g, h) \in Nat /\ Between(d, side, x, g) \in Nat
    BY <1>2, <2>5
  <2>7. D <= Between(d, side, x, g) + Between(d, side, g, h)
    BY <1>1, <1>2
  <2> QED BY <1>7, <2>1, <2>3, <2>4, <2>5, <2>6, <2>7
<1>9. \E w \in W : w[2] = D
  <2>1. CASE x = h
    <3>1. 0 = 0 + 0
      OBVIOUS
    <3>2. IsWay(from, to, h, 0)
      BY <1>3, <1>4, <2>1, <3>1 DEF IsWay
    <3>3. <<h, 0>> \in W /\ D = 0
      BY <1>1, <1>2, <1>6, <2>1, <3>2
    <3> QED BY <3>3
  <2>2. CASE Meets(d, side, x, h, from, to)
    <3>1. PICK g \in Nodes : /\ <<g, Between(d, side, x, g)>> \in from /\ <<g, Between(d, side, g, h)>> \in to
                             /\ Between(d, side, x, g) + Between(d, side, g, h) = D
      BY <1>1, <2>2 DEF Meets
    <3>2. Between(d, side, x, g) \in Nat /\ Between(d, side, g, h) \in Nat
      BY <1>2
    <3>3. IsWay(from, to, g, D)
      BY <3>1, <3>2 DEF IsWay
    <3>4. <<g, D>> \in W
      BY <1>6, <3>3
    <3> QED BY <3>4
  <2> QED BY <2>1, <2>2
<1>10. BestHub(from, to) = h <=> <<h, D>> \in W
  BY <1>3, <1>4, <1>5, <1>7, <1>8, <1>9, BestIsExact, Zenon
<1>11. l \in Nodes \X Nat
  BY <1>3 DEF LabelSets
<1>12. <<h, D>> \in W <=> l[2] = D
  <2>1. ASSUME <<h, D>> \in W PROVE l[2] = D
    <3>1. IsWay(from, to, h, D)
      BY <1>6, <2>1
    <3>2. PICK u \in Nat, v \in Nat : <<h, u>> \in from /\ <<h, v>> \in to /\ D = u + v
      BY <3>1 DEF IsWay
    <3>3. l = <<h, u>>
      BY <1>3, <3>2
    <3>4. v = 0
      BY <1>4, <3>2
    <3> QED BY <3>2, <3>3, <3>4
  <2>2. ASSUME l[2] = D PROVE <<h, D>> \in W
    <3>1. l = <<h, D>> /\ D = D + 0
      BY <1>7, <1>11, <2>2
    <3>2. IsWay(from, to, h, D)
      BY <1>4, <1>7, <3>1 DEF IsWay
    <3> QED BY <1>6, <3>2
  <2> QED BY <2>1, <2>2
<1> QED BY <1>1, <1>10, <1>12

(* What is left of candidates are labels.                                  *)
LEMMA ExactAreLabels ==
    ASSUME NEW d, MetricOn(Nodes, d), NEW side \in Sides, NEW x \in Nodes, NEW from, Candidates(d, side, x, from)
    PROVE  LabelsOf(d, side, x, ExactOf(d, side, x, from))
<1>1. Between(d, side, x, x) = 0
  BY BetweenFacts, Zenon
<1>2. <<x, 0>> \in ExactOf(d, side, x, from)
  BY <1>1 DEF Candidates, ExactOf
<1>3. ExactOf(d, side, x, from) \in LabelSets
  BY DEF Candidates, LabelSets, ExactOf
<1> QED BY <1>2, <1>3 DEF Candidates, LabelsOf, ExactOf

(* Labels of one more node.                                                *)
LabelsAdded(d, lab2, lab, x, fw, bw) ==
    /\ \A side \in Sides : \A y \in Nodes : y # x => lab2[side][y] = lab[side][y]
    /\ lab2["fw"][x] = ExactOf(d, "fw", x, fw) /\ lab2["bw"][x] = ExactOf(d, "bw", x, bw)

(* With the exact labels of one more node, labels remain what they have to *)
(* be.                                                                     *)
LEMMA LabelsStayOK ==
    ASSUME NEW d, NEW out, NEW in, GoesUp(d, out, in), NEW lab, NEW x \in Nodes, LabelsOK(d, lab, x + 1),
           NEW fw, Candidates(d, "fw", x, fw), CandidatesOver(out, in, lab, "fw", x, fw),
           NEW bw, Candidates(d, "bw", x, bw), CandidatesOver(out, in, lab, "bw", x, bw),
           NEW lab2, LabelsAdded(d, lab2, lab, x, fw, bw)
    PROVE  LabelsOK(d, lab2, x)
<1>1. MetricOn(Nodes, d) /\ \A y \in Nodes : y \in Nat
  BY NAssumption DEF GoesUp, Nodes
<1>2. PICK from : from = [side \in Sides |-> IF side = "fw" THEN fw ELSE bw]
  OBVIOUS
<1>3. from["fw"] = fw /\ from["bw"] = bw
  BY <1>2, SidesAre
<1>4. \A side \in Sides : /\ Candidates(d, side, x, from[side]) /\ CandidatesOver(out, in, lab, side, x, from[side])
                          /\ lab2[side][x] = ExactOf(d, side, x, from[side])
  <2> SUFFICES ASSUME NEW side \in Sides
               PROVE  /\ Candidates(d, side, x, from[side]) /\ CandidatesOver(out, in, lab, side, x, from[side])
                      /\ lab2[side][x] = ExactOf(d, side, x, from[side])
    OBVIOUS
  <2>1. CASE side = "fw"
    BY <1>3, <2>1, Zenon DEF LabelsAdded
  <2>2. CASE side = "bw"
    BY <1>3, <2>2, Zenon DEF LabelsAdded
  <2> QED BY <2>1, <2>2, SidesAre
<1>5. \A side \in Sides : \A y \in Nodes : y # x => lab2[side][y] = lab[side][y]
  BY DEF LabelsAdded
<1>6. \A side \in Sides : \A u, v \in Nodes : /\ Between(d, side, u, v) \in Nat /\ Between(d, side, u, u) = 0
                                              /\ Between(d, Other(side), u, v) = Between(d, side, v, u)
  <2>1. ASSUME NEW side \in Sides, NEW u \in Nodes, NEW v \in Nodes
        PROVE  /\ Between(d, side, u, v) \in Nat /\ Between(d, side, u, u) = 0
               /\ Between(d, Other(side), u, v) = Between(d, side, v, u)
    BY <1>1, BetweenFacts, Zenon
  <2> QED BY <2>1
<1>7. ASSUME NEW side \in Sides, NEW y \in Nodes, x < y, Between(d, side, x, y) < Inf
      PROVE  Meets(d, side, x, y, lab2[side][x], lab2[Other(side)][y])
  <2>1. Meets(d, side, x, y, from[side], lab[Other(side)][y])
    BY <1>4, <1>7, CandidatesMeet, Zenon
  <2>2. y # x /\ Other(side) \in Sides
    BY <1>1, <1>7, OtherFacts
  <2>3. lab2[Other(side)][y] = lab[Other(side)][y]
    BY <1>5, <2>2
  <2>4. PICK h \in Nodes : /\ <<h, Between(d, side, x, h)>> \in from[side] /\ <<h, Between(d, side, h, y)>> \in lab[Other(side)][y]
                           /\ Between(d, side, x, h) + Between(d, side, h, y) = Between(d, side, x, y)
    BY <2>1 DEF Meets
  <2>5. <<h, Between(d, side, x, h)>> \in lab2[side][x]
    BY <1>4, <2>4 DEF ExactOf
  <2> QED BY <2>3, <2>4, <2>5 DEF Meets
<1>8. \A side \in Sides : Other(side) \in Sides /\ Other(Other(side)) = side
  BY SidesAre DEF Other
<1>9. ASSUME NEW side \in Sides, NEW y \in Nodes, x < y, Between(d, side, y, x) < Inf
      PROVE  Meets(d, side, y, x, lab2[side][y], lab2[Other(side)][x])
  <2>1. PICK o \in Sides : o = Other(side) /\ Other(o) = side
    BY <1>8
  <2>2. \A u, v \in Nodes : Between(d, o, u, v) = Between(d, side, v, u)
    BY <1>6, <2>1
  <2>3. Meets(d, o, x, y, lab2[o][x], lab2[Other(o)][y])
    <3>1. Between(d, o, x, y) < Inf
      BY <1>9, <2>2
    <3> QED BY <1>7, <1>9, <3>1
  <2>4. PICK h \in Nodes : /\ <<h, Between(d, o, x, h)>> \in lab2[o][x] /\ <<h, Between(d, o, h, y)>> \in lab2[Other(o)][y]
                           /\ Between(d, o, x, h) + Between(d, o, h, y) = Between(d, o, x, y)
    BY <2>3 DEF Meets
  <2>5. /\ <<h, Between(d, side, h, x)>> \in lab2[Other(side)][x] /\ <<h, Between(d, side, y, h)>> \in lab2[side][y]
    BY <2>1, <2>2, <2>4
  <2>6. Between(d, side, y, h) + Between(d, side, h, x) = Between(d, side, y, x)
    <3>1. Between(d, side, h, x) + Between(d, side, y, h) = Between(d, side, y, x)
      BY <2>2, <2>4
    <3>2. Between(d, side, h, x) \in Nat /\ Between(d, side, y, h) \in Nat
      BY <1>6
    <3> QED BY <3>1, <3>2
  <2> QED BY <2>5, <2>6 DEF Meets
<1>10. ASSUME NEW side \in Sides, NEW y \in Nodes, x <= y PROVE LabelsOf(d, side, y, lab2[side][y])
  <2>1. CASE y = x
    BY <1>1, <1>4, <2>1, ExactAreLabels
  <2>2. CASE y # x
    <3>1. x + 1 <= y
      BY <1>1, <1>10, <2>2
    <3>2. LabelsOf(d, side, y, lab[side][y])
      BY <3>1 DEF LabelsOK
    <3> QED BY <1>5, <2>2, <3>2
  <2> QED BY <2>1, <2>2
<1>11. ASSUME NEW side \in Sides PROVE Meets(d, side, x, x, lab2[side][x], lab2[Other(side)][x])
  <2>1. <<x, 0>> \in lab2[side][x] /\ <<x, 0>> \in lab2[Other(side)][x]
    <3>1. LabelsOf(d, side, x, lab2[side][x]) /\ LabelsOf(d, Other(side), x, lab2[Other(side)][x])
      BY <1>1, <1>8, <1>10
    <3> QED BY <3>1 DEF LabelsOf
  <2>2. Between(d, side, x, x) = 0
    BY <1>6
  <2> QED BY <2>1, <2>2 DEF Meets
<1>12. ASSUME NEW side \in Sides, NEW u \in Nodes, NEW y \in Nodes, x <= u, x <= y, Between(d, side, u, y) < Inf
       PROVE  Meets(d, side, u, y, lab2[side][u], lab2[Other(side)][y])
  <2>1. CASE u = x /\ y = x
    BY <1>11, <2>1
  <2>2. CASE u = x /\ x < y
    BY <1>7, <1>12, <2>2
  <2>3. CASE x < u /\ y = x
    BY <1>9, <1>12, <2>3
  <2>4. CASE x < u /\ x < y
    <3>1. x + 1 <= u /\ x + 1 <= y /\ u # x /\ y # x
      BY <1>1, <2>4
    <3>2. Meets(d, side, u, y, lab[side][u], lab[Other(side)][y])
      BY <1>12, <3>1 DEF LabelsOK
    <3>3. lab2[side][u] = lab[side][u] /\ lab2[Other(side)][y] = lab[Other(side)][y]
      BY <1>5, <1>8, <3>1
    <3> QED BY <3>2, <3>3
  <2> QED BY <1>1, <1>12, <2>1, <2>2, <2>3, <2>4
<1> QED BY <1>10, <1>12 DEF LabelsOK

(* Pruning drops exactly the candidates that are no distances: the hub of  *)
(* any other is its own best hub.                                          *)
LEMMA PrunedIsExact ==
    ASSUME NEW d, NEW out, NEW in, GoesUp(d, out, in), NEW lab, NEW x \in Nodes, LabelsOK(d, lab, x + 1),
           NEW side \in Sides, NEW from, Candidates(d, side, x, from), CandidatesOver(out, in, lab, side, x, from),
           NEW to, Compared(d, Other(side), x, to[x]), \A h \in Nodes : h # x => to[h] = lab[Other(side)][h]
    PROVE  /\ {l \in from : BestHub(from, to[l[1]]) = l[1]} = ExactOf(d, side, x, from)
           /\ {l \in from : BestHub(to[l[1]], from) = l[1]} = ExactOf(d, side, x, from)
<1>1. MetricOn(Nodes, d) /\ \A y \in Nodes : y \in Nat
  BY NAssumption DEF GoesUp, Nodes
<1>2. Other(side) \in Sides
  BY OtherFacts
<1>3. from \in LabelSets /\ \A l \in from : l \in Nodes \X Nat /\ x <= l[1] /\ Between(d, side, x, l[1]) < Inf
  BY DEF Candidates, LabelSets
<1>4. ASSUME NEW l \in from
      PROVE  /\ BestHub(from, to[l[1]]) = l[1] <=> l[2] = Between(d, side, x, l[1])
             /\ BestHub(to[l[1]], from) = l[1] <=> l[2] = Between(d, side, x, l[1])
  <2>0. PICK h \in Nodes : h = l[1]
    BY <1>3
  <2>1. PICK t : h = l[1] /\ t = to[h]
    BY <2>0
  <2>2. Between(d, side, x, h) < Inf /\ x <= h /\ l[1] = h
    BY <1>3, <2>1
  <2>3. CASE h = x
    <3>1. Compared(d, Other(side), h, t)
      BY <2>1, <2>3, Zenon
    <3>2. BestHub(from, t) = h <=> l[2] = Between(d, side, x, h)
      <4>1. x = h \/ Meets(d, side, x, h, from, t)
        BY <2>3
      <4> QED BY <1>1, <2>2, <3>1, <4>1, BestForItself
    <3>3. t \in LabelSets
      BY <3>1 DEF Compared
    <3>4. BestHub(from, t) = BestHub(t, from)
      BY <1>3, <3>3, WaysCommute, Zenon
    <3> QED BY <2>1, <3>2, <3>4, Zenon
  <2>4. CASE h # x
    <3>1. x < h /\ x + 1 <= h
      BY <1>1, <2>2, <2>4
    <3>2. t = lab[Other(side)][h]
      BY <2>1, <2>4
    <3>3. LabelsOf(d, Other(side), h, t)
      BY <1>2, <3>1, <3>2 DEF LabelsOK
    <3>4. Compared(d, Other(side), h, t)
      BY <1>1, <1>2, <3>3, LabelsAreCompared, Zenon
    <3>5. Meets(d, side, x, h, from, lab[Other(side)][h])
      BY <2>2, <3>1, CandidatesMeet, Zenon
    <3>6. Meets(d, side, x, h, from, t)
      BY <3>2, <3>5, Zenon
    <3>7. BestHub(from, t) = h <=> l[2] = Between(d, side, x, h)
      <4>1. x = h \/ Meets(d, side, x, h, from, t)
        BY <3>6
      <4> QED BY <1>1, <2>2, <3>4, <4>1, BestForItself
    <3>8. t \in LabelSets
      BY <3>4 DEF Compared
    <3>9. BestHub(from, t) = BestHub(t, from)
      BY <1>3, <3>8, WaysCommute, Zenon
    <3> QED BY <2>1, <3>7, <3>9, Zenon
  <2> QED BY <2>3, <2>4
<1>5. {l \in from : BestHub(from, to[l[1]]) = l[1]} = ExactOf(d, side, x, from)
  BY <1>4, Zenon DEF ExactOf
<1>6. {l \in from : BestHub(to[l[1]], from) = l[1]} = ExactOf(d, side, x, from)
  BY <1>4, Zenon DEF ExactOf
<1> QED BY <1>5, <1>6

(* Merged chooses the lightest labels.                                     *)
LEMMA MergedIs ==
    ASSUME outgoing \in [Nodes -> Seq(Links)], incoming \in [Nodes -> Seq(Links)], NEW x \in Nodes, NEW side \in Sides,
           labels[side] \in [Nodes -> LabelSets]
    PROVE  Merged(side, x) = Lightest(AllOf(outgoing, incoming, labels, side, x))
<1>1. PICK up, lab : up = UpwardLinks(side, x) /\ lab = labels[side]
  OBVIOUS
<1>2. \A link \in up : link \in Links
  <2>1. PICK list : list = IF side = "fw" THEN outgoing[x] ELSE incoming[x]
    OBVIOUS
  <2>2. list \in Seq(Links)
    BY <2>1
  <2>3. up = ToSet(list)
    BY <1>1, <2>1, Zenon DEF UpwardLinks
  <2> QED BY <2>2, <2>3 DEF ToSet
<1>3. \A link \in Links : link.node \in Nodes /\ link.weight \in Nat
  BY InfAssumption DEF Links, Weight
<1>4. \A z, w : w \in UpWeights(outgoing, incoming, side, x, z) <=> \E link \in up : link.node = z /\ link.weight = w
  <2>1. \A z : UpWeights(outgoing, incoming, side, x, z) = {link.weight : link \in {l \in up : l.node = z}}
    BY <1>1, Zenon DEF UpWeights, UpwardLinks, WeightsTo
  <2> QED BY <2>1
<1>5. \A z \in Nodes : \A k \in lab[z] : k \in Nodes \X Nat
  <2>1. \A z \in Nodes : lab[z] \in LabelSets
    BY <1>1
  <2> QED BY <2>1 DEF LabelSets
<1>6. PICK all : all = {<<x, 0>>} \cup
                   UNION {{<<l[1], l[2] + link.weight>> : l \in labels[side][link.node]} : link \in UpwardLinks(side, x)}
  OBVIOUS
<1>7. ASSUME NEW l PROVE l \in all <=> l \in AllOf(outgoing, incoming, labels, side, x)
  <2>1. l \in all <=> l = <<x, 0>> \/ \E link \in up : \E k \in lab[link.node] : l = <<k[1], k[2] + link.weight>>
    BY <1>1, <1>6
  <2>2. (\E link \in up : \E k \in lab[link.node] : l = <<k[1], k[2] + link.weight>>)
        => l \in Nodes \X Nat /\ FromHigher(outgoing, incoming, labels, side, x, l)
    <3> SUFFICES ASSUME NEW link \in up, NEW k \in lab[link.node], l = <<k[1], k[2] + link.weight>>
                 PROVE  l \in Nodes \X Nat /\ FromHigher(outgoing, incoming, labels, side, x, l)
      OBVIOUS
    <3>1. PICK z \in Nodes, w \in Nat : z = link.node /\ w = link.weight
      BY <1>2, <1>3
    <3>2. w \in UpWeights(outgoing, incoming, side, x, z) /\ k \in labels[side][z] /\ l = <<k[1], k[2] + w>>
      BY <1>1, <1>4, <3>1, Zenon
    <3>3. k \in Nodes \X Nat
      BY <1>5, <3>1
    <3>4. l \in Nodes \X Nat
      BY <3>2, <3>3
    <3> QED BY <3>2, <3>4, Zenon DEF FromHigher
  <2>3. FromHigher(outgoing, incoming, labels, side, x, l)
        => \E link \in up : \E k \in lab[link.node] : l = <<k[1], k[2] + link.weight>>
    <3> SUFFICES ASSUME FromHigher(outgoing, incoming, labels, side, x, l)
                 PROVE  \E link \in up : \E k \in lab[link.node] : l = <<k[1], k[2] + link.weight>>
      OBVIOUS
    <3>1. PICK z \in Nodes : \E w \in UpWeights(outgoing, incoming, side, x, z) : \E k \in labels[side][z] : l = <<k[1], k[2] + w>>
      BY DEF FromHigher
    <3>2. PICK w \in UpWeights(outgoing, incoming, side, x, z) : \E k \in labels[side][z] : l = <<k[1], k[2] + w>>
      BY <3>1
    <3>3. PICK link \in up : link.node = z /\ link.weight = w
      BY <1>4, Zenon
    <3> QED BY <1>1, <3>2, <3>3, Zenon
  <2>4. l = <<x, 0>> => l \in Nodes \X Nat
    OBVIOUS
  <2> QED BY <2>1, <2>2, <2>3, <2>4, Zenon DEF AllOf
<1>8. all = AllOf(outgoing, incoming, labels, side, x)
  BY <1>7, Zenon
<1>9. Merged(side, x) = {l \in all : \A other \in all : other[1] = l[1] => l[2] <= other[2]}
  BY <1>6, Zenon DEF Merged
<1> QED BY <1>8, <1>9, Zenon DEF Lightest

(* LabelNode, in terms of the state before it.                             *)
Labeled(lab2, lab, x, mfw, mbw) ==
    \E out, in, merged, pruned :
        /\ merged = [lab EXCEPT !["fw"][x] = mfw, !["bw"][x] = mbw]
        /\ out = {l \in merged["fw"][x] : BestHub(merged["fw"][x], merged["bw"][l[1]]) = l[1]}
        /\ pruned = [merged EXCEPT !["fw"][x] = out]
        /\ in = {l \in merged["bw"][x] : BestHub(pruned["fw"][l[1]], merged["bw"][x]) = l[1]}
        /\ lab2 = [pruned EXCEPT !["bw"][x] = in]

(* The labels of one more node, first one side and then the other.         *)
LEMMA LabeledFacts ==
    ASSUME NEW d, NEW out, NEW in, GoesUp(d, out, in), NEW lab \in [Sides -> [Nodes -> LabelSets]], NEW x \in Nodes,
           LabelsOK(d, lab, x + 1),
           NEW mfw, Candidates(d, "fw", x, mfw), CandidatesOver(out, in, lab, "fw", x, mfw),
           NEW mbw, Candidates(d, "bw", x, mbw), CandidatesOver(out, in, lab, "bw", x, mbw),
           NEW lab2, Labeled(lab2, lab, x, mfw, mbw)
    PROVE  lab2 \in [Sides -> [Nodes -> LabelSets]] /\ LabelsOK(d, lab2, x)
<1>1. PICK ofw, obw, merged, pruned :
        /\ merged = [lab EXCEPT !["fw"][x] = mfw, !["bw"][x] = mbw]
        /\ ofw = {l \in merged["fw"][x] : BestHub(merged["fw"][x], merged["bw"][l[1]]) = l[1]}
        /\ pruned = [merged EXCEPT !["fw"][x] = ofw]
        /\ obw = {l \in merged["bw"][x] : BestHub(pruned["fw"][l[1]], merged["bw"][x]) = l[1]}
        /\ lab2 = [pruned EXCEPT !["bw"][x] = obw]
  BY DEF Labeled
<1>2. MetricOn(Nodes, d) /\ Other("fw") = "bw" /\ Other("bw") = "fw"
  BY SidesAre DEF GoesUp, Other
<1>3. mfw \in LabelSets /\ mbw \in LabelSets
  BY DEF Candidates
<1>4. /\ merged \in [Sides -> [Nodes -> LabelSets]] /\ merged["fw"][x] = mfw /\ merged["bw"][x] = mbw
      /\ \A side \in Sides : \A y \in Nodes : y # x => merged[side][y] = lab[side][y]
  <2>1. PICK one : one = [lab EXCEPT !["fw"][x] = mfw]
    OBVIOUS
  <2>2. /\ one \in [Sides -> [Nodes -> LabelSets]] /\ one["fw"][x] = mfw
        /\ \A side \in Sides : \A y \in Nodes : y # x => one[side][y] = lab[side][y]
    BY <1>3, <2>1, SidesAre
  <2>3. merged = [one EXCEPT !["bw"][x] = mbw]
    BY <1>1, <2>1
  <2> QED BY <1>3, <2>2, <2>3, SidesAre
<1>5. ofw = ExactOf(d, "fw", x, mfw)
  <2>1. PICK to : to = merged["bw"]
    OBVIOUS
  <2>2. Compared(d, Other("fw"), x, to[x])
    BY <1>2, <1>4, <2>1, CandidatesAreCompared, Zenon
  <2>3. \A h \in Nodes : h # x => to[h] = lab[Other("fw")][h]
    BY <1>2, <1>4, <2>1, SidesAre, Zenon
  <2>4. {l \in mfw : BestHub(mfw, to[l[1]]) = l[1]} = ExactOf(d, "fw", x, mfw)
    <3>1. "fw" \in Sides /\ "bw" \in Sides
      BY SidesAre
    <3> QED BY <2>2, <2>3, <3>1, PrunedIsExact
  <2> QED BY <1>1, <1>4, <2>1, <2>4, Zenon
<1>6. LabelsOf(d, "fw", x, ofw)
  <2>1. LabelsOf(d, "fw", x, ExactOf(d, "fw", x, mfw))
    BY <1>2, SidesAre, ExactAreLabels, Zenon
  <2> QED BY <1>5, <2>1, Zenon
<1>7. ofw \in LabelSets
  BY <1>6 DEF LabelsOf
<1>8. /\ pruned \in [Sides -> [Nodes -> LabelSets]] /\ pruned["fw"][x] = ofw /\ pruned["bw"][x] = mbw
      /\ \A side \in Sides : \A y \in Nodes : y # x => pruned[side][y] = lab[side][y]
  BY <1>1, <1>4, <1>7, SidesAre
<1>9. obw = ExactOf(d, "bw", x, mbw)
  <2>1. PICK to : to = pruned["fw"]
    OBVIOUS
  <2>2. Compared(d, Other("bw"), x, to[x])
    <3>1. Compared(d, "fw", x, ofw)
      BY <1>2, <1>6, SidesAre, LabelsAreCompared, Zenon
    <3> QED BY <1>2, <1>8, <2>1, <3>1, Zenon
  <2>3. \A h \in Nodes : h # x => to[h] = lab[Other("bw")][h]
    BY <1>2, <1>8, <2>1, SidesAre, Zenon
  <2>4. {l \in mbw : BestHub(to[l[1]], mbw) = l[1]} = ExactOf(d, "bw", x, mbw)
    <3>1. "fw" \in Sides /\ "bw" \in Sides
      BY SidesAre
    <3> QED BY <2>2, <2>3, <3>1, PrunedIsExact
  <2> QED BY <1>1, <1>4, <2>1, <2>4, Zenon
<1>10. obw \in LabelSets
  BY <1>3, <1>9 DEF ExactOf, LabelSets
<1>11. /\ lab2 \in [Sides -> [Nodes -> LabelSets]] /\ lab2["fw"][x] = ofw /\ lab2["bw"][x] = obw
       /\ \A side \in Sides : \A y \in Nodes : y # x => lab2[side][y] = lab[side][y]
  <2>1. lab2 = [pruned EXCEPT !["bw"][x] = obw]
    BY <1>1
  <2>2. lab2 \in [Sides -> [Nodes -> LabelSets]]
    BY <1>8, <1>10, <2>1, SidesAre
  <2>3. lab2["fw"][x] = ofw /\ lab2["bw"][x] = obw
    BY <1>8, <2>1, SidesAre
  <2>4. \A side \in Sides : \A y \in Nodes : y # x => lab2[side][y] = pruned[side][y]
    BY <1>8, <2>1, SidesAre
  <2> QED BY <1>8, <2>2, <2>3, <2>4
<1>12. LabelsAdded(d, lab2, lab, x, mfw, mbw)
  BY <1>5, <1>9, <1>11, Zenon DEF LabelsAdded
<1>13. LabelsOK(d, lab2, x)
  BY <1>12, LabelsStayOK, Zenon
<1> QED BY <1>11, <1>13

-----------------------------------------------------------------------------
(* Hub labels: the invariant                                               *)

(* The inductive invariant of labels, of networks with short paths: nodes  *)
(* are labeled from the top down, once the hierarchy is complete.          *)
LabelsInv ==
    /\ unlabeled \in 0 .. N
    /\ unlabeled # N => lowest = N /\ pairs = <<>> /\ panicked = FALSE
    /\ ShortPaths(network.arcs, network.dist) =>
           labels \in [Sides -> [Nodes -> LabelSets]] /\ LabelsOK(network.dist, labels, unlabeled)

(* The best common hub gives the distance, and there is one if there is a  *)
(* path.                                                                   *)
LEMMA CommonHubs ==
    ASSUME NEW m, NEW d, MetricOn(Nodes, d), ShortPaths(m, d), NEW x \in Nodes, NEW y \in Nodes,
           NEW from, LabelsOf(d, "fw", x, from), NEW to, LabelsOf(d, "bw", y, to),
           d[<<x, y>>] < Inf => Meets(d, "fw", x, y, from, to)
    PROVE  d[<<x, y>>] = Lowest({w[2] : w \in Ways(from, to)} \cup {Inf})
<1>1. /\ \A a, b \in Nodes : d[<<a, b>>] \in Nat /\ d[<<a, b>>] <= Inf
      /\ \A a, b, c \in Nodes : d[<<a, c>>] <= d[<<a, b>>] + d[<<b, c>>]
      /\ \A a, b, c \in Nodes : d[<<a, b>>] < Inf /\ d[<<b, c>>] < Inf => d[<<a, c>>] < Inf
      /\ Inf \in Nat
  BY InfAssumption DEF MetricOn, ShortPaths
<1>2. /\ from \in LabelSets /\ \A l \in from : l[2] = d[<<x, l[1]>>] /\ l[2] < Inf
      /\ to \in LabelSets /\ \A l \in to : l[2] = d[<<l[1], y>>] /\ l[2] < Inf
  BY SidesAre DEF LabelsOf, Between
<1>3. PICK W : W = Ways(from, to)
  OBVIOUS
<1>4. W \in LabelSets /\ \A h, k : <<h, k>> \in W <=> IsWay(from, to, h, k)
  BY <1>2, <1>3, WaysFacts, Zenon
<1>5. \A w \in W : w \in Nodes \X Nat /\ d[<<x, y>>] <= w[2] /\ d[<<x, y>>] < Inf
  <2> SUFFICES ASSUME NEW w \in W PROVE w \in Nodes \X Nat /\ d[<<x, y>>] <= w[2] /\ d[<<x, y>>] < Inf
    OBVIOUS
  <2>1. PICK h \in Nodes, k \in Nat : w = <<h, k>>
    BY <1>4 DEF LabelSets
  <2>2. IsWay(from, to, h, k)
    BY <1>4, <2>1
  <2>3. PICK u \in Nat, v \in Nat : <<h, u>> \in from /\ <<h, v>> \in to /\ k = u + v
    BY <2>2 DEF IsWay
  <2>4. u = d[<<x, h>>] /\ v = d[<<h, y>>] /\ u < Inf /\ v < Inf
    BY <1>2, <2>3
  <2> QED BY <1>1, <2>1, <2>3, <2>4
<1>6. PICK V : V = {w[2] : w \in W} \cup {Inf}
  OBVIOUS
<1>7. V \in SUBSET Nat /\ V # {} /\ Inf \in V
  BY <1>1, <1>5, <1>6
<1>8. Lowest(V) \in V /\ \A k \in V : Lowest(V) <= k
  BY <1>7, LowestIsLeast
<1>9. d[<<x, y>>] <= Lowest(V)
  BY <1>1, <1>5, <1>6, <1>8
<1>10. Lowest(V) <= d[<<x, y>>]
  <2>1. CASE d[<<x, y>>] < Inf
    <3>1. PICK h \in Nodes : /\ <<h, Between(d, "fw", x, h)>> \in from /\ <<h, Between(d, "fw", h, y)>> \in to
                             /\ Between(d, "fw", x, h) + Between(d, "fw", h, y) = Between(d, "fw", x, y)
      BY <2>1 DEF Meets
    <3>2. <<h, d[<<x, h>>]>> \in from /\ <<h, d[<<h, y>>]>> \in to /\ d[<<x, y>>] = d[<<x, h>>] + d[<<h, y>>]
      BY <3>1 DEF Between
    <3>3. IsWay(from, to, h, d[<<x, y>>])
      BY <1>1, <3>2 DEF IsWay
    <3>4. <<h, d[<<x, y>>]>> \in W
      BY <1>4, <3>3
    <3>5. d[<<x, y>>] \in V
      BY <1>6, <3>4
    <3> QED BY <1>8, <3>5
  <2>2. CASE ~ d[<<x, y>>] < Inf
    <3>1. d[<<x, y>>] = Inf
      BY <1>1, <2>2
    <3> QED BY <1>7, <1>8, <3>1
  <2> QED BY <2>1, <2>2
<1>11. Lowest(V) \in Nat /\ d[<<x, y>>] \in Nat
  BY <1>1, <1>7, <1>8
<1>12. d[<<x, y>>] = Lowest(V)
  BY <1>9, <1>10, <1>11
<1> QED BY <1>3, <1>6, <1>12, Zenon

(* The property follows from the invariants.                               *)
LEMMA LabelsAreExact ==
    ASSUME ContractionInv, LabelsInv, ShortPaths(network.arcs, network.dist) PROVE HubsAreExact
<1>1. PICK m, d, lab, un : m = network.arcs /\ d = network.dist /\ lab = labels /\ un = unlabeled
  OBVIOUS
<1>2. /\ ShortPaths(m, d) /\ lab \in [Sides -> [Nodes -> LabelSets]] /\ LabelsOK(d, lab, un) /\ un \in 0 .. N
  BY <1>1, Zenon DEF LabelsInv
<1>3. MetricOn(Nodes, d)
  <2>1. m \in ArcSets /\ d = Distances(m)
    <3>1. m \in Metrics /\ d = Distances(m)
      BY <1>1, Zenon DEF ContractionInv, ContractionOK
    <3> QED BY <3>1, MetricsAssumption DEF Metric, Weight, ArcSets
  <2>2. Spanned(Nodes, m, Distances(m))
    BY <2>1, DistancesAreSpanned, Zenon
  <2> QED BY <2>1, <2>2 DEF Spanned
<1>4. ASSUME NEW x \in un .. N - 1, NEW y \in un .. N - 1
      PROVE  /\ \A l \in lab["fw"][x] : l[2] = d[<<x, l[1]>>]
             /\ \A l \in lab["bw"][x] : l[2] = d[<<l[1], x>>]
             /\ d[<<x, y>>] = Lowest({w[2] : w \in Ways(lab["fw"][x], lab["bw"][y])} \cup {Inf})
  <2>1. x \in Nodes /\ y \in Nodes /\ un <= x /\ un <= y
    BY <1>2, NAssumption DEF Nodes
  <2>2. LabelsOf(d, "fw", x, lab["fw"][x]) /\ LabelsOf(d, "bw", x, lab["bw"][x]) /\ LabelsOf(d, "bw", y, lab["bw"][y])
    BY <1>2, <2>1, SidesAre DEF LabelsOK
  <2>3. d[<<x, y>>] < Inf => Meets(d, "fw", x, y, lab["fw"][x], lab["bw"][y])
    <3>1. Between(d, "fw", x, y) = d[<<x, y>>] /\ Other("fw") = "bw"
      BY DEF Between, Other
    <3> QED BY <1>2, <2>1, <3>1, SidesAre DEF LabelsOK
  <2>4. d[<<x, y>>] = Lowest({w[2] : w \in Ways(lab["fw"][x], lab["bw"][y])} \cup {Inf})
    <3>1. PICK from, to : from = lab["fw"][x] /\ to = lab["bw"][y]
      OBVIOUS
    <3>2. LabelsOf(d, "fw", x, from) /\ LabelsOf(d, "bw", y, to) /\ (d[<<x, y>>] < Inf => Meets(d, "fw", x, y, from, to))
      BY <2>2, <2>3, <3>1, Zenon
    <3>3. ShortPaths(m, d)
      BY <1>2
    <3>4. d[<<x, y>>] = Lowest({w[2] : w \in Ways(from, to)} \cup {Inf})
      BY <1>3, <2>1, <3>2, <3>3, CommonHubs
    <3> QED BY <3>1, <3>4, Zenon
  <2>5. \A l \in lab["fw"][x] : l[2] = d[<<x, l[1]>>]
    BY <2>2 DEF LabelsOf, Between
  <2>6. \A l \in lab["bw"][x] : l[2] = d[<<l[1], x>>]
    BY <2>2, SidesAre DEF LabelsOf, Between
  <2> QED BY <2>4, <2>5, <2>6
<1> QED BY <1>1, <1>4, ZenonT(30) DEF HubsAreExact

(* Labeling a node keeps the invariant.                                    *)
LEMMA LabelKeeps == ContractionInv /\ ReachInv /\ LabelsInv /\ LabelNode => LabelsInv'
<1> SUFFICES ASSUME ContractionInv, ReachInv, LabelsInv, LabelNode PROVE LabelsInv'
  OBVIOUS
<1>1. PICK m, d, out, in, lab, un : /\ m = network.arcs /\ d = network.dist /\ out = outgoing /\ in = incoming
                                    /\ lab = labels /\ un = unlabeled
  OBVIOUS
<1>2. /\ lowest = N /\ pairs = <<>> /\ panicked = FALSE /\ un > 0 /\ un \in 0 .. N /\ unlabeled' = un - 1
      /\ network' = network /\ outgoing' = outgoing /\ incoming' = incoming /\ lowest' = lowest /\ pairs' = pairs
      /\ panicked' = panicked
  <2>1. panicked \in BOOLEAN
    BY DEF ContractionInv, ContractionOK
  <2> QED BY <1>1, <2>1 DEF LabelNode, LabelsInv, hierarchyVars, contractionVars
<1>3. PICK x : x = un - 1
  OBVIOUS
<1>4. x \in Nodes /\ un = x + 1 /\ x \in 0 .. N /\ unlabeled' = x
  BY <1>2, <1>3, NAssumption DEF Nodes
<1>5. ASSUME ShortPaths(m, d) PROVE labels' \in [Sides -> [Nodes -> LabelSets]] /\ LabelsOK(d, labels', x)
  <2>1. ContractionOK(m, d, out, in, N, <<>>, FALSE) /\ ReachOK(m, d, out, in, <<>>, FALSE)
    BY <1>1, <1>2, Zenon DEF ContractionInv, ReachInv
  <2>2. GoesUp(d, out, in)
    BY <2>1, MetricGoesUp, Zenon
  <2>3. LinksReach(d, out, in, <<>>)
    BY <1>5, <2>1 DEF ReachOK
  <2>4. lab \in [Sides -> [Nodes -> LabelSets]] /\ LabelsOK(d, lab, x + 1)
    <3>1. labels \in [Sides -> [Nodes -> LabelSets]] /\ LabelsOK(network.dist, labels, unlabeled)
      BY <1>1, <1>5, Zenon DEF LabelsInv
    <3> QED BY <1>1, <1>4, <3>1, Zenon
  <2>5. PICK mfw, mbw : mfw = Merged("fw", x) /\ mbw = Merged("bw", x)
    OBVIOUS
  <2>6. mfw = Lightest(AllOf(out, in, lab, "fw", x)) /\ mbw = Lightest(AllOf(out, in, lab, "bw", x))
    <3>1. outgoing \in [Nodes -> Seq(Links)] /\ incoming \in [Nodes -> Seq(Links)]
      BY <1>1, <2>1 DEF ContractionOK, ListsOK
    <3>2. labels["fw"] \in [Nodes -> LabelSets] /\ labels["bw"] \in [Nodes -> LabelSets]
      BY <1>1, <2>4, SidesAre
    <3>3. /\ Merged("fw", x) = Lightest(AllOf(outgoing, incoming, labels, "fw", x))
          /\ Merged("bw", x) = Lightest(AllOf(outgoing, incoming, labels, "bw", x))
      BY <1>4, <3>1, <3>2, MergedIs, SidesAre
    <3> QED BY <1>1, <2>5, <3>3, Zenon
  <2>7. /\ Candidates(d, "fw", x, Lightest(AllOf(out, in, lab, "fw", x)))
        /\ CandidatesOver(out, in, lab, "fw", x, Lightest(AllOf(out, in, lab, "fw", x)))
        /\ Candidates(d, "bw", x, Lightest(AllOf(out, in, lab, "bw", x)))
        /\ CandidatesOver(out, in, lab, "bw", x, Lightest(AllOf(out, in, lab, "bw", x)))
    BY <1>4, <1>5, <2>2, <2>3, <2>4, SidesAre, CandidatesFacts, Zenon
  <2>8. /\ Candidates(d, "fw", x, mfw) /\ CandidatesOver(out, in, lab, "fw", x, mfw)
        /\ Candidates(d, "bw", x, mbw) /\ CandidatesOver(out, in, lab, "bw", x, mbw)
    BY <2>6, <2>7, Zenon
  <2>9. PICK lab2 : lab2 = labels' /\ Labeled(lab2, lab, x, mfw, mbw)
    <3> DEFINE y == unlabeled - 1
               both == [labels EXCEPT !["fw"][y] = Merged("fw", y), !["bw"][y] = Merged("bw", y)]
               ofw == {l \in both["fw"][y] : BestHub(both["fw"][y], both["bw"][l[1]]) = l[1]}
               half == [both EXCEPT !["fw"][y] = ofw]
               obw == {l \in both["bw"][y] : BestHub(half["fw"][l[1]], both["bw"][y]) = l[1]}
    <3>1. y = x
      BY <1>1, <1>3
    <3>2. Labeled(labels', labels, y, Merged("fw", y), Merged("bw", y))
      <4>1. labels' = [half EXCEPT !["bw"][y] = obw]
        BY DEF LabelNode
      <4> SUFFICES \E out1, in1, merged, pruned :
                     /\ merged = both
                     /\ out1 = {l \in merged["fw"][y] : BestHub(merged["fw"][y], merged["bw"][l[1]]) = l[1]}
                     /\ pruned = [merged EXCEPT !["fw"][y] = out1]
                     /\ in1 = {l \in merged["bw"][y] : BestHub(pruned["fw"][l[1]], merged["bw"][y]) = l[1]}
                     /\ labels' = [pruned EXCEPT !["bw"][y] = in1]
        BY Zenon DEF Labeled
      <4> WITNESS ofw, obw, both, half
      <4> HIDE DEF y
      <4> QED BY <4>1
    <3>3. Merged("fw", y) = mfw /\ Merged("bw", y) = mbw
      BY <2>5, <3>1, Zenon
    <3>4. Labeled(labels', lab, x, mfw, mbw)
      BY <1>1, <3>1, <3>2, <3>3, Zenon
    <3> QED BY <3>4
  <2>10. lab2 \in [Sides -> [Nodes -> LabelSets]] /\ LabelsOK(d, lab2, x)
    BY <1>4, <2>2, <2>4, <2>8, <2>9, LabeledFacts, Zenon
  <2> QED BY <2>9, <2>10, Zenon
<1>6. PICK lab2 : lab2 = labels'
  OBVIOUS
<1>7. ShortPaths(m, d) => lab2 \in [Sides -> [Nodes -> LabelSets]] /\ LabelsOK(d, lab2, x)
  BY <1>5, <1>6, Zenon
<1> QED BY <1>1, <1>2, <1>4, <1>6, <1>7, Zenon DEF LabelsInv

(* Nothing is labeled yet.                                                 *)
LEMMA NoLabelsYet ==
    ASSUME unlabeled = N, ShortPaths(network.arcs, network.dist) => labels \in [Sides -> [Nodes -> LabelSets]]
    PROVE  LabelsInv
<1>1. N \in 0 .. N /\ \A x \in Nodes : ~ N <= x
  BY NAssumption DEF Nodes
<1>2. LabelsOK(network.dist, labels, N)
  BY <1>1, Zenon DEF LabelsOK
<1> QED BY <1>1, <1>2, Zenon DEF LabelsInv

(* It holds at first.                                                      *)
LEMMA LabelsStart == InitLabels => LabelsInv
<1> SUFFICES ASSUME InitLabels PROVE LabelsInv
  OBVIOUS
<1>1. unlabeled = N /\ labels = [side \in Sides |-> [x \in Nodes |-> {}]]
  BY DEF InitLabels
<1>2. {} \in LabelSets
  BY DEF LabelSets
<1>3. labels \in [Sides -> [Nodes -> LabelSets]]
  BY <1>1, <1>2
<1> QED BY <1>1, <1>3, NoLabelsYet

(* While nothing is labeled, the labels stay empty and the network is the same. *)
LEMMA NetworkStays == [NextOfHierarchy]_hierarchyVars => network' = network
BY DEF NextOfHierarchy, hierarchyVars, RemoveLowest, ConnectPair, Query, SettleNext, RunsEmpty, Return

(* The three invariants that the labels need.                              *)
HubsInv == ContractionInv /\ ReachInv /\ LabelsInv

(* They hold at first ...                                                  *)
LEMMA HubsStart == InitHubs => HubsInv
BY ContractionStarts2, ReachStarts, LabelsStart DEF InitHubs, HubsInv

(* ... and after every step.                                               *)
LEMMA HubsKept == HubsInv /\ [NextOfHubs]_hubVars => HubsInv'
<1> SUFFICES ASSUME HubsInv, [NextOfHubs]_hubVars PROVE HubsInv'
  OBVIOUS
<1>1. ContractionInv /\ ReachInv /\ LabelsInv
  BY DEF HubsInv
<1>2. [NextOfHierarchy]_hierarchyVars
  <2>1. CASE LabelNode
    BY <2>1, Zenon DEF LabelNode
  <2>2. CASE unlabeled = N /\ NextOfHierarchy /\ UNCHANGED labelVars
    BY <2>2
  <2>3. CASE UNCHANGED hubVars
    BY <2>3, Zenon DEF hubVars
  <2> QED BY <2>1, <2>2, <2>3, Zenon DEF NextOfHubs
<1>3. ContractionInv' /\ ReachInv'
  BY <1>1, <1>2, ContractionKept, ReachKept
<1>4. LabelsInv'
  <2>1. CASE LabelNode
    BY <1>1, <2>1, LabelKeeps
  <2>2. CASE unlabeled = N /\ NextOfHierarchy /\ UNCHANGED labelVars
    <3>1. network' = network
      BY <2>2, NetworkStays
    <3>2. unlabeled' = N /\ labels' = labels /\ unlabeled = N
      BY <2>2 DEF labelVars
    <3>3. ShortPaths(network.arcs, network.dist) => labels \in [Sides -> [Nodes -> LabelSets]]
      BY <1>1, Zenon DEF LabelsInv
    <3>4. N \in 0 .. N /\ \A x \in Nodes : ~ N <= x
      BY NAssumption DEF Nodes
    <3>5. \A d, lab : LabelsOK(d, lab, N)
      BY <3>4, Zenon DEF LabelsOK
    <3>6. ShortPaths(network'.arcs, network'.dist) => labels' \in [Sides -> [Nodes -> LabelSets]] /\ LabelsOK(network'.dist, labels', N)
      BY <3>1, <3>2, <3>3, <3>5, Zenon
    <3> QED BY <3>2, <3>4, <3>6, Zenon DEF LabelsInv
  <2>3. CASE UNCHANGED hubVars
    BY <1>1, <2>3, Zenon DEF hubVars, hierarchyVars, contractionVars, labelVars, LabelsInv
  <2> QED BY <2>1, <2>2, <2>3, Zenon DEF NextOfHubs
<1> QED BY <1>3, <1>4 DEF HubsInv

(* HubsAreExact, for every network without paths as long as Inf: whenever  *)
(* two nodes have their labels, these are distances, and the best common   *)
(* hub gives the distance between the nodes, though most labels were       *)
(* pruned, one side after the other; without a path there is no common     *)
(* hub.                                                                    *)
THEOREM HubsOfShortPathsAreExact == SpecOfHubs => [](ShortPaths(network.arcs, network.dist) => HubsAreExact)
<1>1. HubsInv => (ShortPaths(network.arcs, network.dist) => HubsAreExact)
  BY LabelsAreExact DEF HubsInv
<1> QED BY <1>1, HubsStart, HubsKept, PTL DEF SpecOfHubs
=============================================================================

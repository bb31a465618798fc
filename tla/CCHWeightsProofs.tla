-------------------------- MODULE CCHWeightsProofs ---------------------------
(***************************************************************************)
(* Facts that the other proofs cite: induction over natural numbers and    *)
(* recursive functions on them, with sets and functions in place of        *)
(* predicates and operators, which can be written down where a lemma is    *)
(* cited; then lengths of shortest paths in a chordal graph, and what that *)
(* says of the reference weights of CCHWeights.                            *)
(***************************************************************************)
EXTENDS CCHWeights, NaturalsInduction, WellFoundedInduction, TLAPS

(* A set of natural numbers that is not empty has a least element.         *)
LEMMA LeastElement ==
    ASSUME NEW S \in SUBSET Nat, S # {}
    PROVE  \E x \in S : \A y \in S : x <= y
<1> DEFINE Less == {pair \in Nat \X Nat : pair[1] < pair[2]}
<1>1. IsWellFoundedOn(Less, Nat)
  <2>1. OpToRel(<, Nat) = Less
    BY Zenon DEF OpToRel
  <2> QED BY <2>1, NatLessThanWellFounded, Zenon
<1>2. PICK x \in S : \A y \in S : ~(<<y, x>> \in Less)
  <2> HIDE DEF Less
  <2> QED BY <1>1, WFMin
<1>3. ASSUME NEW y \in S PROVE x <= y
  <2>1. x \in Nat /\ y \in Nat
    OBVIOUS
  <2>2. ~(<<y, x>> \in Less)
    BY <1>2
  <2>3. <<y, x>> \in Nat \X Nat /\ <<y, x>>[1] = y /\ <<y, x>>[2] = x
    BY <2>1
  <2> QED BY <2>1, <2>2, <2>3
<1> QED BY <1>3

(* What holds of a number if it does of all lower ones holds of all up to  *)
(* a bound.                                                                *)
LEMMA InductionUpTo ==
    ASSUME NEW n \in Nat, NEW S, \A k \in 0 .. n : 0 .. k - 1 \subseteq S => k \in S
    PROVE  0 .. n \subseteq S
<1> DEFINE T == {k \in 0 .. n : k \notin S}
<1> SUFFICES ASSUME T # {} PROVE FALSE
  OBVIOUS
<1>1. T \in SUBSET Nat
  OBVIOUS
<1>2. PICK k \in T : \A j \in T : k <= j
  <2> HIDE DEF T
  <2> QED BY <1>1, LeastElement
<1>3. 0 .. k - 1 \subseteq S
  BY <1>2
<1> QED BY <1>2, <1>3

(* A recursive function on the numbers up to a bound exists.               *)
Recursive(f, n, base, step) == f[0] = base /\ \A k \in 1 .. n : f[k] = step[<<k, f[k - 1]>>]

StaysIn(S, n, step) == \A k \in 1 .. n : \A x \in S : step[<<k, x>>] \in S

LEMMA RecursionUpTo ==
    ASSUME NEW n \in Nat, NEW S, NEW base \in S, NEW step, StaysIn(S, n, step)
    PROVE  \E f \in [0 .. n -> S] : Recursive(f, n, base, step)
<1> USE DEF StaysIn, Recursive
<1> DEFINE Good(m, f) == Recursive(f, m, base, step)
           T == {m \in 0 .. n : \E f \in [0 .. m -> S] : Good(m, f)}
<1>1. ASSUME NEW m \in 0 .. n, 0 .. m - 1 \subseteq T PROVE m \in T
  <2>1. CASE m = 0
    <3> DEFINE f == [k \in 0 .. 0 |-> base]
    <3>1. f \in [0 .. m -> S] /\ Good(m, f)
      BY <2>1
    <3> HIDE DEF f, Good
    <3> QED BY <3>1
  <2>2. CASE m > 0
    <3>1. m - 1 \in T /\ m - 1 \in Nat /\ m \in 1 .. n
      BY <1>1, <2>2
    <3>2. PICK g \in [0 .. m - 1 -> S] : Good(m - 1, g)
      BY <3>1
    <3> DEFINE f == [k \in 0 .. m |-> IF k = m THEN step[<<m, g[m - 1]>>] ELSE g[k]]
    <3>3. g[m - 1] \in S /\ step[<<m, g[m - 1]>>] \in S
      BY <3>1, <3>2
    <3>4. f \in [0 .. m -> S]
      BY <3>1, <3>3
    <3>5. f[0] = base
      BY <2>2, <3>2
    <3>6. ASSUME NEW k \in 1 .. m PROVE f[k] = step[<<k, f[k - 1]>>]
      <4>1. k - 1 \in 0 .. m /\ f[k - 1] = g[k - 1]
        BY <3>1
      <4>2. CASE k = m
        BY <3>1, <4>1, <4>2
      <4>3. CASE k # m
        BY <3>1, <3>2, <4>1, <4>3
      <4> QED BY <4>2, <4>3
    <3>7. Good(m, f)
      BY <3>5, <3>6
    <3> HIDE DEF f, Good
    <3> QED BY <3>4, <3>7
  <2> QED BY <2>1, <2>2
<1>2. n \in T
  <2> HIDE DEF T
  <2> QED BY <1>1, InductionUpTo
<1> QED BY <1>2

(* The first element of a sorted neighbor list is well defined.            *)
LEMMA LowestIsLeast ==
    ASSUME NEW S \in SUBSET Nat, S # {}
    PROVE  Lowest(S) \in S /\ \A x \in S : Lowest(S) <= x
BY LeastElement DEF Lowest

(* Nodes are natural numbers, and so are the neighbors in a graph.         *)
LEMMA NodesAreNat == Nodes \subseteq Nat
BY NAssumption DEF Nodes

-----------------------------------------------------------------------------
(* Lengths of shortest paths, from those without inner nodes on: inner     *)
(* nodes are allowed one by one.  D[k] is about paths whose inner nodes are*)
(* lower than k; inf is the length where there is none.                    *)
Lengths(D, inf) ==
    /\ D \in [0 .. N -> [Nodes \X Nodes -> 0 .. inf]]
    /\ \A x \in Nodes : D[0][<<x, x>>] = 0
    /\ \A k, a, b \in Nodes :
           /\ D[k + 1][<<a, b>>] <= D[k][<<a, b>>]
           /\ D[k + 1][<<a, b>>] <= D[k][<<a, k>>] + D[k][<<k, b>>]
           /\ D[k + 1][<<a, b>>] \in {D[k][<<a, b>>], D[k][<<a, k>>] + D[k][<<k, b>>]}

(* The recursive function that DistancesBelow of CCHWeights is computes    *)
(* such lengths.                                                           *)
NextLengths(d, k) == [e \in Nodes \X Nodes |-> Lowest({d[e], d[<<e[1], k>>] + d[<<k, e[2]>>]})]

LEMMA NextLengthsFacts ==
    ASSUME NEW inf \in Nat, NEW d \in [Nodes \X Nodes -> 0 .. inf], NEW k \in Nodes
    PROVE  /\ NextLengths(d, k) \in [Nodes \X Nodes -> 0 .. inf]
           /\ \A a, b \in Nodes :
                  LET next == NextLengths(d, k)[<<a, b>>]
                  IN  /\ next <= d[<<a, b>>] /\ next <= d[<<a, k>>] + d[<<k, b>>]
                      /\ next \in {d[<<a, b>>], d[<<a, k>>] + d[<<k, b>>]}
<1>1. ASSUME NEW a \in Nodes, NEW b \in Nodes
      PROVE  LET next == Lowest({d[<<a, b>>], d[<<a, k>>] + d[<<k, b>>]})
             IN  /\ next \in 0 .. inf
                 /\ next <= d[<<a, b>>] /\ next <= d[<<a, k>>] + d[<<k, b>>]
                 /\ next \in {d[<<a, b>>], d[<<a, k>>] + d[<<k, b>>]}
  <2> DEFINE S == {d[<<a, b>>], d[<<a, k>>] + d[<<k, b>>]}
  <2>1. d[<<a, b>>] \in 0 .. inf /\ d[<<a, k>>] \in 0 .. inf /\ d[<<k, b>>] \in 0 .. inf
    OBVIOUS
  <2>2. S \in SUBSET Nat /\ S # {}
    BY <2>1
  <2>3. Lowest(S) \in S /\ \A x \in S : Lowest(S) <= x
    <3> HIDE DEF S
    <3> QED BY <2>2, LowestIsLeast
  <2>4. Lowest(S) <= d[<<a, b>>] /\ Lowest(S) <= d[<<a, k>>] + d[<<k, b>>] /\ Lowest(S) \in Nat
    BY <2>2, <2>3
  <2>5. Lowest(S) \in 0 .. inf
    BY <2>1, <2>4
  <2> QED BY <2>3, <2>4, <2>5
<1>2. ASSUME NEW a \in Nodes, NEW b \in Nodes
      PROVE  NextLengths(d, k)[<<a, b>>] = Lowest({d[<<a, b>>], d[<<a, k>>] + d[<<k, b>>]})
  BY DEF NextLengths
<1>3. ASSUME NEW e \in Nodes \X Nodes PROVE Lowest({d[e], d[<<e[1], k>>] + d[<<k, e[2]>>]}) \in 0 .. inf
  <2>1. e[1] \in Nodes /\ e[2] \in Nodes /\ e = <<e[1], e[2]>>
    OBVIOUS
  <2> QED BY <1>1, <2>1
<1>4. NextLengths(d, k) \in [Nodes \X Nodes -> 0 .. inf]
  BY <1>3 DEF NextLengths
<1> QED BY <1>1, <1>2, <1>4

LEMMA LengthsExist ==
    ASSUME NEW inf \in Nat, NEW base \in [Nodes \X Nodes -> 0 .. inf], \A x \in Nodes : base[<<x, x>>] = 0
    PROVE  /\ \E D : D = [k \in 0 .. N |-> IF k = 0 THEN base ELSE NextLengths(D[k - 1], k - 1)]
           /\ \A D : D = [k \in 0 .. N |-> IF k = 0 THEN base ELSE NextLengths(D[k - 1], k - 1)] => Lengths(D, inf)
<1> DEFINE S == [Nodes \X Nodes -> 0 .. inf]
           step == [p \in (1 .. N) \X S |-> NextLengths(p[2], p[1] - 1)]
           F(D) == [k \in 0 .. N |-> IF k = 0 THEN base ELSE NextLengths(D[k - 1], k - 1)]
<1>1. N \in Nat /\ \A k \in 1 .. N : k - 1 \in Nodes
  BY NAssumption DEF Nodes
<1>2. ASSUME NEW k \in Nodes, NEW d \in S PROVE NextLengths(d, k) \in S
  BY NextLengthsFacts
<1>3. StaysIn(S, N, step)
  BY <1>1, <1>2 DEF StaysIn
<1>4. PICK f \in [0 .. N -> S] : Recursive(f, N, base, step)
  <2> HIDE DEF S, step
  <2>1. base \in S
    BY DEF S
  <2> QED BY <1>1, <1>3, <2>1, RecursionUpTo
<1>5. f = F(f)
  <2>1. ASSUME NEW k \in 1 .. N PROVE step[<<k, f[k - 1]>>] = NextLengths(f[k - 1], k - 1)
    <3>1. k - 1 \in 0 .. N /\ f[k - 1] \in S
      BY <1>1
    <3> QED BY <3>1
  <2>2. \A k \in 0 .. N : f[k] = IF k = 0 THEN base ELSE NextLengths(f[k - 1], k - 1)
    <3>1. f[0] = base /\ \A k \in 1 .. N : f[k] = NextLengths(f[k - 1], k - 1)
      BY <1>4, <2>1 DEF Recursive
    <3>2. \A k \in 0 .. N : k # 0 => k \in 1 .. N
      BY <1>1
    <3> QED BY <3>1, <3>2
  <2> QED BY <2>2
<1>6. ASSUME NEW D, D = F(D) PROVE Lengths(D, inf)
  <2>1. D[0] = base /\ \A k \in 1 .. N : D[k] = NextLengths(D[k - 1], k - 1)
    <3>1. \A k \in 0 .. N : D[k] = IF k = 0 THEN base ELSE NextLengths(D[k - 1], k - 1)
      BY <1>6
    <3>2. 0 \in 0 .. N /\ \A k \in 1 .. N : k \in 0 .. N /\ k # 0
      BY <1>1
    <3> QED BY <3>1, <3>2
  <2> DEFINE T == {k \in 0 .. N : D[k] \in S}
  <2>2. ASSUME NEW k \in 0 .. N, 0 .. k - 1 \subseteq T PROVE k \in T
    <3>1. CASE k = 0
      BY <2>1, <3>1
    <3>2. CASE k > 0
      <4>1. k \in 1 .. N /\ k - 1 \in 0 .. k - 1
        BY <1>1, <3>2
      <4>2. D[k] = NextLengths(D[k - 1], k - 1) /\ k - 1 \in Nodes /\ D[k - 1] \in S
        BY <1>1, <2>1, <2>2, <4>1
      <4>3. D[k] \in S
        <5> HIDE DEF S
        <5> QED BY <1>2, <4>2
      <4> QED BY <4>3
    <3> QED BY <1>1, <3>1, <3>2
  <2>3. 0 .. N \subseteq T
    <3> HIDE DEF T
    <3> QED BY <1>1, <2>2, InductionUpTo
  <2>4. D \in [0 .. N -> S]
    <3>1. DOMAIN D = 0 .. N /\ D = [k \in 0 .. N |-> D[k]]
      BY <1>6
    <3> QED BY <2>3, <3>1
  <2>5. ASSUME NEW k \in Nodes, NEW a \in Nodes, NEW b \in Nodes
        PROVE  /\ D[k + 1][<<a, b>>] <= D[k][<<a, b>>]
               /\ D[k + 1][<<a, b>>] <= D[k][<<a, k>>] + D[k][<<k, b>>]
               /\ D[k + 1][<<a, b>>] \in {D[k][<<a, b>>], D[k][<<a, k>>] + D[k][<<k, b>>]}
    <3>1. k \in 0 .. N /\ k + 1 \in 1 .. N /\ (k + 1) - 1 = k
      BY <1>1 DEF Nodes
    <3>2. D[k + 1] = NextLengths(D[k], k) /\ D[k] \in S
      BY <2>1, <2>4, <3>1
    <3> QED BY <3>2, NextLengthsFacts
  <2> QED BY <2>1, <2>4, <2>5 DEF Lengths
<1> QED BY <1>5, <1>6

(* A node is at length 0 from itself, and more inner nodes do not make     *)
(* paths longer.                                                           *)
LEMMA LengthsFacts ==
    ASSUME NEW inf \in Nat, NEW D, Lengths(D, inf)
    PROVE  /\ \A k \in 0 .. N : \A a, b \in Nodes : D[k][<<a, b>>] \in Nat /\ D[k][<<a, b>>] <= inf
           /\ \A k \in 0 .. N : \A x \in Nodes : D[k][<<x, x>>] = 0
           /\ \A k \in 0 .. N : \A j \in 0 .. k : \A a, b \in Nodes : D[k][<<a, b>>] <= D[j][<<a, b>>]
<1>1. N \in Nat /\ \A k \in 1 .. N : k - 1 \in Nodes /\ k - 1 \in 0 .. N /\ (k - 1) + 1 = k
  BY NAssumption DEF Nodes
<1>2. ASSUME NEW k \in 0 .. N, NEW a \in Nodes, NEW b \in Nodes
      PROVE  D[k][<<a, b>>] \in Nat /\ D[k][<<a, b>>] <= inf
  <2>1. D[k] \in [Nodes \X Nodes -> 0 .. inf]
    BY DEF Lengths
  <2>2. D[k][<<a, b>>] \in 0 .. inf
    BY <2>1
  <2> QED BY <2>2
<1>3. ASSUME NEW k \in 1 .. N, NEW a \in Nodes, NEW b \in Nodes
      PROVE  D[k][<<a, b>>] <= D[k - 1][<<a, b>>]
  <2>1. k - 1 \in Nodes /\ (k - 1) + 1 = k
    BY <1>1
  <2> QED BY <2>1 DEF Lengths
<1>4. ASSUME NEW a \in Nodes, NEW b \in Nodes, NEW j \in 0 .. N, NEW k \in j .. N
      PROVE  D[k][<<a, b>>] <= D[j][<<a, b>>]
  <2> DEFINE T == {i \in 0 .. N : i < j \/ D[i][<<a, b>>] <= D[j][<<a, b>>]}
  <2>1. ASSUME NEW i \in 0 .. N, 0 .. i - 1 \subseteq T PROVE i \in T
    <3>1. CASE i < j
      BY <3>1
    <3>2. CASE i = j
      BY <1>2, <3>2
    <3>3. CASE i > j
      <4>1. i \in 1 .. N /\ i - 1 \in 0 .. i - 1 /\ ~(i - 1 < j) /\ i - 1 \in 0 .. N
        BY <1>1, <3>3
      <4>2. D[i - 1][<<a, b>>] <= D[j][<<a, b>>]
        BY <2>1, <4>1
      <4>3. D[i][<<a, b>>] <= D[i - 1][<<a, b>>]
        BY <1>3, <4>1
      <4>4. D[i][<<a, b>>] \in Nat /\ D[i - 1][<<a, b>>] \in Nat /\ D[j][<<a, b>>] \in Nat
        BY <1>2, <4>1
      <4> QED BY <4>2, <4>3, <4>4
    <3> QED BY <3>1, <3>2, <3>3
  <2>2. 0 .. N \subseteq T
    <3> HIDE DEF T
    <3> QED BY <1>1, <2>1, InductionUpTo
  <2>3. k \in T /\ ~(k < j)
    BY <1>1, <2>2
  <2> QED BY <2>3
<1>5. ASSUME NEW k \in 0 .. N, NEW x \in Nodes PROVE D[k][<<x, x>>] = 0
  <2>1. D[0][<<x, x>>] = 0
    BY DEF Lengths
  <2>2. D[k][<<x, x>>] <= D[0][<<x, x>>] /\ D[k][<<x, x>>] \in Nat
    BY <1>1, <1>2, <1>4
  <2> QED BY <2>1, <2>2
<1>6. ASSUME NEW k \in 0 .. N, NEW j \in 0 .. k PROVE j \in 0 .. N /\ k \in j .. N
  BY <1>1
<1> QED BY <1>2, <1>4, <1>5, <1>6

(* A shortest path is a path without inner nodes, or is composed at its    *)
(* highest inner node.                                                     *)
Over(D, k, a, b) == \E z \in 0 .. k - 1 : D[k][<<a, b>>] = D[z][<<a, z>>] + D[z][<<z, b>>]

LEMMA Composed ==
    ASSUME NEW inf \in Nat, NEW D, Lengths(D, inf), NEW k \in 0 .. N, NEW a \in Nodes, NEW b \in Nodes
    PROVE  /\ D[k][<<a, b>>] <= D[0][<<a, b>>]
           /\ \A z \in 0 .. k - 1 : D[k][<<a, b>>] <= D[z][<<a, z>>] + D[z][<<z, b>>]
           /\ D[k][<<a, b>>] = D[0][<<a, b>>] \/ Over(D, k, a, b)
<1>1. N \in Nat /\ 0 .. k - 1 \subseteq Nodes
  BY NAssumption DEF Nodes
<1>2. ASSUME NEW z \in 0 .. k - 1
      PROVE  D[k][<<a, b>>] <= D[z][<<a, z>>] + D[z][<<z, b>>]
  <2>1. z \in Nodes /\ z \in 0 .. N /\ z + 1 \in 0 .. k /\ z + 1 \in 0 .. N
    BY <1>1
  <2>2. D[z + 1][<<a, b>>] <= D[z][<<a, z>>] + D[z][<<z, b>>]
    BY <2>1 DEF Lengths
  <2>3. D[k][<<a, b>>] <= D[z + 1][<<a, b>>]
    BY <2>1, LengthsFacts
  <2>4. /\ D[k][<<a, b>>] \in Nat /\ D[z + 1][<<a, b>>] \in Nat
        /\ D[z][<<a, z>>] \in Nat /\ D[z][<<z, b>>] \in Nat
    BY <2>1, LengthsFacts
  <2> QED BY <2>2, <2>3, <2>4
<1> DEFINE Good(i) == D[i][<<a, b>>] = D[0][<<a, b>>] \/ Over(D, i, a, b)
           T == {i \in 0 .. k : Good(i)}
<1>3. ASSUME NEW i \in 0 .. k, 0 .. i - 1 \subseteq T PROVE Good(i)
  <2>1. CASE i = 0
    BY <2>1
  <2>2. CASE i > 0
    <3>1. i - 1 \in Nodes /\ i - 1 \in 0 .. k /\ i - 1 \in 0 .. i - 1 /\ (i - 1) + 1 = i
      BY <1>1, <2>2
    <3>2. D[i][<<a, b>>] \in {D[i - 1][<<a, b>>], D[i - 1][<<a, i - 1>>] + D[i - 1][<<i - 1, b>>]}
      BY <3>1 DEF Lengths
    <3>3. CASE D[i][<<a, b>>] = D[i - 1][<<a, i - 1>>] + D[i - 1][<<i - 1, b>>]
      BY <3>1, <3>3 DEF Over
    <3>4. CASE D[i][<<a, b>>] = D[i - 1][<<a, b>>]
      <4>1. Good(i - 1)
        <5> HIDE DEF Good
        <5> QED BY <1>3, <3>1
      <4>2. CASE Over(D, i - 1, a, b)
        <5>1. PICK z \in 0 .. (i - 1) - 1 : D[i - 1][<<a, b>>] = D[z][<<a, z>>] + D[z][<<z, b>>]
          BY <4>2 DEF Over
        <5>2. z \in 0 .. i - 1 /\ D[i][<<a, b>>] = D[z][<<a, z>>] + D[z][<<z, b>>]
          BY <3>1, <3>4, <5>1
        <5> QED BY <5>2 DEF Over
      <4> QED BY <3>4, <4>1, <4>2
    <3> QED BY <3>2, <3>3, <3>4
  <2> QED BY <2>1, <2>2
<1>4. Good(k)
  <2> HIDE DEF Good
  <2>1. k \in Nat /\ \A i \in 0 .. k : 0 .. i - 1 \subseteq T => i \in T
    BY <1>1, <1>3
  <2>2. 0 .. k \subseteq T
    <3> HIDE DEF T
    <3> QED BY <2>1, InductionUpTo
  <2> QED BY <2>1, <2>2
<1>5. D[k][<<a, b>>] <= D[0][<<a, b>>]
  BY <1>1, LengthsFacts
<1> QED BY <1>2, <1>4, <1>5

(* Against the direction of the arcs, lengths are lengths as well.         *)
Reversed(D) == [k \in 0 .. N |-> [e \in Nodes \X Nodes |-> D[k][<<e[2], e[1]>>]]]

LEMMA ReversedLengths ==
    ASSUME NEW inf \in Nat, NEW D, Lengths(D, inf)
    PROVE  /\ Lengths(Reversed(D), inf)
           /\ \A k \in 0 .. N : \A a, b \in Nodes : Reversed(D)[k][<<a, b>>] = D[k][<<b, a>>]
<1> DEFINE R == Reversed(D)
<1>1. \A k \in 0 .. N : \A a, b \in Nodes : R[k][<<a, b>>] = D[k][<<b, a>>]
  BY DEF Reversed
<1>2. R \in [0 .. N -> [Nodes \X Nodes -> 0 .. inf]]
  <2>1. \A k \in 0 .. N : D[k] \in [Nodes \X Nodes -> 0 .. inf]
    BY DEF Lengths
  <2>2. ASSUME NEW k \in 0 .. N, NEW e \in Nodes \X Nodes PROVE D[k][<<e[2], e[1]>>] \in 0 .. inf
    <3>1. <<e[2], e[1]>> \in Nodes \X Nodes
      OBVIOUS
    <3> QED BY <2>1, <3>1
  <2> QED BY <2>2 DEF Reversed
<1>3. \A x \in Nodes : R[0][<<x, x>>] = 0
  <2>1. 0 \in 0 .. N
    BY NAssumption
  <2>2. \A x \in Nodes : D[0][<<x, x>>] = 0
    BY DEF Lengths
  <2> HIDE DEF R
  <2> QED BY <1>1, <2>1, <2>2
<1>4. ASSUME NEW k \in Nodes, NEW a \in Nodes, NEW b \in Nodes
      PROVE  /\ R[k + 1][<<a, b>>] <= R[k][<<a, b>>]
             /\ R[k + 1][<<a, b>>] <= R[k][<<a, k>>] + R[k][<<k, b>>]
             /\ R[k + 1][<<a, b>>] \in {R[k][<<a, b>>], R[k][<<a, k>>] + R[k][<<k, b>>]}
  <2>1. k \in 0 .. N /\ k + 1 \in 0 .. N
    BY NAssumption DEF Nodes
  <2>2. /\ D[k + 1][<<b, a>>] <= D[k][<<b, a>>]
        /\ D[k + 1][<<b, a>>] <= D[k][<<b, k>>] + D[k][<<k, a>>]
        /\ D[k + 1][<<b, a>>] \in {D[k][<<b, a>>], D[k][<<b, k>>] + D[k][<<k, a>>]}
    BY DEF Lengths
  <2>3. D[k][<<b, k>>] \in Nat /\ D[k][<<k, a>>] \in Nat
    BY <2>1, LengthsFacts
  <2>4. /\ R[k + 1][<<a, b>>] = D[k + 1][<<b, a>>] /\ R[k][<<a, b>>] = D[k][<<b, a>>]
        /\ R[k][<<a, k>>] = D[k][<<k, a>>] /\ R[k][<<k, b>>] = D[k][<<b, k>>]
    BY <1>1, <2>1
  <2> QED BY <2>2, <2>3, <2>4
<1> HIDE DEF R
<1>5. Lengths(R, inf)
  BY <1>2, <1>3, <1>4 DEF Lengths
<1> QED BY <1>1, <1>5 DEF R

(* The ends of a path are adjacent in a chordal graph if its inner nodes   *)
(* are lower than both and all arcs lie on edges.                          *)
Upwards(g) == g \in Graphs /\ (\A x \in Nodes : \A y \in g[x] : x < y) /\ Chordal(g)

Adjacent(g, a, b) == b \in g[a] \/ a \in g[b]

OnEdges(g, D, inf) == \A a, b \in Nodes : D[0][<<a, b>>] < inf => a = b \/ Adjacent(g, a, b)

(* The lengths that DistancesBelow of CCHWeights computes from the weights *)
(* of arcs.                                                                *)
ArcLengths(m, inf) == [e \in Nodes \X Nodes |-> IF e[1] = e[2] THEN 0 ELSE Lowest(m[e] \cup {inf})]

LengthsOf(m, inf) ==
    CHOOSE D : D = [k \in 0 .. N |-> IF k = 0 THEN ArcLengths(m, inf) ELSE NextLengths(D[k - 1], k - 1)]

ArcsOn(g, m) == \A a, b \in Nodes : a # b /\ m[<<a, b>>] # {} => Adjacent(g, a, b)

LEMMA LengthsOfArcs ==
    ASSUME NEW inf \in Nat, NEW m \in [Nodes \X Nodes -> SUBSET (0 .. inf)], NEW g, ArcsOn(g, m)
    PROVE  /\ Lengths(LengthsOf(m, inf), inf) /\ OnEdges(g, LengthsOf(m, inf), inf)
           /\ \A a, b \in Nodes : a # b => LengthsOf(m, inf)[0][<<a, b>>] = Lowest(m[<<a, b>>] \cup {inf})
<1> DEFINE base == ArcLengths(m, inf)
           F(D) == [k \in 0 .. N |-> IF k = 0 THEN base ELSE NextLengths(D[k - 1], k - 1)]
           dist == LengthsOf(m, inf)
<1>1. ASSUME NEW e \in Nodes \X Nodes PROVE Lowest(m[e] \cup {inf}) \in 0 .. inf
  <2>1. m[e] \cup {inf} \in SUBSET Nat /\ m[e] \cup {inf} # {} /\ m[e] \cup {inf} \subseteq 0 .. inf
    OBVIOUS
  <2> QED BY <2>1, LowestIsLeast
<1>2. base \in [Nodes \X Nodes -> 0 .. inf] /\ \A x \in Nodes : base[<<x, x>>] = 0
  BY <1>1 DEF ArcLengths
<1>3. dist = CHOOSE D : D = F(D)
  BY DEF LengthsOf
<1>4. (\E D : D = F(D)) /\ \A D : D = F(D) => Lengths(D, inf)
  <2> HIDE DEF base
  <2> QED BY <1>2, LengthsExist, Zenon
<1>5. dist = F(dist) /\ Lengths(dist, inf)
  <2> HIDE DEF F, dist
  <2> QED BY <1>3, <1>4
<1>6. dist[0] = base
  BY <1>5, NAssumption
<1> HIDE DEF dist
<1>7. ASSUME NEW a \in Nodes, NEW b \in Nodes, a # b
      PROVE  dist[0][<<a, b>>] = Lowest(m[<<a, b>>] \cup {inf})
  BY <1>6, <1>7 DEF ArcLengths
<1>8. ASSUME NEW a \in Nodes, NEW b \in Nodes, dist[0][<<a, b>>] < inf, a # b
      PROVE  Adjacent(g, a, b)
  <2>1. m[<<a, b>>] # {}
    <3> SUFFICES ASSUME m[<<a, b>>] = {} PROVE FALSE
      OBVIOUS
    <3>1. dist[0][<<a, b>>] = Lowest({inf})
      BY <1>7, <1>8
    <3>2. Lowest({inf}) = inf
      BY LowestIsLeast
    <3> QED BY <1>8, <3>1, <3>2
  <2> QED BY <1>8, <2>1 DEF ArcsOn
<1>9. OnEdges(g, dist, inf)
  BY <1>8 DEF OnEdges
<1> QED BY <1>5, <1>7, <1>9, Zenon DEF dist

LEMMA EndsAreAdjacent ==
    ASSUME NEW inf \in Nat, NEW D, Lengths(D, inf),
           NEW g, Upwards(g), OnEdges(g, D, inf)
    PROVE  \A k \in 0 .. N : \A a, b \in Nodes : 
               k <= a /\ k <= b /\ a # b /\ D[k][<<a, b>>] < inf => Adjacent(g, a, b)
<1> DEFINE T == {k \in 0 .. N : \A a, b \in Nodes : 
                     k <= a /\ k <= b /\ a # b /\ D[k][<<a, b>>] < inf => Adjacent(g, a, b)}
<1>1. ASSUME NEW k \in 0 .. N, 0 .. k - 1 \subseteq T PROVE k \in T
  <2>1. CASE k = 0
    BY <2>1 DEF OnEdges
  <2>2. CASE k > 0
    <3> SUFFICES ASSUME NEW a \in Nodes, NEW b \in Nodes, k <= a, k <= b, a # b, D[k][<<a, b>>] < inf
                 PROVE  Adjacent(g, a, b)
      OBVIOUS
    <3> DEFINE z == k - 1
    <3>1. /\ z \in Nodes /\ z \in 0 .. N /\ z \in 0 .. k - 1 /\ z + 1 = k
          /\ z <= a /\ z <= b /\ z # a /\ z # b /\ z < a /\ z < b
      BY <2>2, NodesAreNat, NAssumption DEF Nodes
    <3> HIDE DEF z
    <3>2. \A c, d \in Nodes : z <= c /\ z <= d /\ c # d /\ D[z][<<c, d>>] < inf => Adjacent(g, c, d)
      BY <1>1, <3>1
    <3>3. D[k][<<a, b>>] \in {D[z][<<a, b>>], D[z][<<a, z>>] + D[z][<<z, b>>]}
      BY <3>1 DEF Lengths
    <3>4. CASE D[k][<<a, b>>] = D[z][<<a, b>>]
      BY <3>1, <3>2, <3>4
    <3>5. CASE D[k][<<a, b>>] = D[z][<<a, z>>] + D[z][<<z, b>>]
      <4>1. D[z][<<a, z>>] \in Nat /\ D[z][<<z, b>>] \in Nat
        BY <3>1, LengthsFacts
      <4>2. D[z][<<a, z>>] < inf /\ D[z][<<z, b>>] < inf
        BY <3>5, <4>1
      <4>3. Adjacent(g, a, z) /\ Adjacent(g, z, b)
        BY <3>1, <3>2, <4>2, NodesAreNat
      <4>4. a \in g[z] /\ b \in g[z]
        <5>1. a \in Nat /\ b \in Nat /\ z \in Nat
          BY <3>1, NodesAreNat
        <5>2. z \notin g[a] /\ z \notin g[b]
          BY <3>1, <5>1 DEF Upwards
        <5> QED BY <4>3, <5>2 DEF Adjacent
      <4> QED BY <3>1, <4>4, NodesAreNat DEF Chordal, Adjacent, Upwards
    <3> QED BY <3>3, <3>4, <3>5
  <2> QED BY <2>1, <2>2
<1>2. 0 .. N \subseteq T
  <2> HIDE DEF T
  <2> QED BY <1>1, NAssumption, InductionUpTo
<1> QED BY <1>2

(* The length of a shortest path over lower nodes between adjacent nodes   *)
(* is that of the arc or that over a lower node adjacent to both.          *)
LeastOver(D, g, x, v) ==
    /\ D[x][<<x, v>>] <= D[0][<<x, v>>]
    /\ \A z \in Nodes : x \in g[z] => D[x][<<x, v>>] <= D[z][<<x, z>>] + D[z][<<z, v>>]
    /\ \/ D[x][<<x, v>>] = D[0][<<x, v>>]
       \/ \E z \in Nodes : x \in g[z] /\ v \in g[z] /\ D[x][<<x, v>>] = D[z][<<x, z>>] + D[z][<<z, v>>]

LEMMA OverTriangles ==
    ASSUME NEW inf \in Nat, NEW D, Lengths(D, inf),
           NEW g, Upwards(g), OnEdges(g, D, inf),
           NEW x \in Nodes, NEW v \in Nodes, x < v
    PROVE  LeastOver(D, g, x, v)
<1> USE DEF LeastOver, Upwards
<1>1. /\ N \in Nat /\ x \in 0 .. N /\ 0 \in 0 .. N /\ x \in Nat /\ v \in Nat
      /\ \A z \in 0 .. x - 1 : z \in Nodes /\ z \in 0 .. N /\ z < x /\ z < v /\ z \in Nat
  BY NAssumption DEF Nodes
<1>2. ASSUME NEW z \in Nodes, x \in g[z] PROVE D[x][<<x, v>>] <= D[z][<<x, z>>] + D[z][<<z, v>>]
  <2>1. z \in 0 .. x - 1
    BY <1>2, NodesAreNat
  <2> QED BY <1>1, <2>1, Composed
<1>3. ASSUME NEW z \in 0 .. x - 1, D[x][<<x, v>>] = D[z][<<x, z>>] + D[z][<<z, v>>]
      PROVE  D[x][<<x, v>>] = D[0][<<x, v>>] \/ (x \in g[z] /\ v \in g[z])
  <2>1. /\ D[z][<<x, z>>] \in Nat /\ D[z][<<z, v>>] \in Nat /\ D[0][<<x, v>>] \in Nat /\ D[x][<<x, v>>] \in Nat
        /\ D[0][<<x, v>>] <= inf /\ D[x][<<x, v>>] <= D[0][<<x, v>>]
    <3>1. z \in Nodes /\ z \in 0 .. N
      BY <1>1
    <3>2. D[x][<<x, v>>] <= D[0][<<x, v>>]
      BY <1>1, Composed
    <3> HIDE DEF Upwards
    <3> QED BY <1>1, <3>1, <3>2, LengthsFacts
  <2>2. CASE D[z][<<x, z>>] < inf /\ D[z][<<z, v>>] < inf
    <3>1. Adjacent(g, x, z) /\ Adjacent(g, z, v)
      <4>1. z <= x /\ z <= v /\ z <= z /\ x # z /\ z # v /\ z \in Nodes /\ z \in 0 .. N
        BY <1>1
      <4>2. \A a, b \in Nodes : z <= a /\ z <= b /\ a # b /\ D[z][<<a, b>>] < inf => Adjacent(g, a, b)
        BY <4>1, EndsAreAdjacent
      <4> QED BY <2>2, <4>1, <4>2
    <3> QED BY <1>1, <3>1 DEF Adjacent
  <2>3. CASE ~(D[z][<<x, z>>] < inf /\ D[z][<<z, v>>] < inf)
    BY <1>3, <2>1, <2>3
  <2> QED BY <2>2, <2>3
<1>4. D[x][<<x, v>>] <= D[0][<<x, v>>]
  BY <1>1, Composed
<1>5. CASE D[x][<<x, v>>] = D[0][<<x, v>>]
  BY <1>2, <1>4, <1>5
<1>6. CASE D[x][<<x, v>>] # D[0][<<x, v>>]
  <2>1. Over(D, x, x, v)
    BY <1>1, <1>6, Composed
  <2>2. PICK z \in 0 .. x - 1 : D[x][<<x, v>>] = D[z][<<x, z>>] + D[z][<<z, v>>]
    BY <2>1 DEF Over
  <2>3. z \in Nodes /\ x \in g[z] /\ v \in g[z]
    BY <1>1, <1>3, <1>6, <2>2
  <2> QED BY <1>2, <1>4, <2>2, <2>3
<1> QED BY <1>5, <1>6

(* The triangle inequality, for nodes that may be inner nodes.             *)
LEMMA TriangleInequality ==
    ASSUME NEW inf \in Nat, NEW D, Lengths(D, inf)
    PROVE  \A k \in 0 .. N : \A b \in 0 .. k - 1 : \A a, c \in Nodes :
               D[k][<<a, c>>] <= D[k][<<a, b>>] + D[k][<<b, c>>]
<1> DEFINE Holds(k) == \A b \in 0 .. k - 1 : \A a, c \in Nodes : D[k][<<a, c>>] <= D[k][<<a, b>>] + D[k][<<b, c>>]
           T == {k \in 0 .. N : Holds(k)}
<1>1. ASSUME NEW k \in 0 .. N, 0 .. k - 1 \subseteq T PROVE Holds(k)
  <2>1. CASE k = 0
    BY <2>1
  <2>2. CASE k > 0
    <3> DEFINE j == k - 1
    <3>1. j \in Nodes /\ j \in 0 .. N /\ j \in 0 .. k - 1 /\ j + 1 = k /\ k \in 1 .. N
      BY <2>2, NAssumption DEF Nodes
    <3>2. Holds(j)
      <4> HIDE DEF Holds, j
      <4> QED BY <1>1, <3>1
    <3> HIDE DEF j
    <3> SUFFICES ASSUME NEW b \in 0 .. k - 1, NEW a \in Nodes, NEW c \in Nodes
                 PROVE  D[k][<<a, c>>] <= D[k][<<a, b>>] + D[k][<<b, c>>]
      OBVIOUS
    <3>3. b \in Nodes
      BY NAssumption DEF Nodes
    <3>4. \A p, q \in Nodes : /\ D[k][<<p, q>>] \in Nat /\ D[j][<<p, q>>] \in Nat
                              /\ D[k][<<p, q>>] <= D[j][<<p, q>>]
                              /\ D[k][<<p, q>>] <= D[j][<<p, j>>] + D[j][<<j, q>>]
                              /\ D[k][<<p, q>>] \in {D[j][<<p, q>>], D[j][<<p, j>>] + D[j][<<j, q>>]}
      <4>1. \A p, q \in Nodes : D[k][<<p, q>>] \in Nat /\ D[j][<<p, q>>] \in Nat
        BY <3>1, LengthsFacts
      <4> QED BY <3>1, <4>1 DEF Lengths
    <3>5. /\ D[k][<<a, c>>] \in Nat /\ D[k][<<a, b>>] \in Nat /\ D[k][<<b, c>>] \in Nat
          /\ D[j][<<a, b>>] \in Nat /\ D[j][<<b, c>>] \in Nat /\ D[j][<<a, j>>] \in Nat /\ D[j][<<j, c>>] \in Nat
          /\ D[j][<<j, b>>] \in Nat /\ D[j][<<b, j>>] \in Nat /\ D[j][<<a, c>>] \in Nat
      BY <3>1, <3>3, <3>4
    <3>6. CASE b = j
      <4>1. D[j][<<j, j>>] = 0
        BY <3>1, LengthsFacts
      <4>2. D[k][<<a, j>>] \in {D[j][<<a, j>>], D[j][<<a, j>>] + D[j][<<j, j>>]}
        BY <3>1, <3>4
      <4>3. D[k][<<j, c>>] \in {D[j][<<j, c>>], D[j][<<j, j>>] + D[j][<<j, c>>]}
        BY <3>1, <3>4
      <4>4. D[k][<<a, c>>] <= D[j][<<a, j>>] + D[j][<<j, c>>]
        BY <3>4
      <4> QED BY <3>5, <3>6, <4>1, <4>2, <4>3, <4>4
    <3>7. CASE b # j
      <4>1. b \in 0 .. j - 1
        BY <3>1, <3>7
      <4>2. /\ D[j][<<a, c>>] <= D[j][<<a, b>>] + D[j][<<b, c>>]
            /\ D[j][<<a, j>>] <= D[j][<<a, b>>] + D[j][<<b, j>>]
            /\ D[j][<<j, c>>] <= D[j][<<j, b>>] + D[j][<<b, c>>]
        BY <3>1, <3>2, <4>1
      <4>3. D[k][<<a, c>>] <= D[j][<<a, c>>] /\ D[k][<<a, c>>] <= D[j][<<a, j>>] + D[j][<<j, c>>]
        BY <3>4
      <4>4. D[k][<<a, b>>] \in {D[j][<<a, b>>], D[j][<<a, j>>] + D[j][<<j, b>>]}
        BY <3>3, <3>4
      <4>5. D[k][<<b, c>>] \in {D[j][<<b, c>>], D[j][<<b, j>>] + D[j][<<j, c>>]}
        BY <3>3, <3>4
      <4> QED BY <3>5, <4>2, <4>3, <4>4, <4>5
    <3> QED BY <3>6, <3>7
  <2> HIDE DEF Holds
  <2> QED BY <2>1, <2>2, NAssumption
<1>2. 0 .. N \subseteq T
  <2> HIDE DEF Holds
  <2>1. N \in Nat /\ \A k \in 0 .. N : 0 .. k - 1 \subseteq T => k \in T
    BY <1>1, NAssumption
  <2> HIDE DEF T
  <2> QED BY <2>1, InductionUpTo
<1> QED BY <1>2

(* The first edge upwards: a shortest path from x to a higher node leaves  *)
(* the nodes up to x at a neighbor.                                        *)
LEMMA FirstUpwards ==
    ASSUME NEW inf \in Nat, NEW D, Lengths(D, inf),
           NEW g, Upwards(g), OnEdges(g, D, inf),
           NEW x \in Nodes
    PROVE  \A k \in 0 .. N : \A v \in Nodes :
               x < k /\ x < v /\ D[k][<<x, v>>] < inf =>
                   \E y \in g[x] : D[x][<<x, y>>] + D[k][<<y, v>>] <= D[k][<<x, v>>]
<1> DEFINE Leaves(k, v) == \E y \in g[x] : D[x][<<x, y>>] + D[k][<<y, v>>] <= D[k][<<x, v>>]
           Holds(k) == \A v \in Nodes : x < k /\ x < v /\ D[k][<<x, v>>] < inf => Leaves(k, v)
           T == {k \in 0 .. N : Holds(k)}
<1>1. N \in Nat /\ x \in Nat /\ x \in 0 .. N /\ g[x] \subseteq Nodes
  BY NAssumption DEF Nodes, Graphs, Upwards
<1>2. ASSUME NEW k \in 0 .. N, 0 .. k - 1 \subseteq T PROVE Holds(k)
  <2> SUFFICES ASSUME NEW v \in Nodes, x < k, x < v, D[k][<<x, v>>] < inf
               PROVE  Leaves(k, v)
    OBVIOUS
  <2> DEFINE j == k - 1
  <2>1. j \in Nodes /\ j \in 0 .. N /\ j \in 0 .. k - 1 /\ j + 1 = k /\ k \in 1 .. N /\ x <= j /\ v \in Nat
    BY <1>1 DEF Nodes
  <2>2. Holds(j)
    <3> HIDE DEF Holds, j
    <3> QED BY <1>2, <2>1
  <2> HIDE DEF j
  <2>3. D[k][<<x, v>>] \in {D[j][<<x, v>>], D[j][<<x, j>>] + D[j][<<j, v>>]}
    BY <2>1 DEF Lengths
  <2>4. \A p, q \in Nodes : D[k][<<p, q>>] \in Nat /\ D[j][<<p, q>>] \in Nat /\ D[x][<<p, q>>] \in Nat
    BY <1>1, <2>1, LengthsFacts
  <2>5. CASE x = j
    <3>1. D[j][<<x, j>>] = 0 /\ D[k][<<v, v>>] = 0
      BY <2>1, <2>5, LengthsFacts
    <3>2. D[k][<<x, v>>] = D[x][<<x, v>>]
      BY <2>1, <2>3, <2>4, <2>5, <3>1
    <3>3. v \in g[x]
      <4>1. \A a, b \in Nodes : x <= a /\ x <= b /\ a # b /\ D[x][<<a, b>>] < inf => Adjacent(g, a, b)
        BY <1>1, EndsAreAdjacent
      <4>2. Adjacent(g, x, v)
        BY <1>1, <2>1, <3>2, <4>1
      <4> QED BY <4>2, NodesAreNat DEF Adjacent, Upwards
    <3>4. D[x][<<x, v>>] + D[k][<<v, v>>] <= D[k][<<x, v>>]
      BY <2>4, <3>1, <3>2
    <3> QED BY <3>3, <3>4
  <2>6. CASE x < j
    <3>1. CASE D[k][<<x, v>>] = D[j][<<x, v>>]
      <4>1. PICK y \in g[x] : D[x][<<x, y>>] + D[j][<<y, v>>] <= D[j][<<x, v>>]
        BY <2>2, <2>6, <3>1
      <4>2. y \in Nodes /\ D[k][<<y, v>>] <= D[j][<<y, v>>]
        BY <1>1, <2>1 DEF Lengths
      <4>3. D[x][<<x, y>>] + D[k][<<y, v>>] <= D[k][<<x, v>>]
        BY <2>4, <3>1, <4>1, <4>2
      <4> QED BY <4>3
    <3>2. CASE D[k][<<x, v>>] = D[j][<<x, j>>] + D[j][<<j, v>>]
      <4>1. D[j][<<x, j>>] < inf
        BY <2>1, <2>4, <3>2
      <4>2. PICK y \in g[x] : D[x][<<x, y>>] + D[j][<<y, j>>] <= D[j][<<x, j>>]
        BY <2>1, <2>2, <2>6, <4>1
      <4>3. y \in Nodes /\ D[k][<<y, v>>] <= D[j][<<y, j>>] + D[j][<<j, v>>]
        BY <1>1, <2>1 DEF Lengths
      <4>4. D[x][<<x, y>>] + D[k][<<y, v>>] <= D[k][<<x, v>>]
        <5>1. /\ D[x][<<x, y>>] \in Nat /\ D[j][<<y, j>>] \in Nat /\ D[j][<<x, j>>] \in Nat
              /\ D[j][<<j, v>>] \in Nat /\ D[k][<<y, v>>] \in Nat
          BY <2>1, <2>4, <4>3
        <5> QED BY <3>2, <4>2, <4>3, <5>1
      <4> QED BY <4>4
    <3> QED BY <2>3, <3>1, <3>2
  <2> QED BY <1>1, <2>1, <2>5, <2>6
<1>3. 0 .. N \subseteq T
  <2> HIDE DEF Holds
  <2>1. N \in Nat /\ \A k \in 0 .. N : 0 .. k - 1 \subseteq T => k \in T
    BY <1>2, NAssumption
  <2> HIDE DEF T
  <2> QED BY <2>1, InductionUpTo
<1> QED BY <1>3

LEMMA ReversedOnEdges ==
    ASSUME NEW inf \in Nat, NEW D, Lengths(D, inf), NEW g, OnEdges(g, D, inf)
    PROVE  OnEdges(g, Reversed(D), inf)
<1>1. /\ Lengths(Reversed(D), inf)
      /\ \A k \in 0 .. N : \A a, b \in Nodes : Reversed(D)[k][<<a, b>>] = D[k][<<b, a>>]
  BY ReversedLengths
<1>2. 0 \in 0 .. N
  BY NAssumption
<1>3. \A a, b \in Nodes : Reversed(D)[0][<<a, b>>] = D[0][<<b, a>>]
  BY <1>1, <1>2
<1> QED BY <1>3 DEF OnEdges, Adjacent

-----------------------------------------------------------------------------
(* The reference weights of CCHWeights                                      *)

LEMMA GraphUpwards == Upwards(Graph)
BY GraphAssumption DEF Upwards

(* The reference distances.                                                *)
LEMMA DistancesAreLengths ==
    ASSUME NEW m \in Metrics
    PROVE  /\ Lengths(DistancesBelow(m), Inf) /\ OnEdges(Graph, DistancesBelow(m), Inf)
           /\ \A a, b \in Nodes : a # b => DistancesBelow(m)[0][<<a, b>>] = Lowest(m[<<a, b>>] \cup {Inf})
<1>1. DistancesBelow(m) = LengthsOf(m, Inf)
  BY DEF DistancesBelow, LengthsOf, ArcLengths, NextLengths
<1>2. m \in [Nodes \X Nodes -> SUBSET (0 .. Inf)]
  BY MetricsAssumption DEF Metric, Weight
<1>3. ASSUME NEW a \in Nodes, NEW b \in Nodes, a # b, m[<<a, b>>] # {}
      PROVE  Adjacent(Graph, a, b)
  <2>1. <<a, b>> \in Nodes \X Nodes /\ <<a, b>>[1] = a /\ <<a, b>>[2] = b
    OBVIOUS
  <2>2. <<a, b>> \in Edges \/ <<b, a>> \in Edges
    BY <1>3, <2>1, ArcsAssumption
  <2> QED BY <2>2 DEF Edges, Adjacent
<1>4. ArcsOn(Graph, m)
  BY <1>3 DEF ArcsOn
<1>5. /\ Lengths(LengthsOf(m, Inf), Inf) /\ OnEdges(Graph, LengthsOf(m, Inf), Inf)
      /\ \A a, b \in Nodes : a # b => LengthsOf(m, Inf)[0][<<a, b>>] = Lowest(m[<<a, b>>] \cup {Inf})
  BY <1>2, <1>4, LengthsOfArcs, InfAssumption
<1> QED BY <1>1, <1>5, Zenon

(* The lengths of shortest paths over lower nodes between adjacent nodes   *)
(* are the least of the arc and the ways over the lower triangles.         *)
LEMMA BasicIsLeast ==
    ASSUME NEW m \in Metrics, NEW e \in Edges
    PROVE  /\ BasicUp(m)[e] \in Nat /\ BasicDown(m)[e] \in Nat
           /\ BasicUp(m)[e] <= RespectUp(m)[e] /\ BasicDown(m)[e] <= RespectDown(m)[e]
           /\ \A z \in Triangles(e) : /\ BasicUp(m)[e] <= BasicDown(m)[<<z, e[1]>>] + BasicUp(m)[<<z, e[2]>>]
                                      /\ BasicDown(m)[e] <= BasicDown(m)[<<z, e[2]>>] + BasicUp(m)[<<z, e[1]>>]
           /\ \/ BasicUp(m)[e] = RespectUp(m)[e]
              \/ \E z \in Triangles(e) : BasicUp(m)[e] = BasicDown(m)[<<z, e[1]>>] + BasicUp(m)[<<z, e[2]>>]
           /\ \/ BasicDown(m)[e] = RespectDown(m)[e]
              \/ \E z \in Triangles(e) : BasicDown(m)[e] = BasicDown(m)[<<z, e[2]>>] + BasicUp(m)[<<z, e[1]>>]
<1> DEFINE D == DistancesBelow(m)
           R == Reversed(D)
           x == e[1]
           v == e[2]
<1>1. Lengths(D, Inf) /\ OnEdges(Graph, D, Inf)
  BY DistancesAreLengths
<1>2. \A a, b \in Nodes : a # b => D[0][<<a, b>>] = Lowest(m[<<a, b>>] \cup {Inf})
  BY DistancesAreLengths
<1>3. x \in Nodes /\ v \in Nodes /\ v \in Graph[x] /\ x < v /\ x # v /\ e = <<x, v>> /\ x \in 0 .. N /\ 0 \in 0 .. N
  BY GraphAssumption, NAssumption DEF Edges, Nodes
<1>4. \A f \in Edges : BasicUp(m)[f] = D[f[1]][f] /\ BasicDown(m)[f] = D[f[1]][<<f[2], f[1]>>]
  BY DEF BasicUp, BasicDown
<1>5. RespectUp(m)[e] = D[0][<<x, v>>] /\ RespectDown(m)[e] = D[0][<<v, x>>]
  BY <1>2, <1>3 DEF RespectUp, RespectDown
<1>6. BasicUp(m)[e] = D[x][<<x, v>>] /\ BasicDown(m)[e] = D[x][<<v, x>>]
  BY <1>3, <1>4
<1>7. ASSUME NEW z \in Nodes
      PROVE  /\ z \in Triangles(e) <=> x \in Graph[z] /\ v \in Graph[z]
             /\ z \in Triangles(e) =>
                    /\ BasicUp(m)[<<z, x>>] = D[z][<<z, x>>] /\ BasicUp(m)[<<z, v>>] = D[z][<<z, v>>]
                    /\ BasicDown(m)[<<z, x>>] = D[z][<<x, z>>] /\ BasicDown(m)[<<z, v>>] = D[z][<<v, z>>]
  <2>1. z \in Triangles(e) <=> x \in Graph[z] /\ v \in Graph[z]
    BY <1>3 DEF Triangles, Below
  <2>2. z \in Triangles(e) => <<z, x>> \in Edges /\ <<z, v>> \in Edges
    BY <1>3, <2>1 DEF Edges
  <2> QED BY <1>4, <2>1, <2>2
<1>8. Triangles(e) \subseteq Nodes
  BY DEF Triangles, Below
<1> HIDE DEF D, R, x, v
<1>9. LeastOver(D, Graph, x, v)
  BY <1>1, <1>3, OverTriangles, GraphUpwards, InfAssumption
<1>10. /\ Lengths(R, Inf) /\ \A k \in 0 .. N : \A a, b \in Nodes : R[k][<<a, b>>] = D[k][<<b, a>>]
  BY <1>1, ReversedLengths, InfAssumption DEF R
<1>11. OnEdges(Graph, R, Inf)
  BY <1>1, ReversedOnEdges, InfAssumption DEF R
<1>12. LeastOver(R, Graph, x, v)
  BY <1>3, <1>10, <1>11, OverTriangles, GraphUpwards, InfAssumption
<1>13. \A z \in Nodes : z \in 0 .. N
  BY NAssumption DEF Nodes
<1>14. ASSUME NEW z \in Nodes, NEW a \in Nodes, NEW b \in Nodes PROVE D[z][<<a, b>>] \in Nat
  BY <1>1, <1>13, LengthsFacts, InfAssumption
<1>15. /\ D[x][<<v, x>>] <= D[0][<<v, x>>]
       /\ \A z \in Nodes : x \in Graph[z] => D[x][<<v, x>>] <= D[z][<<v, z>>] + D[z][<<z, x>>]
       /\ \/ D[x][<<v, x>>] = D[0][<<v, x>>]
          \/ \E z \in Nodes : x \in Graph[z] /\ v \in Graph[z] /\ D[x][<<v, x>>] = D[z][<<v, z>>] + D[z][<<z, x>>]
  <2>1. \A z \in Nodes : R[z][<<x, z>>] = D[z][<<z, x>>] /\ R[z][<<z, v>>] = D[z][<<v, z>>]
    BY <1>3, <1>10, <1>13
  <2>2. R[x][<<x, v>>] = D[x][<<v, x>>] /\ R[0][<<x, v>>] = D[0][<<v, x>>]
    BY <1>3, <1>10
  <2>3. ASSUME NEW z \in Nodes
        PROVE  R[z][<<x, z>>] + R[z][<<z, v>>] = D[z][<<v, z>>] + D[z][<<z, x>>]
    <3>1. D[z][<<z, x>>] \in Nat /\ D[z][<<v, z>>] \in Nat
      BY <1>3, <1>14
    <3> QED BY <2>1, <3>1
  <2> QED BY <1>12, <2>2, <2>3 DEF LeastOver
<1>16. BasicUp(m)[e] \in Nat /\ BasicDown(m)[e] \in Nat
  BY <1>3, <1>6, <1>14
<1>17. ASSUME NEW z \in Triangles(e)
       PROVE  /\ BasicUp(m)[e] <= BasicDown(m)[<<z, x>>] + BasicUp(m)[<<z, v>>]
              /\ BasicDown(m)[e] <= BasicDown(m)[<<z, v>>] + BasicUp(m)[<<z, x>>]
  BY <1>6, <1>7, <1>8, <1>9, <1>15 DEF LeastOver
<1>18. \/ BasicUp(m)[e] = RespectUp(m)[e]
       \/ \E z \in Triangles(e) : BasicUp(m)[e] = BasicDown(m)[<<z, x>>] + BasicUp(m)[<<z, v>>]
  BY <1>5, <1>6, <1>7, <1>9 DEF LeastOver
<1>19. \/ BasicDown(m)[e] = RespectDown(m)[e]
       \/ \E z \in Triangles(e) : BasicDown(m)[e] = BasicDown(m)[<<z, v>>] + BasicUp(m)[<<z, x>>]
  BY <1>5, <1>6, <1>7, <1>15
<1>20. BasicUp(m)[e] <= RespectUp(m)[e] /\ BasicDown(m)[e] <= RespectDown(m)[e]
  BY <1>5, <1>6, <1>9, <1>15 DEF LeastOver
<1> QED BY <1>16, <1>17, <1>18, <1>19, <1>20 DEF x, v

(* Weights are not below the distances, and from each node up, on the way  *)
(* to a higher one, there is an edge of a shortest path.                   *)
Exact(d, weight, edges) ==
    /\ edges \subseteq Edges
    /\ d \in [Nodes \X Nodes -> Weight]
    /\ \A x \in Nodes : d[<<x, x>>] = 0
    /\ \A a, b, c \in Nodes : d[<<a, c>>] <= d[<<a, b>>] + d[<<b, c>>]
    /\ \A e \in Edges : weight[e] \in Nat /\ d[e] <= weight[e] /\ weight[e] <= Inf
    /\ \A x, b \in Nodes : x < b /\ d[<<x, b>>] < Inf =>
           \E y \in Graph[x] : <<x, y>> \in edges /\ weight[<<x, y>>] + d[<<y, b>>] <= d[<<x, b>>]

Back(d) == [e \in Nodes \X Nodes |-> d[<<e[2], e[1]>>]]

(* The weights of basic customization and the edges that perfect           *)
(* customization keeps, for one direction.                                 *)
EdgeLengths(D) == [e \in Edges |-> D[e[1]][e]]

Kept(weight, d) == {e \in Edges : weight[e] = d[e]}

(* An edge that leads on a shortest path from its lower end has, after     *)
(* basic customization, the distance of its ends: perfect customization    *)
(* keeps it.                                                               *)
LEMMA LengthsAreExact ==
    ASSUME NEW D, Lengths(D, Inf), OnEdges(Graph, D, Inf), NEW weight, weight = EdgeLengths(D),
           NEW edges, edges = Edges \/ edges = Kept(weight, D[N])
    PROVE  Exact(D[N], weight, edges)
<1> USE DEF EdgeLengths, Kept
<1>1. /\ N \in Nat /\ N \in 0 .. N /\ Nodes \subseteq 0 .. N /\ \A x \in Nodes : x < N
      /\ Inf \in Nat /\ Upwards(Graph)
  BY NAssumption, InfAssumption, GraphAssumption DEF Nodes, Upwards
<1>2. \A k \in 0 .. N : \A a, b \in Nodes : D[k][<<a, b>>] \in Nat /\ D[k][<<a, b>>] <= Inf
  BY <1>1, LengthsFacts
<1>3. \A j \in 0 .. N : \A a, b \in Nodes : D[N][<<a, b>>] <= D[j][<<a, b>>]
  BY <1>1, LengthsFacts
<1>4. \A x \in Nodes : D[N][<<x, x>>] = 0
  <2>1. \A k \in 0 .. N : \A x \in Nodes : D[k][<<x, x>>] = 0
    BY <1>1, LengthsFacts
  <2> QED BY <1>1, <2>1
<1>5. \A a, b, c \in Nodes : D[N][<<a, c>>] <= D[N][<<a, b>>] + D[N][<<b, c>>]
  <2>1. \A b \in 0 .. N - 1 : \A a, c \in Nodes : D[N][<<a, c>>] <= D[N][<<a, b>>] + D[N][<<b, c>>]
    BY <1>1, TriangleInequality
  <2> QED BY <2>1 DEF Nodes
<1>6. D[N] \in [Nodes \X Nodes -> Weight]
  BY <1>1 DEF Lengths, Weight
<1>7. \A x \in Nodes : \A y \in Graph[x] : y \in Nodes /\ <<x, y>> \in Edges /\ weight[<<x, y>>] = D[x][<<x, y>>]
  BY GraphAssumption DEF Graphs, Edges
<1>8. ASSUME NEW e \in Edges PROVE weight[e] \in Nat /\ D[N][e] <= weight[e] /\ weight[e] <= Inf
  <2>1. e[1] \in Nodes /\ e[2] \in Nodes /\ e = <<e[1], e[2]>> /\ weight[e] = D[e[1]][e]
    BY DEF Edges
  <2> QED BY <1>1, <1>2, <1>3, <2>1
<1>9. ASSUME NEW x \in Nodes, NEW b \in Nodes, x < b, D[N][<<x, b>>] < Inf
      PROVE  \E y \in Graph[x] : <<x, y>> \in edges /\ weight[<<x, y>>] + D[N][<<y, b>>] <= D[N][<<x, b>>]
  <2>1. PICK y \in Graph[x] : D[x][<<x, y>>] + D[N][<<y, b>>] <= D[N][<<x, b>>]
    <3>1. x < N
      BY <1>1
    <3>2. \A k \in 0 .. N : \A v \in Nodes : x < k /\ x < v /\ D[k][<<x, v>>] < Inf =>
              \E y \in Graph[x] : D[x][<<x, y>>] + D[k][<<y, v>>] <= D[k][<<x, v>>]
      BY <1>1, FirstUpwards
    <3> QED BY <1>1, <1>9, <3>1, <3>2
  <2>2. y \in Nodes /\ <<x, y>> \in Edges /\ weight[<<x, y>>] = D[x][<<x, y>>] /\ x \in 0 .. N
    BY <1>1, <1>7
  <2>3. D[N][<<x, b>>] <= D[N][<<x, y>>] + D[N][<<y, b>>]
    BY <1>5, <2>2
  <2>4. D[N][<<x, y>>] <= D[x][<<x, y>>]
    BY <1>3, <2>2
  <2>5. /\ D[N][<<x, b>>] \in Nat /\ D[N][<<x, y>>] \in Nat /\ D[N][<<y, b>>] \in Nat /\ D[x][<<x, y>>] \in Nat
    BY <1>1, <1>2, <2>2
  <2>6. D[x][<<x, y>>] = D[N][<<x, y>>]
    BY <2>1, <2>3, <2>4, <2>5
  <2>7. <<x, y>> \in edges
    BY <2>2, <2>6
  <2> QED BY <2>1, <2>2, <2>7
<1>10. edges \subseteq Edges
  OBVIOUS
<1> QED BY <1>4, <1>5, <1>6, <1>8, <1>9, <1>10 DEF Exact

(* This holds of the reference weights in both directions, with all edges  *)
(* or with those that perfect customization keeps.                         *)
LEMMA UpIsExact ==
    ASSUME NEW m \in Metrics, NEW edges, edges = Edges \/ edges = Kept(BasicUp(m), Distances(m))
    PROVE  Exact(Distances(m), BasicUp(m), edges)
<1>1. Lengths(DistancesBelow(m), Inf) /\ OnEdges(Graph, DistancesBelow(m), Inf)
  BY DistancesAreLengths
<1>2. BasicUp(m) = EdgeLengths(DistancesBelow(m)) /\ Distances(m) = DistancesBelow(m)[N]
  BY DEF BasicUp, Distances, EdgeLengths
<1> QED BY <1>1, <1>2, LengthsAreExact

LEMMA DownIsExact ==
    ASSUME NEW m \in Metrics, NEW edges, edges = Edges \/ edges = Kept(BasicDown(m), Back(Distances(m)))
    PROVE  Exact(Back(Distances(m)), BasicDown(m), edges)
<1> DEFINE D == DistancesBelow(m)
           R == Reversed(D)
<1>1. Lengths(D, Inf) /\ OnEdges(Graph, D, Inf)
  BY DistancesAreLengths
<1>2. BasicDown(m) = [e \in Edges |-> D[e[1]][<<e[2], e[1]>>]] /\ Distances(m) = D[N]
  BY DEF BasicDown, Distances
<1> HIDE DEF D
<1>3. /\ Lengths(R, Inf) /\ \A k \in 0 .. N : \A a, b \in Nodes : R[k][<<a, b>>] = D[k][<<b, a>>]
  BY <1>1, ReversedLengths, InfAssumption
<1>4. OnEdges(Graph, R, Inf)
  BY <1>1, ReversedOnEdges, InfAssumption
<1>5. R[N] = Back(Distances(m))
  BY <1>2, NAssumption DEF Reversed, Back
<1> HIDE DEF R
<1>6. ASSUME NEW e \in Edges PROVE R[e[1]][e] = D[e[1]][<<e[2], e[1]>>]
  <2>1. e[1] \in Nodes /\ e[2] \in Nodes /\ e = <<e[1], e[2]>> /\ e[1] \in 0 .. N
    BY NAssumption DEF Edges, Nodes
  <2> QED BY <1>3, <2>1
<1>7. BasicDown(m) = EdgeLengths(R)
  BY <1>2, <1>6 DEF EdgeLengths
<1> QED BY <1>3, <1>4, <1>5, <1>7, LengthsAreExact
=============================================================================

----------------------- MODULE FullCustomizationProofs ----------------------
(***************************************************************************)
(* Threads of any number, on any separator tree, customize the nodes one   *)
(* after the other, lower neighbors first, as customization node by node   *)
(* does, and never touch edges that another thread writes.  The perfect    *)
(* customization that follows leaves the distances on the edges.  The      *)
(* rebuild keeps the edges that are shortest paths, node by node or by     *)
(* tasks for any number of chunks, with unpacking that refers to them.     *)
(***************************************************************************)
EXTENDS CCHFullCustomization, CCHWeightsProofs, FiniteSetTheorems

(* The instances have their own names for the same things.                 *)
LEMMA SameNames ==
    /\ Basic!Nodes = Nodes /\ Basic!Edges = Edges /\ Basic!None = None /\ Basic!Cell = Cell
    /\ \A x : Basic!Below(x) = Below(x)
    /\ \A S : Basic!Lowest(S) = Lowest(S)
    /\ \A c : Basic!End(c) = End(c)
    /\ \A c : Basic!Subs(c) = Subs(c)
    /\ \A t : Basic!Top(t) = Head(stack[t])
<1>1. Basic!Nodes = Nodes /\ Basic!None = None /\ Basic!Cell = Cell
  BY DEF Basic!Nodes, Nodes, Basic!None, None, Basic!Cell, Cell
<1>2. Basic!Edges = Edges
  BY <1>1 DEF Basic!Edges, Edges
<1>3. \A x : Basic!Below(x) = Below(x)
  BY <1>1 DEF Basic!Below, Below
<1>4. \A S : Basic!Lowest(S) = Lowest(S)
  BY DEF Basic!Lowest, Lowest
<1>5. \A c : Basic!End(c) = End(c) /\ Basic!Subs(c) = Subs(c)
  BY DEF Basic!End, End, Basic!Subs, Subs
<1>6. \A t : Basic!Top(t) = Head(stack[t])
  BY DEF Basic!Top
<1> QED BY <1>1, <1>2, <1>3, <1>4, <1>5, <1>6

-----------------------------------------------------------------------------
(* Cells                                                                   *)

LEMMA CellFacts ==
    ASSUME NEW c \in Cell
    PROVE  /\ Cells[c].first \in Nat /\ Cells[c].size \in Nat /\ End(c) \in Nat
           /\ Cells[c].first <= End(c) /\ End(c) <= N
           /\ Cells[c].sub \in Seq(Cell) /\ Len(Cells[c].sub) \in Nat
           /\ \A i \in 1 .. Len(Cells[c].sub) :
                  /\ Cells[c].sub[i] \in Cell /\ Cells[c].sub[i] # Root
                  /\ Cells[Cells[c].sub[i]].first = IF i = 1 THEN Cells[c].first ELSE End(Cells[c].sub[i - 1])
                  /\ End(Cells[c].sub[i]) <= End(c)
<1>1. Cells[c] \in [first : Nat, size : Nat, sub : Seq(Cell)] /\ End(c) <= N
  BY CellsAssumption
<1>2. /\ Cells[c].first \in Nat /\ Cells[c].size \in Nat /\ Cells[c].sub \in Seq(Cell)
      /\ Len(Cells[c].sub) \in Nat /\ DOMAIN Cells[c].sub = 1 .. Len(Cells[c].sub)
  BY <1>1
<1>3. End(c) \in Nat /\ Cells[c].first <= End(c)
  BY <1>2 DEF End
<1>4. ASSUME NEW i \in 1 .. Len(Cells[c].sub)
      PROVE  /\ Cells[c].sub[i] \in Cell /\ Cells[c].sub[i] # Root
             /\ Cells[Cells[c].sub[i]].first = IF i = 1 THEN Cells[c].first ELSE End(Cells[c].sub[i - 1])
             /\ End(Cells[c].sub[i]) <= End(c)
  <2>1. Cells[c].sub[i] \in Cell
    BY <1>2
  <2>2. Cells[c].sub[i] # Root
    BY <1>2, CellsAssumption
  <2>3. /\ Cells[Cells[c].sub[i]].first = IF i = 1 THEN Cells[c].first ELSE End(Cells[c].sub[i - 1])
        /\ End(Cells[c].sub[i]) <= End(c)
    BY <1>2, CellsAssumption
  <2> QED BY <2>1, <2>2, <2>3
<1> QED BY <1>1, <1>2, <1>3, <1>4

(* Subcells begin where the cell does, or behind.                          *)
LEMMA SubsInside ==
    ASSUME NEW c \in Cell, NEW i \in 1 .. Len(Cells[c].sub)
    PROVE  Cells[c].first <= Cells[Cells[c].sub[i]].first
<1> DEFINE S == {j \in 1 .. Len(Cells[c].sub) : ~(Cells[c].first <= Cells[Cells[c].sub[j]].first)}
<1> SUFFICES ASSUME S # {} PROVE FALSE
  OBVIOUS
<1>1. Len(Cells[c].sub) \in Nat /\ Cells[c].first \in Nat
  BY CellFacts
<1>2. S \in SUBSET Nat
  BY <1>1
<1>3. PICK j \in S : \A k \in S : j <= k
  <2> HIDE DEF S
  <2> QED BY <1>2, LeastElement
<1>4. j \in 1 .. Len(Cells[c].sub)
  OBVIOUS
<1>5. j # 1
  BY <1>1, <1>4, CellFacts
<1>6. j - 1 \in 1 .. Len(Cells[c].sub) /\ j - 1 \notin S
  BY <1>1, <1>3, <1>4, <1>5
<1>7. Cells[c].sub[j - 1] \in Cell /\ Cells[c].first <= Cells[Cells[c].sub[j - 1]].first
  BY <1>6, CellFacts
<1>8. End(Cells[c].sub[j - 1]) >= Cells[Cells[c].sub[j - 1]].first /\ End(Cells[c].sub[j - 1]) \in Nat
      /\ Cells[Cells[c].sub[j - 1]].first \in Nat
  BY <1>7, CellFacts
<1>9. Cells[Cells[c].sub[j]].first = End(Cells[c].sub[j - 1])
  BY <1>4, <1>5, CellFacts
<1> QED BY <1>1, <1>7, <1>8, <1>9

(* Where the subcells up to one end, and where the first of them begins.   *)
StartOf(c, i) == IF i = 0 THEN Cells[c].first ELSE End(Cells[c].sub[i])

LEMMA StartFacts ==
    ASSUME NEW c \in Cell, NEW i \in 0 .. Len(Cells[c].sub)
    PROVE  StartOf(c, i) \in Nat /\ Cells[c].first <= StartOf(c, i) /\ StartOf(c, i) <= End(c)
<1>1. CASE i = 0
  BY <1>1, CellFacts DEF StartOf
<1>2. CASE i # 0
  <2>1. i \in 1 .. Len(Cells[c].sub) /\ Cells[c].sub[i] \in Cell
    BY <1>2, CellFacts
  <2>2. Cells[c].first <= Cells[Cells[c].sub[i]].first
    BY <2>1, SubsInside
  <2>3. /\ Cells[Cells[c].sub[i]].first <= End(Cells[c].sub[i]) /\ End(Cells[c].sub[i]) \in Nat
        /\ Cells[Cells[c].sub[i]].first \in Nat
    BY <2>1, CellFacts
  <2>4. End(Cells[c].sub[i]) <= End(c) /\ Cells[c].first \in Nat
    BY <2>1, CellFacts
  <2> QED BY <1>2, <2>2, <2>3, <2>4 DEF StartOf
<1> QED BY <1>1, <1>2

LEMMA SubStarts ==
    ASSUME NEW c \in Cell, NEW i \in 1 .. Len(Cells[c].sub)
    PROVE  StartOf(c, i) = End(Cells[c].sub[i]) /\ StartOf(c, i - 1) = Cells[Cells[c].sub[i]].first
<1>1. i \in Nat /\ i # 0 /\ (i - 1 = 0 <=> i = 1)
  BY CellFacts
<1>2. Cells[Cells[c].sub[i]].first = IF i = 1 THEN Cells[c].first ELSE End(Cells[c].sub[i - 1])
  BY CellFacts
<1> QED BY <1>1, <1>2 DEF StartOf

(* The subcells up to one have all nodes up to its end.                    *)
LEMMA SubsCover ==
    ASSUME NEW c \in Cell, NEW i \in 0 .. Len(Cells[c].sub), NEW x \in Cells[c].first .. StartOf(c, i) - 1
    PROVE  \E j \in 1 .. i : x \in NodesOf(Cells[c].sub[j])
<1> DEFINE S == {j \in 1 .. i : x < End(Cells[c].sub[j])}
<1>1. Len(Cells[c].sub) \in Nat /\ Cells[c].first \in Nat /\ i \in Nat /\ StartOf(c, i) \in Nat /\ x \in Nat
  BY CellFacts, StartFacts
<1>2. i \in S
  <2>1. i # 0
    BY <1>1 DEF StartOf
  <2> QED BY <1>1, <2>1 DEF StartOf
<1>3. S \in SUBSET Nat
  BY <1>1
<1>4. PICK j \in S : \A k \in S : j <= k
  <2> HIDE DEF S
  <2> QED BY <1>2, <1>3, LeastElement
<1>5. j \in 1 .. Len(Cells[c].sub) /\ x < End(Cells[c].sub[j]) /\ Cells[c].sub[j] \in Cell
  <2>1. j \in 1 .. Len(Cells[c].sub) /\ x < End(Cells[c].sub[j])
    BY <1>1
  <2> QED BY <2>1, CellFacts
<1>6. Cells[Cells[c].sub[j]].first <= x
  <2>1. CASE j = 1
    BY <1>1, <1>5, <2>1, CellFacts
  <2>2. CASE j # 1
    <3>1. j - 1 \in 1 .. i /\ j - 1 \notin S /\ j - 1 \in 1 .. Len(Cells[c].sub)
      BY <1>1, <1>4, <2>2
    <3>2. Cells[c].sub[j - 1] \in Cell
      BY <3>1, CellFacts
    <3>3. End(Cells[c].sub[j - 1]) \in Nat
      BY <3>2, CellFacts
    <3>4. Cells[Cells[c].sub[j]].first = End(Cells[c].sub[j - 1])
      BY <1>5, <2>2, CellFacts
    <3> QED BY <1>1, <3>1, <3>3, <3>4
  <2> QED BY <2>1, <2>2
<1>7. Cells[Cells[c].sub[j]].first \in Nat /\ End(Cells[c].sub[j]) \in Nat
  BY <1>5, CellFacts
<1>8. x \in NodesOf(Cells[c].sub[j])
  BY <1>1, <1>5, <1>6, <1>7 DEF NodesOf
<1> QED BY <1>8

(* A subcell and a later one have no nodes in common.                      *)
LEMMA SubsApart ==
    ASSUME NEW c \in Cell, NEW i \in 1 .. Len(Cells[c].sub), NEW j \in 1 .. Len(Cells[c].sub), i < j
    PROVE  End(Cells[c].sub[i]) <= Cells[Cells[c].sub[j]].first
<1> DEFINE S == {k \in i + 1 .. Len(Cells[c].sub) : ~(End(Cells[c].sub[i]) <= Cells[Cells[c].sub[k]].first)}
<1>1. Len(Cells[c].sub) \in Nat /\ i \in Nat /\ Cells[c].sub[i] \in Cell /\ j \in i + 1 .. Len(Cells[c].sub)
  BY CellFacts
<1>2. End(Cells[c].sub[i]) \in Nat
  BY <1>1, CellFacts
<1> SUFFICES ASSUME S # {} PROVE FALSE
  BY <1>1
<1>3. S \in SUBSET Nat
  BY <1>1
<1>4. PICK k \in S : \A l \in S : k <= l
  <2> HIDE DEF S
  <2> QED BY <1>3, LeastElement
<1>5. k \in 2 .. Len(Cells[c].sub) /\ k \in i + 1 .. Len(Cells[c].sub) /\ ~(End(Cells[c].sub[i]) <= Cells[Cells[c].sub[k]].first)
  BY <1>1
<1>6. Cells[Cells[c].sub[k]].first = End(Cells[c].sub[k - 1])
  BY <1>1, <1>5, CellFacts
<1>7. k # i + 1
  BY <1>1, <1>2, <1>5, <1>6
<1>8. k - 1 \in i + 1 .. Len(Cells[c].sub) /\ k - 1 \notin S /\ k - 1 \in 1 .. Len(Cells[c].sub)
  BY <1>1, <1>4, <1>5, <1>7
<1>9. Cells[c].sub[k - 1] \in Cell
  BY <1>8, CellFacts
<1>10. /\ Cells[Cells[c].sub[k - 1]].first <= End(Cells[c].sub[k - 1])
       /\ Cells[Cells[c].sub[k - 1]].first \in Nat /\ End(Cells[c].sub[k - 1]) \in Nat
  BY <1>9, CellFacts
<1>11. End(Cells[c].sub[i]) <= Cells[Cells[c].sub[k - 1]].first
  BY <1>8
<1> QED BY <1>2, <1>5, <1>6, <1>10, <1>11

(* What the stack of a thread is after a call and after its return.        *)
LEMMA PushFacts ==
    ASSUME NEW S, NEW s \in Seq(S), NEW c \in S
    PROVE  LET after == <<c>> \o s
           IN  /\ after \in Seq(S) /\ Len(after) = Len(s) + 1 /\ Head(after) = c
               /\ after[1] = c /\ \A i \in 1 .. Len(s) : after[i + 1] = s[i]
<1>1. Len(s) \in Nat /\ <<c>> \in Seq(S) /\ Len(<<c>>) = 1
  OBVIOUS
<1> QED BY <1>1

LEMMA TailFacts ==
    ASSUME NEW S, NEW s \in Seq(S), s # <<>>
    PROVE  /\ Tail(s) \in Seq(S) /\ Len(s) \in Nat \ {0} /\ Len(Tail(s)) = Len(s) - 1
           /\ Head(s) = s[1] /\ Head(s) \in S
           /\ \A i \in 1 .. Len(s) - 1 : Tail(s)[i] = s[i + 1]
OBVIOUS

-----------------------------------------------------------------------------
(* The stacks, of the threads of both customizations                       *)

Top(t) == Head(stack[t])

(* The states of cells that a thread has begun and not finished.           *)
Held == {"splitting", "running", "waiting"}

(* Every call is on one stack once, and has begun.                         *)
StacksApart ==
    /\ stack \in [Threads -> Seq(Cell)]
    /\ \A t \in Threads : \A i \in 1 .. Len(stack[t]) : state[stack[t][i]] \in Held
    /\ \A t, u \in Threads : \A i \in 1 .. Len(stack[t]), j \in 1 .. Len(stack[u]) :
           stack[t][i] = stack[u][j] => t = u /\ i = j

LEMMA TopFacts ==
    ASSUME StacksApart, NEW t \in Threads, stack[t] # <<>>
    PROVE  /\ Top(t) \in Cell /\ state[Top(t)] \in Held
           /\ \A u \in Threads : u # t /\ stack[u] # <<>> => Top(u) # Top(t)
<1>1. \A u \in Threads : stack[u] # <<>> => 1 \in 1 .. Len(stack[u]) /\ Top(u) = stack[u][1] /\ Top(u) \in Cell
  <2> SUFFICES ASSUME NEW u \in Threads, stack[u] # <<>>
               PROVE  1 \in 1 .. Len(stack[u]) /\ Top(u) = stack[u][1] /\ Top(u) \in Cell
    OBVIOUS
  <2>1. stack[u] \in Seq(Cell)
    BY DEF StacksApart
  <2> QED BY <2>1, TailFacts DEF Top
<1> QED BY <1>1 DEF StacksApart

LEMMA PushStacks ==
    ASSUME StacksApart, NEW t \in Threads, NEW c \in Cell, state[c] \notin Held, state'[c] \in Held,
           stack' = [stack EXCEPT ![t] = <<c>> \o @],
           \A d \in Cell : state[d] \in Held => state'[d] \in Held
    PROVE  /\ StacksApart' /\ stack'[t] # <<>> /\ Head(stack'[t]) = c
           /\ \A u \in Threads : u # t => stack'[u] = stack[u]
<1> DEFINE after == <<c>> \o stack[t]
<1>1. stack \in [Threads -> Seq(Cell)] /\ stack[t] \in Seq(Cell) /\ stack'[t] = after
      /\ \A u \in Threads : u # t => stack'[u] = stack[u]
  BY DEF StacksApart
<1>2. /\ after \in Seq(Cell) /\ Len(after) = Len(stack[t]) + 1 /\ Head(after) = c
      /\ after[1] = c /\ \A i \in 1 .. Len(stack[t]) : after[i + 1] = stack[t][i]
      /\ Len(stack[t]) \in Nat
  BY <1>1, PushFacts
<1> HIDE DEF after
<1>3. stack' \in [Threads -> Seq(Cell)]
  <2>1. \A u \in Threads : stack'[u] \in Seq(Cell)
    BY <1>1, <1>2
  <2>2. stack' = [u \in Threads |-> stack'[u]]
    BY <1>1
  <2> QED BY <2>1, <2>2
<1>4. ASSUME NEW i \in 1 .. Len(after) 
      PROVE  \/ i = 1 /\ after[i] = c
             \/ i - 1 \in 1 .. Len(stack[t]) /\ after[i] = stack[t][i - 1]
  <2>1. CASE i = 1
    BY <1>2, <2>1
  <2>2. CASE i # 1
    <3>1. i - 1 \in 1 .. Len(stack[t]) /\ (i - 1) + 1 = i
      BY <1>2, <2>2
    <3> QED BY <1>2, <3>1
  <2> QED BY <2>1, <2>2
<1>5. \A u \in Threads : \A i \in 1 .. Len(stack[u]) : stack[u][i] \in Cell /\ state[stack[u][i]] \in Held /\ stack[u][i] # c
  <2>1. \A u \in Threads : \A i \in 1 .. Len(stack[u]) : stack[u][i] \in Cell
    BY <1>1
  <2> QED BY <2>1 DEF StacksApart
<1>6. ASSUME NEW u \in Threads, NEW i \in 1 .. Len(stack'[u]) PROVE state'[stack'[u][i]] \in Held
  <2>1. CASE u = t
    <3>1. stack'[u] = after
      BY <1>1, <2>1
    <3> QED BY <1>4, <1>5, <3>1
  <2>2. CASE u # t
    BY <1>1, <1>5, <2>2
  <2> QED BY <2>1, <2>2
<1>7. ASSUME NEW u \in Threads, NEW w \in Threads, NEW i \in 1 .. Len(stack'[u]), NEW j \in 1 .. Len(stack'[w]),
             stack'[u][i] = stack'[w][j]
      PROVE  u = w /\ i = j
  <2>1. CASE u = t /\ w = t
    <3>1. i \in 1 .. Len(after) /\ j \in 1 .. Len(after) /\ after[i] = after[j]
      BY <1>1, <1>7, <2>1
    <3>2. \A k, l \in 1 .. Len(stack[t]) : stack[t][k] = stack[t][l] => k = l
      BY DEF StacksApart
    <3>3. \A k \in 1 .. Len(stack[t]) : stack[t][k] # c
      BY <1>5
    <3>4. (i = 1 /\ after[i] = c) \/ (i - 1 \in 1 .. Len(stack[t]) /\ after[i] = stack[t][i - 1])
      BY <1>4, <3>1
    <3>5. (j = 1 /\ after[j] = c) \/ (j - 1 \in 1 .. Len(stack[t]) /\ after[j] = stack[t][j - 1])
      BY <1>4, <3>1
    <3>6. (i = 1 /\ j = 1) \/ i - 1 = j - 1
      BY <3>1, <3>2, <3>3, <3>4, <3>5
    <3>7. i \in Int /\ j \in Int
      BY <3>1, <1>2
    <3> QED BY <2>1, <3>6, <3>7
  <2>2. CASE u = t /\ w # t
    <3>1. i \in 1 .. Len(after) /\ j \in 1 .. Len(stack[w]) /\ after[i] = stack[w][j]
      BY <1>1, <1>7, <2>2
    <3>2. i - 1 \in 1 .. Len(stack[t]) /\ stack[w][j] = stack[t][i - 1]
      BY <1>4, <1>5, <3>1
    <3> QED BY <2>2, <3>1, <3>2 DEF StacksApart
  <2>3. CASE u # t /\ w = t
    <3>1. j \in 1 .. Len(after) /\ i \in 1 .. Len(stack[u]) /\ after[j] = stack[u][i]
      BY <1>1, <1>7, <2>3
    <3>2. j - 1 \in 1 .. Len(stack[t]) /\ stack[u][i] = stack[t][j - 1]
      BY <1>4, <1>5, <3>1
    <3> QED BY <2>3, <3>1, <3>2 DEF StacksApart
  <2>4. CASE u # t /\ w # t
    BY <1>1, <1>7, <2>4 DEF StacksApart
  <2> QED BY <2>1, <2>2, <2>3, <2>4
<1>8. stack'[t] # <<>>
  BY <1>1, <1>2
<1> QED BY <1>1, <1>2, <1>3, <1>6, <1>7, <1>8 DEF StacksApart

LEMMA PopStacks ==
    ASSUME StacksApart, NEW t \in Threads, stack[t] # <<>>,
           stack' = [stack EXCEPT ![t] = Tail(@)],
           \A d \in Cell \ {Top(t)} : state'[d] = state[d]
    PROVE  StacksApart' /\ \A u \in Threads : u # t => stack'[u] = stack[u]
<1>1. stack \in [Threads -> Seq(Cell)] /\ stack[t] \in Seq(Cell) /\ stack'[t] = Tail(stack[t])
      /\ \A u \in Threads : u # t => stack'[u] = stack[u]
  BY DEF StacksApart
<1>2. /\ stack'[t] \in Seq(Cell) /\ Len(stack[t]) \in Nat \ {0} /\ Len(stack'[t]) = Len(stack[t]) - 1
      /\ Top(t) = stack[t][1] /\ \A i \in 1 .. Len(stack[t]) - 1 : stack'[t][i] = stack[t][i + 1]
  BY <1>1, TailFacts DEF Top
<1>3. stack' \in [Threads -> Seq(Cell)]
  <2>1. \A u \in Threads : stack'[u] \in Seq(Cell)
    BY <1>1, <1>2
  <2>2. stack' = [u \in Threads |-> stack'[u]]
    BY <1>1
  <2> QED BY <2>1, <2>2
<1>4. ASSUME NEW u \in Threads, NEW i \in 1 .. Len(stack'[u])
      PROVE  \E k \in 1 .. Len(stack[u]) :
                 /\ stack'[u][i] = stack[u][k] /\ k = IF u = t THEN i + 1 ELSE i
                 /\ stack[u][k] # Top(t) /\ stack[u][k] \in Cell
  <2>1. CASE u = t
    <3>1. i + 1 \in 1 .. Len(stack[t]) /\ stack'[t][i] = stack[t][i + 1] /\ i + 1 # 1 /\ 1 \in 1 .. Len(stack[t])
      BY <1>2, <2>1
    <3>2. stack[t][i + 1] # stack[t][1]
      BY <3>1 DEF StacksApart
    <3> QED BY <1>1, <1>2, <2>1, <3>1, <3>2
  <2>2. CASE u # t
    <3>1. i \in 1 .. Len(stack[u]) /\ stack'[u][i] = stack[u][i] /\ 1 \in 1 .. Len(stack[t])
      BY <1>1, <1>2, <2>2
    <3>2. stack[u][i] # stack[t][1]
      BY <2>2, <3>1 DEF StacksApart
    <3> QED BY <1>1, <1>2, <2>2, <3>1, <3>2
  <2> QED BY <2>1, <2>2
<1>5. ASSUME NEW u \in Threads, NEW i \in 1 .. Len(stack'[u]) PROVE state'[stack'[u][i]] \in Held
  <2>1. PICK k \in 1 .. Len(stack[u]) : stack'[u][i] = stack[u][k] /\ stack[u][k] # Top(t) /\ stack[u][k] \in Cell
    BY <1>4
  <2>2. state[stack[u][k]] \in Held
    BY DEF StacksApart
  <2> QED BY <2>1, <2>2
<1>6. ASSUME NEW u \in Threads, NEW w \in Threads, NEW i \in 1 .. Len(stack'[u]), NEW j \in 1 .. Len(stack'[w]),
             stack'[u][i] = stack'[w][j]
      PROVE  u = w /\ i = j
  <2>1. PICK k \in 1 .. Len(stack[u]) : stack'[u][i] = stack[u][k] /\ k = IF u = t THEN i + 1 ELSE i
    BY <1>4
  <2>2. PICK l \in 1 .. Len(stack[w]) : stack'[w][j] = stack[w][l] /\ l = IF w = t THEN j + 1 ELSE j
    BY <1>4
  <2>3. u = w /\ k = l
    BY <1>6, <2>1, <2>2 DEF StacksApart
  <2>4. i \in Int /\ j \in Int
    BY <1>3
  <2> QED BY <2>1, <2>2, <2>3, <2>4
<1> QED BY <1>1, <1>3, <1>5, <1>6 DEF StacksApart

LEMMA SameStacks ==
    ASSUME StacksApart, stack' = stack, \A d \in Cell : state[d] \in Held => state'[d] \in Held
    PROVE  StacksApart'
<1>1. \A u \in Threads : \A i \in 1 .. Len(stack[u]) : stack[u][i] \in Cell
  BY DEF StacksApart
<1> QED BY <1>1 DEF StacksApart

-----------------------------------------------------------------------------
(* The basic customization                                                 *)

Active == {"spawned", "splitting", "running"}

(* The nodes still to be customized by the call for a cell: those that its *)
(* subcells do not answer for.                                             *)
OpenFrom(c) == IF state[c] = "running" THEN current[c] ELSE StartOf(c, nextSub[c] - 1)

Open(c) == IF state[c] \in Active THEN OpenFrom(c) .. End(c) - 1 ELSE {}

(* Each node is still to be customized by at most one call, and then it is *)
(* not customized yet.                                                     *)
OpenApart ==
    /\ \A c, d \in Cell : c # d => Open(c) \cap Open(d) = {}
    /\ \A c \in Cell : Open(c) \cap customized = {}

(* How far the call for a cell is.                                         *)
Progress(c) ==
    /\ nextSub[c] \in 1 .. Len(Cells[c].sub) + 1
    /\ state[c] \in {"idle", "spawned"} => nextSub[c] = 1
    /\ state[c] \in {"idle", "spawned", "splitting"} => current[c] = Cells[c].first
    /\ state[c] = "running" => current[c] \in Cells[c].first .. End(c)
                               /\ Cells[c].first .. current[c] - 1 \subseteq customized
    /\ state[c] = "done" => NodesOf(c) \subseteq customized
    /\ \A i \in nextSub[c] .. Len(Cells[c].sub) : state[Cells[c].sub[i]] = "idle"
    /\ state[c] # "splitting" => \A i \in 1 .. Len(Cells[c].sub) : state[Cells[c].sub[i]] \notin Active

(* What a thread with a loaded workspace is doing.                         *)
Working(t) ==
    loaded[t] =>
        /\ stack[t] # <<>> /\ state[Top(t)] = "running" /\ current[Top(t)] < End(Top(t))
        /\ todo[t] \subseteq Below(current[Top(t)])

TreeTypes ==
    /\ state \in [Cell -> {"idle", "done"} \cup Active]
    /\ nextSub \in [Cell -> Nat] /\ current \in [Cell -> Nat]
    /\ loaded \in [Threads -> BOOLEAN] /\ todo \in [Threads -> SUBSET Nodes]
    /\ customized \subseteq Nodes

TreeInv ==
    /\ TreeTypes /\ StacksApart /\ OpenApart
    /\ \A c \in Cell : Progress(c)
    /\ \A t \in Threads : Working(t)

LEMMA TakeTree ==
    ASSUME TreeInv, NEW t \in Threads, Basic!Take(t)
    PROVE  TreeInv'
<1>1. /\ TreeTypes /\ StacksApart /\ OpenApart /\ (\A c \in Cell : Progress(c))
      /\ \A u \in Threads : Working(u)
  BY DEF TreeInv
<1>2. PICK c \in Cell :
        /\ state[c] = "spawned" /\ state' = [state EXCEPT ![c] = Basic!Entered(c)]
        /\ stack' = [stack EXCEPT ![t] = <<c>> \o @]
  BY SameNames DEF Basic!Take
<1>3. /\ nextSub' = nextSub /\ current' = current /\ loaded' = loaded /\ todo' = todo
      /\ customized' = customized
  BY DEF Basic!Take, Basic!workVars, Basic!weightVars
<1>4. stack[t] # <<>> => state[Top(t)] = "splitting"
  BY SameNames DEF Basic!Take, Basic!Busy, Basic!InScopeEnd, Top
<1>5. Basic!Entered(c) \in {"running", "splitting"}
  BY DEF Basic!Entered
<1>6. state'[c] \in {"running", "splitting"} /\ \A d \in Cell \ {c} : state'[d] = state[d]
  BY <1>1, <1>2, <1>5 DEF TreeTypes
<1>7. TreeTypes'
  BY <1>1, <1>2, <1>3, <1>5 DEF TreeTypes, Active
<1>8. /\ StacksApart' /\ \A u \in Threads : u # t => stack'[u] = stack[u]
  BY <1>1, <1>2, <1>6, PushStacks DEF Held
<1>9. ~loaded[t]
  BY <1>1, <1>4 DEF Working
<1>10. \A u \in Threads : Working(u)'
  <2> SUFFICES ASSUME NEW u \in Threads, loaded[u] PROVE Working(u)'
    BY <1>3 DEF Working
  <2>1. u # t /\ stack'[u] = stack[u] /\ state[Top(u)] = "running" /\ Working(u) /\ stack[u] # <<>>
    BY <1>1, <1>8, <1>9 DEF Working
  <2>2. Top(u) \in Cell /\ Top(u) # c /\ Top(u)' = Top(u)
    BY <1>1, <1>2, <2>1, TopFacts DEF Top
  <2> QED BY <1>3, <1>6, <2>1, <2>2 DEF Working
<1>11. \A d \in Cell : Progress(d)'
  <2> SUFFICES ASSUME NEW d \in Cell PROVE Progress(d)'
    OBVIOUS
  <2>1. Progress(d) /\ Cells[d].first \in Nat /\ Cells[d].first <= End(d) /\ End(d) \in Nat
    BY <1>1, CellFacts
  <2>2. \A i \in 1 .. Len(Cells[d].sub) :
            /\ Cells[d].sub[i] \in Cell
            /\ state[Cells[d].sub[i]] = "idle" => state'[Cells[d].sub[i]] = "idle"
            /\ state[Cells[d].sub[i]] \notin Active => state'[Cells[d].sub[i]] \notin Active
    BY <1>2, <1>6, CellFacts DEF Active
  <2>3. nextSub[d] \in 1 .. Len(Cells[d].sub) + 1 /\ Len(Cells[d].sub) \in Nat
    BY <2>1, CellFacts DEF Progress
  <2>4. CASE d = c
    BY <1>2, <1>3, <1>6, <2>1, <2>2, <2>3, <2>4 DEF Progress
  <2>5. CASE d # c
    BY <1>3, <1>6, <2>1, <2>2, <2>3, <2>5 DEF Progress
  <2> QED BY <2>4, <2>5
<1>12. \A d \in Cell : Open(d)' = Open(d)
  <2> SUFFICES ASSUME NEW d \in Cell PROVE Open(d)' = Open(d)
    OBVIOUS
  <2>1. CASE d = c
    <3>1. nextSub[c] = 1 /\ current[c] = Cells[c].first
      BY <1>1, <1>2 DEF Progress
    <3> QED BY <1>2, <1>3, <1>6, <2>1, <3>1 DEF Open, OpenFrom, StartOf, Active
  <2>2. CASE d # c
    BY <1>3, <1>6, <2>2 DEF Open, OpenFrom
  <2> QED BY <2>1, <2>2
<1>13. OpenApart'
  BY <1>1, <1>3, <1>12 DEF OpenApart
<1> QED BY <1>7, <1>8, <1>10, <1>11, <1>13 DEF TreeInv

LEMMA SpawnTree ==
    ASSUME TreeInv, NEW t \in Threads, Basic!SpawnOrCall(t)
    PROVE  TreeInv'
<1>1. /\ TreeTypes /\ StacksApart /\ OpenApart /\ (\A d \in Cell : Progress(d))
      /\ \A u \in Threads : Working(u)
  BY DEF TreeInv
<1>2. PICK c \in Cell : c = Top(t)
  BY <1>1, TopFacts DEF Basic!SpawnOrCall, Basic!Busy
<1>3. /\ stack[t] # <<>> /\ state[c] = "splitting" /\ Len(Cells[c].sub) \in Nat
      /\ nextSub[c] \in 1 .. Len(Cells[c].sub)
  <2>1. stack[t] # <<>> /\ state[c] = "splitting" /\ ~(nextSub[c] > Len(Cells[c].sub))
    BY <1>2 DEF Basic!SpawnOrCall, Basic!Busy, Basic!InScopeEnd, Basic!Top, Top
  <2>2. Progress(c) /\ Len(Cells[c].sub) \in Nat
    BY <1>1, CellFacts
  <2> QED BY <2>1, <2>2 DEF Progress
<1>4. PICK sub \in Cell : sub = Cells[c].sub[nextSub[c]]
  BY <1>3, CellFacts
<1>5. /\ stack[t] # <<>> /\ state[c] = "splitting"
      /\ nextSub' = [nextSub EXCEPT ![c] = @ + 1]
      /\ \/ state' = [state EXCEPT ![sub] = "running"] /\ stack' = [stack EXCEPT ![t] = <<sub>> \o @]
         \/ state' = [state EXCEPT ![sub] = "spawned"] /\ stack' = stack
  BY <1>2, <1>4, <1>3 DEF Basic!SpawnOrCall, Basic!Top, Top
<1>6. current' = current /\ loaded' = loaded /\ todo' = todo /\ customized' = customized
  BY DEF Basic!SpawnOrCall, Basic!workVars, Basic!weightVars
<1>7. sub \in Cell /\ sub # Root /\ state[sub] = "idle" /\ sub # c
  <2>1. sub \in Cell /\ sub # Root
    BY <1>3, <1>4, CellFacts
  <2>2. Progress(c)
    BY <1>1, <1>3
  <2>3. state[sub] = "idle"
    BY <1>3, <1>4, <2>2 DEF Progress
  <2> QED BY <1>5, <2>1, <2>3
<1>8. \A d \in Cell : \A i \in 1 .. Len(Cells[d].sub) : Cells[d].sub[i] = sub => d = c /\ i = nextSub[c]
  <2> SUFFICES ASSUME NEW d \in Cell, NEW i \in 1 .. Len(Cells[d].sub), Cells[d].sub[i] = sub
               PROVE  d = c /\ i = nextSub[c]
    OBVIOUS
  <2>1. i \in DOMAIN Cells[d].sub /\ nextSub[c] \in DOMAIN Cells[c].sub
    BY <1>3, CellFacts
  <2> QED BY <1>3, <1>4, <2>1, CellsAssumption
<1>9. state'[sub] \in {"running", "spawned"} /\ \A d \in Cell \ {sub} : state'[d] = state[d]
  BY <1>1, <1>5, <1>7 DEF TreeTypes
<1>10. nextSub'[c] = nextSub[c] + 1 /\ \A d \in Cell \ {c} : nextSub'[d] = nextSub[d]
  BY <1>1, <1>5, <1>3, <1>2 DEF TreeTypes
<1>11. TreeTypes'
  <2>1. state' \in [Cell -> {"idle", "done"} \cup Active]
    BY <1>1, <1>5, <1>7 DEF TreeTypes, Active
  <2>2. nextSub' \in [Cell -> Nat]
    BY <1>1, <1>5, <1>3, <1>2 DEF TreeTypes
  <2> QED BY <1>1, <1>6, <2>1, <2>2 DEF TreeTypes
<1>12. /\ StacksApart' /\ \A u \in Threads : u # t => stack'[u] = stack[u]
  <2>1. \A d \in Cell : state[d] \in Held => state'[d] \in Held
    BY <1>7, <1>9 DEF Held
  <2>2. CASE stack' = stack
    BY <1>1, <2>1, <2>2, SameStacks
  <2>3. CASE stack' = [stack EXCEPT ![t] = <<sub>> \o @] /\ state'[sub] = "running"
    BY <1>1, <1>7, <2>1, <2>3, PushStacks DEF Held
  <2>4. state' = [state EXCEPT ![sub] = "running"] => state'[sub] = "running"
    BY <1>1, <1>7 DEF TreeTypes
  <2> QED BY <1>5, <2>2, <2>3, <2>4
<1>13. ~loaded[t]
  BY <1>1, <1>5, <1>2 DEF Working
<1>14. \A u \in Threads : Working(u)'
  <2> SUFFICES ASSUME NEW u \in Threads, loaded[u] PROVE Working(u)'
    BY <1>6 DEF Working
  <2>1. u # t /\ stack'[u] = stack[u] /\ state[Top(u)] = "running" /\ Working(u) /\ stack[u] # <<>>
    BY <1>1, <1>12, <1>13 DEF Working
  <2>2. Top(u) \in Cell /\ Top(u) # sub /\ Top(u)' = Top(u)
    BY <1>1, <1>7, <2>1, TopFacts DEF Top
  <2> QED BY <1>6, <1>9, <2>1, <2>2 DEF Working
<1>15. \A d \in Cell : Progress(d)'
  <2> SUFFICES ASSUME NEW d \in Cell PROVE Progress(d)'
    OBVIOUS
  <2>1. Progress(d) /\ Cells[d].first \in Nat /\ Cells[d].first <= End(d) /\ End(d) \in Nat
    BY <1>1, CellFacts
  <2>2. Len(Cells[d].sub) \in Nat /\ \A i \in 1 .. Len(Cells[d].sub) : Cells[d].sub[i] \in Cell
    BY CellFacts
  <2>3. nextSub'[d] \in 1 .. Len(Cells[d].sub) + 1 /\ nextSub[d] \in 1 .. Len(Cells[d].sub) + 1
        /\ nextSub'[d] >= nextSub[d]
    BY <1>3, <1>10, <2>1, <2>2 DEF Progress
  <2>4. ASSUME NEW i \in nextSub'[d] .. Len(Cells[d].sub) PROVE state'[Cells[d].sub[i]] = "idle"
    <3>1. i \in 1 .. Len(Cells[d].sub) /\ i \in nextSub[d] .. Len(Cells[d].sub)
      BY <2>2, <2>3
    <3>2. state[Cells[d].sub[i]] = "idle"
      BY <2>1, <3>1 DEF Progress
    <3>3. Cells[d].sub[i] # sub
      BY <1>3, <1>8, <1>10, <2>2, <3>1
    <3> QED BY <1>9, <2>2, <3>1, <3>2, <3>3
  <2>5. ASSUME state'[d] # "splitting", NEW i \in 1 .. Len(Cells[d].sub)
        PROVE  state'[Cells[d].sub[i]] \notin Active
    <3>1. d # c
      BY <1>5, <1>3, <1>7, <1>9, <2>5
    <3>2. Cells[d].sub[i] # sub
      BY <1>8, <3>1
    <3>3. state[d] # "splitting"
      BY <1>7, <1>9, <2>5
    <3>4. state[Cells[d].sub[i]] \notin Active
      BY <2>1, <3>3 DEF Progress
    <3> QED BY <1>9, <2>2, <3>2, <3>4
  <2>6. CASE d = sub
    <3>1. current[d] = Cells[d].first /\ nextSub[d] = 1 /\ d # c
      BY <1>7, <2>1, <2>6 DEF Progress
    <3> QED BY <1>6, <1>9, <1>10, <2>1, <2>3, <2>4, <2>5, <2>6, <3>1 DEF Progress
  <2>7. CASE d # sub
    <3>1. state'[d] = state[d]
      BY <1>9, <2>7
    <3>2. state[d] \in {"idle", "spawned"} => nextSub'[d] = 1
      BY <1>5, <1>10, <2>1 DEF Progress
    <3> QED BY <1>6, <2>1, <2>3, <2>4, <2>5, <3>1, <3>2 DEF Progress
  <2> QED BY <2>6, <2>7
\* the subcell gets its nodes from the cell
<1>16. /\ Open(sub)' \cup Open(c)' \subseteq Open(c) /\ Open(sub)' \cap Open(c)' = {}
       /\ \A d \in Cell \ {c, sub} : Open(d)' = Open(d)
  <2>1. Open(c) = StartOf(c, nextSub[c] - 1) .. End(c) - 1
    BY <1>5 DEF Open, OpenFrom, Active
  <2>2. Open(c)' = StartOf(c, nextSub[c]) .. End(c) - 1
    <3>1. state'[c] = "splitting" /\ nextSub'[c] - 1 = nextSub[c]
      BY <1>5, <1>3, <1>7, <1>9, <1>10
    <3> QED BY <3>1 DEF Open, OpenFrom, Active
  <2>3. StartOf(c, nextSub[c]) = End(sub) /\ StartOf(c, nextSub[c] - 1) = Cells[sub].first
    BY <1>3, <1>4, SubStarts
  <2>4. Open(sub)' = Cells[sub].first .. End(sub) - 1
    <3>1. current[sub] = Cells[sub].first /\ nextSub'[sub] = 1
      BY <1>1, <1>7, <1>10 DEF Progress
    <3> QED BY <1>6, <1>9, <3>1 DEF Open, OpenFrom, StartOf, Active
  <2>5. Cells[sub].first \in Nat /\ Cells[sub].first <= End(sub) /\ End(sub) \in Nat
    BY <1>7, CellFacts
  <2>6. End(sub) <= End(c) /\ End(c) \in Nat
    BY <1>3, <1>4, CellFacts
  <2>7. \A d \in Cell \ {c, sub} : Open(d)' = Open(d)
    BY <1>6, <1>9, <1>10 DEF Open, OpenFrom
  <2> QED BY <2>1, <2>2, <2>3, <2>4, <2>5, <2>6, <2>7
<1>17. OpenApart'
  <2>1. \A d \in Cell \ {c} : Open(c) \cap Open(d) = {} /\ Open(d) \cap Open(c) = {}
    BY <1>1, <1>3 DEF OpenApart
  <2>2. ASSUME NEW d \in Cell, NEW e \in Cell, d # e PROVE Open(d)' \cap Open(e)' = {}
    <3>1. CASE d \in {c, sub} /\ e \in {c, sub}
      BY <1>16, <2>2, <3>1
    <3>2. CASE d \in {c, sub} /\ e \notin {c, sub}
      BY <1>16, <2>1, <3>2
    <3>3. CASE d \notin {c, sub} /\ e \in {c, sub}
      BY <1>16, <2>1, <3>3
    <3>4. CASE d \notin {c, sub} /\ e \notin {c, sub}
      BY <1>1, <1>16, <2>2, <3>4 DEF OpenApart
    <3> QED BY <3>1, <3>2, <3>3, <3>4
  <2>3. ASSUME NEW d \in Cell PROVE Open(d)' \cap customized' = {}
    <3>1. Open(c) \cap customized = {} /\ Open(d) \cap customized = {}
      BY <1>1, <1>3 DEF OpenApart
    <3> QED BY <1>6, <1>16, <3>1
  <2> QED BY <2>2, <2>3 DEF OpenApart
<1> QED BY <1>11, <1>12, <1>14, <1>15, <1>17 DEF TreeInv

LEMMA JoinTree ==
    ASSUME TreeInv, NEW t \in Threads, Basic!JoinScope(t)
    PROVE  TreeInv'
<1>1. /\ TreeTypes /\ StacksApart /\ OpenApart /\ (\A d \in Cell : Progress(d))
      /\ \A u \in Threads : Working(u)
  BY DEF TreeInv
<1>2. stack[t] # <<>> /\ stack' = stack
  BY DEF Basic!JoinScope, Basic!Busy
<1>3. PICK c \in Cell : c = Top(t)
  BY <1>1, <1>2, TopFacts
<1>4. Progress(c) /\ Len(Cells[c].sub) \in Nat
  BY <1>1, CellFacts
<1>5. state[c] = "splitting" /\ nextSub[c] = Len(Cells[c].sub) + 1
  <2>1. state[c] = "splitting" /\ nextSub[c] > Len(Cells[c].sub)
    BY <1>3 DEF Basic!JoinScope, Basic!InScopeEnd, Basic!Top, Top
  <2> QED BY <1>4, <2>1 DEF Progress
<1>6. \A i \in 1 .. Len(Cells[c].sub) : state[Cells[c].sub[i]] = "done"
  <2>1. \A sub \in Subs(c) : state[sub] = "done"
    BY <1>3, SameNames DEF Basic!JoinScope, Top
  <2>2. DOMAIN Cells[c].sub = 1 .. Len(Cells[c].sub)
    BY CellFacts
  <2> QED BY <2>1, <2>2 DEF Subs
<1>7. Basic!SeparatorStart(c) = StartOf(c, Len(Cells[c].sub))
  <2>1. Cells[c].sub = <<>> <=> Len(Cells[c].sub) = 0
    BY CellFacts
  <2> QED BY <2>1 DEF Basic!SeparatorStart, Basic!End, StartOf, End
<1>8. /\ state' = [state EXCEPT ![c] = "running"]
      /\ current' = [current EXCEPT ![c] = StartOf(c, Len(Cells[c].sub))]
      /\ nextSub' = nextSub /\ loaded' = loaded /\ todo' = todo /\ customized' = customized
  BY <1>3, <1>7 DEF Basic!JoinScope, Basic!Top, Top, Basic!workVars, Basic!weightVars
<1>9. StartOf(c, Len(Cells[c].sub)) \in Cells[c].first .. End(c)
  <2>1. Len(Cells[c].sub) \in 0 .. Len(Cells[c].sub) /\ Cells[c].first \in Nat /\ End(c) \in Nat
    BY <1>4, CellFacts
  <2> QED BY <2>1, StartFacts
<1>10. /\ state'[c] = "running" /\ \A d \in Cell \ {c} : state'[d] = state[d]
       /\ current'[c] = StartOf(c, Len(Cells[c].sub)) /\ \A d \in Cell \ {c} : current'[d] = current[d]
  BY <1>1, <1>8 DEF TreeTypes
<1>11. TreeTypes'
  <2>1. state' \in [Cell -> {"idle", "done"} \cup Active]
    BY <1>1, <1>8 DEF TreeTypes, Active
  <2>2. current' \in [Cell -> Nat]
    <3>1. StartOf(c, Len(Cells[c].sub)) \in Nat
      BY <1>9, CellFacts
    <3> QED BY <1>1, <1>8, <3>1 DEF TreeTypes
  <2> QED BY <1>1, <1>8, <2>1, <2>2 DEF TreeTypes
<1>12. StacksApart'
  BY <1>1, <1>2, <1>10, SameStacks DEF Held
<1>13. \A u \in Threads : Working(u)'
  <2> SUFFICES ASSUME NEW u \in Threads, loaded[u] PROVE Working(u)'
    BY <1>8 DEF Working
  <2>1. state[Top(u)] = "running" /\ Working(u) /\ stack[u] # <<>>
    BY <1>1 DEF Working
  <2>2. Top(u) \in Cell /\ Top(u) # c /\ Top(u)' = Top(u)
    BY <1>1, <1>2, <1>5, <2>1, TopFacts DEF Top
  <2> QED BY <1>2, <1>8, <1>10, <2>1, <2>2 DEF Working
\* the nodes below the separator are those of the subcells
<1>14. Cells[c].first .. StartOf(c, Len(Cells[c].sub)) - 1 \subseteq customized
  <2> SUFFICES ASSUME NEW x \in Cells[c].first .. StartOf(c, Len(Cells[c].sub)) - 1 PROVE x \in customized
    OBVIOUS
  <2>1. Len(Cells[c].sub) \in 0 .. Len(Cells[c].sub)
    BY <1>4
  <2>2. PICK i \in 1 .. Len(Cells[c].sub) : x \in NodesOf(Cells[c].sub[i])
    BY <2>1, SubsCover
  <2>3. Cells[c].sub[i] \in Cell /\ state[Cells[c].sub[i]] = "done"
    BY <1>6, CellFacts
  <2>4. Progress(Cells[c].sub[i])
    BY <1>1, <2>3
  <2> QED BY <2>2, <2>3, <2>4 DEF Progress
<1>15. \A d \in Cell : Progress(d)'
  <2> SUFFICES ASSUME NEW d \in Cell PROVE Progress(d)'
    OBVIOUS
  <2>1. Progress(d)
    BY <1>1
  <2>2. \A i \in 1 .. Len(Cells[d].sub) :
            /\ Cells[d].sub[i] \in Cell
            /\ state[Cells[d].sub[i]] = "idle" => state'[Cells[d].sub[i]] = "idle"
            /\ state[Cells[d].sub[i]] \notin Active => state'[Cells[d].sub[i]] \notin Active
    BY <1>5, <1>10, CellFacts DEF Active
  <2>3. nextSub[d] \in 1 .. Len(Cells[d].sub) + 1 /\ Len(Cells[d].sub) \in Nat
    BY <2>1, CellFacts DEF Progress
  <2>4. CASE d = c
    <3>1. \A i \in 1 .. Len(Cells[d].sub) : state'[Cells[d].sub[i]] \notin Active
      BY <1>6, <2>2, <2>4 DEF Active
    <3>2. \A i \in nextSub[d] .. Len(Cells[d].sub) : FALSE
      BY <1>5, <2>3, <2>4
    <3> QED BY <1>5, <1>8, <1>9, <1>10, <1>14, <2>3, <2>4, <3>1, <3>2 DEF Progress
  <2>5. CASE d # c
    BY <1>8, <1>10, <2>1, <2>2, <2>3, <2>5 DEF Progress
  <2> QED BY <2>4, <2>5
<1>16. \A d \in Cell : Open(d)' = Open(d)
  <2> SUFFICES ASSUME NEW d \in Cell PROVE Open(d)' = Open(d)
    OBVIOUS
  <2>1. CASE d = c
    <3>1. nextSub[c] - 1 = Len(Cells[c].sub)
      BY <1>4, <1>5
    <3> QED BY <1>5, <1>10, <2>1, <3>1 DEF Open, OpenFrom, Active
  <2>2. CASE d # c
    BY <1>8, <1>10, <2>2 DEF Open, OpenFrom
  <2> QED BY <2>1, <2>2
<1>17. OpenApart'
  BY <1>1, <1>8, <1>16 DEF OpenApart
<1> QED BY <1>11, <1>12, <1>13, <1>15, <1>17 DEF TreeInv

LEMMA ReturnTree ==
    ASSUME TreeInv, NEW t \in Threads, Basic!Return(t)
    PROVE  TreeInv'
<1>1. /\ TreeTypes /\ StacksApart /\ OpenApart /\ (\A d \in Cell : Progress(d))
      /\ \A u \in Threads : Working(u)
  BY DEF TreeInv
<1>2. stack[t] # <<>> /\ stack' = [stack EXCEPT ![t] = Tail(@)]
  BY DEF Basic!Return, Basic!Busy
<1>3. PICK c \in Cell : c = Top(t)
  BY <1>1, <1>2, TopFacts
<1>4. /\ state[c] = "running" /\ current[c] = End(c)
      /\ state' = [state EXCEPT ![c] = "done"]
      /\ nextSub' = nextSub /\ current' = current /\ loaded' = loaded /\ todo' = todo /\ customized' = customized
  BY <1>3, SameNames DEF Basic!Return, Top, Basic!workVars, Basic!weightVars
<1>5. state'[c] = "done" /\ \A d \in Cell \ {c} : state'[d] = state[d]
  BY <1>1, <1>4 DEF TreeTypes
<1>6. TreeTypes'
  BY <1>1, <1>4 DEF TreeTypes, Active
<1>7. StacksApart' /\ \A u \in Threads : u # t => stack'[u] = stack[u]
  BY <1>1, <1>2, <1>3, <1>5, PopStacks
<1>8. ~loaded[t]
  <2>1. Working(t) /\ End(c) \in Nat
    BY <1>1, CellFacts
  <2> QED BY <1>3, <1>4, <2>1 DEF Working
<1>9. \A u \in Threads : Working(u)'
  <2> SUFFICES ASSUME NEW u \in Threads, loaded[u] PROVE Working(u)'
    BY <1>4 DEF Working
  <2>1. u # t /\ stack'[u] = stack[u] /\ Working(u) /\ stack[u] # <<>>
    BY <1>1, <1>7, <1>8 DEF Working
  <2>2. Top(u) \in Cell /\ Top(u) # c /\ Top(u)' = Top(u)
    BY <1>1, <1>2, <1>3, <2>1, TopFacts DEF Top
  <2> QED BY <1>4, <1>5, <2>1, <2>2 DEF Working
<1>10. NodesOf(c) \subseteq customized
  BY <1>1, <1>4 DEF Progress, NodesOf
<1>11. \A d \in Cell : Progress(d)'
  <2> SUFFICES ASSUME NEW d \in Cell PROVE Progress(d)'
    OBVIOUS
  <2>1. Progress(d)
    BY <1>1
  <2>2. \A i \in 1 .. Len(Cells[d].sub) :
            /\ Cells[d].sub[i] \in Cell
            /\ state[Cells[d].sub[i]] = "idle" => state'[Cells[d].sub[i]] = "idle"
            /\ state[Cells[d].sub[i]] \notin Active => state'[Cells[d].sub[i]] \notin Active
    BY <1>4, <1>5, CellFacts DEF Active
  <2>3. nextSub[d] \in 1 .. Len(Cells[d].sub) + 1 /\ Len(Cells[d].sub) \in Nat
    BY <2>1, CellFacts DEF Progress
  <2>4. CASE d = c
    BY <1>4, <1>5, <1>10, <2>1, <2>2, <2>3, <2>4 DEF Progress
  <2>5. CASE d # c
    BY <1>4, <1>5, <2>1, <2>2, <2>3, <2>5 DEF Progress
  <2> QED BY <2>4, <2>5
<1>12. \A d \in Cell : Open(d)' \subseteq Open(d)
  BY <1>4, <1>5 DEF Open, OpenFrom, Active
<1>13. OpenApart'
  <2>1. ASSUME NEW d \in Cell, NEW e \in Cell, d # e PROVE Open(d)' \cap Open(e)' = {}
    BY <1>1, <1>12, <2>1 DEF OpenApart
  <2>2. ASSUME NEW d \in Cell PROVE Open(d)' \cap customized' = {}
    BY <1>1, <1>4, <1>12 DEF OpenApart
  <2> QED BY <2>1, <2>2 DEF OpenApart
<1> QED BY <1>6, <1>7, <1>9, <1>11, <1>13 DEF TreeInv

(* The node that a thread with a loaded workspace is at.                   *)
LEMMA AtWork ==
    ASSUME TreeInv, NEW t \in Threads, stack[t] # <<>>, state[Top(t)] = "running", current[Top(t)] < End(Top(t))
    PROVE  /\ Top(t) \in Cell /\ current[Top(t)] \in Nodes /\ current[Top(t)] \in NodesOf(Top(t))
           /\ current[Top(t)] \in Open(Top(t)) /\ current[Top(t)] \notin customized
           /\ Below(current[Top(t)]) \subseteq NodesOf(Top(t)) \cap customized
<1> DEFINE c == Top(t)
           x == current[c]
<1>1. c \in Cell
  BY TopFacts DEF TreeInv
<1>2. Progress(c) /\ OpenApart /\ x \in Nat
  BY <1>1 DEF TreeInv, TreeTypes
<1>3. Cells[c].first \in Nat /\ End(c) \in Nat /\ End(c) <= N
  BY <1>1, CellFacts
<1> HIDE DEF c
<1>4. state[c] = "running" /\ x < End(c)
  BY DEF c
<1>5. Cells[c].first <= x /\ Cells[c].first .. x - 1 \subseteq customized
  BY <1>2, <1>4 DEF Progress
<1>6. x \in NodesOf(c) /\ x \in Open(c) /\ x \in Nodes
  BY <1>2, <1>3, <1>4, <1>5, NAssumption DEF NodesOf, Open, OpenFrom, Active, Nodes
<1>7. x \notin customized
  BY <1>1, <1>2, <1>6 DEF OpenApart
<1>8. Below(x) \subseteq NodesOf(c)
  BY <1>1, <1>6, CellsAssumption
<1>9. ASSUME NEW z \in Below(x) PROVE z \in customized
  <2>1. z < x /\ z \in NodesOf(c)
    BY <1>8, GraphAssumption DEF Below
  <2> QED BY <1>2, <1>3, <1>5, <2>1 DEF NodesOf
<1> QED BY <1>1, <1>6, <1>7, <1>8, <1>9 DEF c

LEMMA LoadTree ==
    ASSUME TreeInv, NEW t \in Threads, Basic!Load(t) \/ Basic!Relax(t)
    PROVE  TreeInv'
<1>1. /\ TreeTypes /\ StacksApart /\ OpenApart /\ (\A d \in Cell : Progress(d))
      /\ \A u \in Threads : Working(u)
  BY DEF TreeInv
<1>2. /\ stack[t] # <<>> /\ state[Top(t)] = "running" /\ current[Top(t)] < End(Top(t))
      /\ state' = state /\ nextSub' = nextSub /\ current' = current /\ stack' = stack /\ customized' = customized
      /\ \/ todo' = [todo EXCEPT ![t] = Below(current[Top(t)])] /\ loaded' = [loaded EXCEPT ![t] = TRUE]
         \/ todo' = [todo EXCEPT ![t] = @ \ {Lowest(todo[t])}] /\ loaded' = loaded
  BY SameNames DEF Basic!Load, Basic!Relax, Basic!Running, Basic!Busy, Basic!Node, Top, Basic!treeVars, Basic!weightVars
<1>3. Below(current[Top(t)]) \subseteq Nodes
  BY DEF Below
<1>4. TreeTypes'
  <2>1. todo' \in [Threads -> SUBSET Nodes]
    BY <1>1, <1>2, <1>3 DEF TreeTypes
  <2>2. loaded' \in [Threads -> BOOLEAN]
    BY <1>1, <1>2 DEF TreeTypes
  <2> QED BY <1>1, <1>2, <2>1, <2>2 DEF TreeTypes
<1>5. StacksApart'
  BY <1>1, <1>2, SameStacks
<1>6. \A u \in Threads : Working(u)'
  <2> SUFFICES ASSUME NEW u \in Threads, loaded'[u] PROVE Working(u)'
    BY DEF Working
  <2>1. Top(u)' = Top(u) /\ Working(u)
    BY <1>1, <1>2 DEF Top
  <2>2. CASE u = t
    <3>1. todo'[t] = Below(current[Top(t)]) \/ (todo'[t] \subseteq todo[t] /\ loaded[t])
      BY <1>1, <1>2, <2>2 DEF TreeTypes
    <3> QED BY <1>2, <2>1, <2>2, <3>1 DEF Working
  <2>3. CASE u # t
    <3>1. todo'[u] = todo[u] /\ loaded'[u] = loaded[u]
      BY <1>1, <1>2, <2>3 DEF TreeTypes
    <3> QED BY <1>2, <2>1, <3>1 DEF Working
  <2> QED BY <2>2, <2>3
<1>7. \A d \in Cell : Progress(d)' /\ Open(d)' = Open(d)
  BY <1>1, <1>2 DEF Progress, Open, OpenFrom
<1>8. OpenApart'
  BY <1>1, <1>2, <1>7 DEF OpenApart
<1> QED BY <1>4, <1>5, <1>6, <1>7, <1>8 DEF TreeInv

LEMMA StoreTree ==
    ASSUME TreeInv, NEW t \in Threads, Basic!Store(t)
    PROVE  TreeInv'
<1>1. /\ TreeTypes /\ StacksApart /\ OpenApart /\ (\A d \in Cell : Progress(d))
      /\ \A u \in Threads : Working(u)
  BY DEF TreeInv
<1>2. stack[t] # <<>> /\ state[Top(t)] = "running" /\ current[Top(t)] < End(Top(t))
  BY SameNames DEF Basic!Store, Basic!Running, Basic!Busy, Top
<1>3. PICK c \in Cell : c = Top(t)
  BY <1>1, <1>2, TopFacts
<1>4. PICK x \in Nodes : x = current[c]
  BY <1>2, <1>3, AtWork
<1>5. /\ customized' = customized \cup {x} /\ current' = [current EXCEPT ![c] = x + 1]
      /\ loaded' = [loaded EXCEPT ![t] = FALSE]
      /\ state' = state /\ nextSub' = nextSub /\ stack' = stack /\ todo' = todo
  BY <1>3, <1>4 DEF Basic!Store, Basic!Node, Basic!Top, Top
<1>6. x \in Nat /\ End(c) \in Nat /\ x < End(c) /\ x \in Open(c) /\ state[c] = "running"
  BY <1>2, <1>3, <1>4, AtWork, CellFacts, NodesAreNat
<1>7. current'[c] = x + 1 /\ \A d \in Cell \ {c} : current'[d] = current[d]
  BY <1>1, <1>5 DEF TreeTypes
<1>8. TreeTypes'
  <2>1. current' \in [Cell -> Nat] /\ loaded' \in [Threads -> BOOLEAN]
    BY <1>1, <1>5, <1>6 DEF TreeTypes
  <2> QED BY <1>1, <1>5, <2>1 DEF TreeTypes
<1>9. StacksApart'
  BY <1>1, <1>5, SameStacks
<1>10. \A u \in Threads : Working(u)'
  <2> SUFFICES ASSUME NEW u \in Threads, loaded'[u] PROVE Working(u)'
    BY DEF Working
  <2>1. u # t /\ loaded[u]
    BY <1>1, <1>5 DEF TreeTypes
  <2>2. Working(u) /\ stack[u] # <<>>
    BY <1>1, <2>1 DEF Working
  <2>3. Top(u) \in Cell /\ Top(u) # c /\ Top(u)' = Top(u)
    BY <1>1, <1>2, <1>3, <1>5, <2>1, <2>2, TopFacts DEF Top
  <2> QED BY <1>5, <1>7, <2>1, <2>2, <2>3 DEF Working
<1>11. \A d \in Cell : Progress(d)'
  <2> SUFFICES ASSUME NEW d \in Cell PROVE Progress(d)'
    OBVIOUS
  <2>1. Progress(d) /\ customized \subseteq customized' /\ x \in customized'
    BY <1>1, <1>5
  <2>2. CASE d = c
    <3>1. /\ x \in Cells[c].first .. End(c) /\ Cells[c].first .. x - 1 \subseteq customized
          /\ Cells[c].first \in Nat
      BY <1>4, <1>6, <2>1, <2>2, CellFacts DEF Progress
    <3>2. x + 1 \in Cells[c].first .. End(c) /\ Cells[c].first .. (x + 1) - 1 \subseteq customized'
      BY <1>6, <2>1, <3>1
    <3> QED BY <1>5, <1>6, <1>7, <2>1, <2>2, <3>2 DEF Progress
  <2>3. CASE d # c
    BY <1>5, <1>7, <2>1, <2>3 DEF Progress
  <2> QED BY <2>2, <2>3
<1>12. Open(c)' = Open(c) \ {x} /\ \A d \in Cell \ {c} : Open(d)' = Open(d)
  BY <1>4, <1>5, <1>6, <1>7 DEF Open, OpenFrom, Active
<1>13. OpenApart'
  <2>1. \A d \in Cell : Open(d)' \subseteq Open(d)
    BY <1>12
  <2>2. ASSUME NEW d \in Cell, NEW e \in Cell, d # e PROVE Open(d)' \cap Open(e)' = {}
    BY <1>1, <2>1, <2>2 DEF OpenApart
  <2>3. ASSUME NEW d \in Cell PROVE Open(d)' \cap customized' = {}
    <3>1. x \notin Open(d)'
      BY <1>1, <1>6, <1>12 DEF OpenApart
    <3> QED BY <1>1, <1>5, <2>1, <3>1 DEF OpenApart
  <2> QED BY <2>2, <2>3 DEF OpenApart
<1> QED BY <1>8, <1>9, <1>10, <1>11, <1>13 DEF TreeInv

LEMMA BasicTreeStep ==
    ASSUME TreeInv, NEW t \in Threads, Basic!Step(t)
    PROVE  TreeInv'
BY TakeTree, SpawnTree, JoinTree, ReturnTree, LoadTree, StoreTree DEF Basic!Step

LEMMA BasicTreeInitially ==
    ASSUME Basic!Init
    PROVE  TreeInv
<1>1. /\ state = [c \in Cell |-> IF c = Root THEN "spawned" ELSE "idle"]
      /\ nextSub = [c \in Cell |-> 1] /\ current = [c \in Cell |-> Cells[c].first]
      /\ stack = [t \in Threads |-> <<>>] /\ loaded = [t \in Threads |-> FALSE]
      /\ todo = [t \in Threads |-> {}] /\ customized = {}
  BY SameNames DEF Basic!Init
<1>2. TreeTypes
  <2>1. \A c \in Cell : Cells[c].first \in Nat
    BY CellFacts
  <2> QED BY <1>1, <2>1 DEF TreeTypes, Active
<1>3. StacksApart /\ \A t \in Threads : Working(t)
  BY <1>1 DEF StacksApart, Working
<1>4. OpenApart
  BY <1>1 DEF OpenApart, Open, Active
<1>5. ASSUME NEW c \in Cell PROVE Progress(c)
  <2>1. /\ Len(Cells[c].sub) \in Nat
        /\ \A i \in 1 .. Len(Cells[c].sub) : Cells[c].sub[i] \in Cell /\ Cells[c].sub[i] # Root
    BY CellFacts
  <2>2. \A i \in 1 .. Len(Cells[c].sub) : state[Cells[c].sub[i]] = "idle"
    BY <1>1, <2>1
  <2>3. state[c] \in {"spawned", "idle"} /\ nextSub[c] = 1 /\ current[c] = Cells[c].first
    BY <1>1
  <2> QED BY <2>1, <2>2, <2>3 DEF Progress, Active
<1> QED BY <1>2, <1>3, <1>4, <1>5 DEF TreeInv

-----------------------------------------------------------------------------
(* The perfect customization                                               *)

LEMMA SamePerfectNames ==
    /\ Perfect!Nodes = Nodes /\ Perfect!Edges = Edges /\ Perfect!None = None /\ Perfect!Cell = Cell
    /\ \A c : Perfect!End(c) = End(c)
    /\ \A c : Perfect!Subs(c) = Subs(c)
    /\ \A t : Perfect!Top(t) = Top(t)
<1>1. Perfect!Nodes = Nodes /\ Perfect!None = None /\ Perfect!Cell = Cell
  BY DEF Perfect!Nodes, Nodes, Perfect!None, None, Perfect!Cell, Cell
<1>2. Perfect!Edges = Edges
  BY <1>1 DEF Perfect!Edges, Edges
<1>3. \A c : Perfect!End(c) = End(c) /\ Perfect!Subs(c) = Subs(c)
  BY DEF Perfect!End, End, Perfect!Subs, Subs
<1>4. \A t : Perfect!Top(t) = Top(t)
  BY DEF Perfect!Top, Top
<1> QED BY <1>1, <1>2, <1>3, <1>4

(* The nodes that the call for a cell, or calls it will spawn, have yet to *)
(* process.                                                                *)
Rest(c) == IF state[c] \in {"spawned", "running"} THEN Cells[c].first .. current[c] - 1 ELSE {}

RestApart == \A c, d \in Cell : c # d => Rest(c) \cap Rest(d) = {}

Retreat(c) ==
    /\ state[c] \in {"idle", "spawned"} => current[c] = End(c)
    /\ state[c] = "running" => current[c] \in Perfect!LastNode(c) .. End(c)
    /\ state[c] \in {"idle", "spawned", "running"} =>
           \A i \in 1 .. Len(Cells[c].sub) : state[Cells[c].sub[i]] = "idle"

WorkingAbove(t) ==
    loaded[t] => stack[t] # <<>> /\ state[Top(t)] = "running" /\ current[Top(t)] > Perfect!LastNode(Top(t))

PerfectTypes ==
    /\ state \in [Cell -> {"idle", "spawned", "running", "waiting", "done"}]
    /\ current \in [Cell -> Nat] /\ loaded \in [Threads -> BOOLEAN]

PerfectInv ==
    /\ PerfectTypes /\ StacksApart /\ RestApart
    /\ \A c \in Cell : Retreat(c)
    /\ \A t \in Threads : WorkingAbove(t)

LEMMA LastNodeFacts ==
    ASSUME NEW c \in Cell
    PROVE  /\ Perfect!LastNode(c) \in Cells[c].first .. End(c) /\ Perfect!LastNode(c) \in Nat
           /\ ~Perfect!IsSmall(c) => Perfect!LastNode(c) = StartOf(c, Len(Cells[c].sub))
<1>1. /\ Cells[c].first \in Nat /\ End(c) \in Nat /\ Cells[c].first <= End(c) /\ Len(Cells[c].sub) \in Nat
      /\ (Cells[c].sub = <<>> <=> Len(Cells[c].sub) = 0)
  BY CellFacts
<1>2. StartOf(c, Len(Cells[c].sub)) \in Cells[c].first .. End(c)
  <2>1. Len(Cells[c].sub) \in 0 .. Len(Cells[c].sub)
    BY <1>1
  <2> QED BY <1>1, <2>1, StartFacts
<1>3. \/ Perfect!LastNode(c) = Cells[c].first /\ (Perfect!IsSmall(c) \/ Len(Cells[c].sub) = 0)
      \/ Perfect!LastNode(c) = StartOf(c, Len(Cells[c].sub))
  BY <1>1 DEF Perfect!LastNode, Perfect!End, StartOf, End
<1> QED BY <1>1, <1>2, <1>3 DEF StartOf

LEMMA TakePerfect ==
    ASSUME PerfectInv, NEW t \in Threads, Perfect!Take(t)
    PROVE  PerfectInv'
<1>1. /\ PerfectTypes /\ StacksApart /\ RestApart /\ (\A c \in Cell : Retreat(c))
      /\ \A u \in Threads : WorkingAbove(u)
  BY DEF PerfectInv
<1>2. PICK c \in Cell :
        /\ state[c] = "spawned" /\ state' = [state EXCEPT ![c] = "running"]
        /\ stack' = [stack EXCEPT ![t] = <<c>> \o @]
  BY SamePerfectNames DEF Perfect!Take
<1>3. current' = current /\ loaded' = loaded
  BY DEF Perfect!Take
<1>4. stack[t] # <<>> => state[Top(t)] = "waiting"
  BY SamePerfectNames DEF Perfect!Take, Perfect!Busy
<1>5. state'[c] = "running" /\ \A d \in Cell \ {c} : state'[d] = state[d]
  BY <1>1, <1>2 DEF PerfectTypes
<1>6. PerfectTypes'
  BY <1>1, <1>2, <1>3 DEF PerfectTypes
<1>7. /\ StacksApart' /\ \A u \in Threads : u # t => stack'[u] = stack[u]
  BY <1>1, <1>2, <1>5, PushStacks DEF Held
<1>8. ~loaded[t]
  BY <1>1, <1>4 DEF WorkingAbove
<1>9. \A u \in Threads : WorkingAbove(u)'
  <2> SUFFICES ASSUME NEW u \in Threads, loaded[u] PROVE WorkingAbove(u)'
    BY <1>3 DEF WorkingAbove
  <2>1. u # t /\ stack'[u] = stack[u] /\ state[Top(u)] = "running" /\ WorkingAbove(u) /\ stack[u] # <<>>
    BY <1>1, <1>7, <1>8 DEF WorkingAbove
  <2>2. Top(u) \in Cell /\ Top(u) # c /\ Top(u)' = Top(u)
    BY <1>1, <1>2, <2>1, TopFacts DEF Top
  <2> QED BY <1>3, <1>5, <2>1, <2>2 DEF WorkingAbove
<1>10. \A d \in Cell : Retreat(d)'
  <2> SUFFICES ASSUME NEW d \in Cell PROVE Retreat(d)'
    OBVIOUS
  <2>1. Retreat(d) /\ Perfect!LastNode(d) \in Cells[d].first .. End(d) /\ End(d) \in Nat /\ Cells[d].first \in Nat
    BY <1>1, CellFacts, LastNodeFacts
  <2>2. \A i \in 1 .. Len(Cells[d].sub) :
            state[Cells[d].sub[i]] = "idle" => state'[Cells[d].sub[i]] = "idle"
    BY <1>2, <1>5, CellFacts
  <2>3. CASE d = c
    <3>1. current'[d] \in Perfect!LastNode(d) .. End(d)
      BY <1>2, <1>3, <2>1, <2>3 DEF Retreat
    <3> QED BY <1>2, <1>5, <2>1, <2>2, <2>3, <3>1 DEF Retreat
  <2>4. CASE d # c
    BY <1>3, <1>5, <2>1, <2>2, <2>4 DEF Retreat
  <2> QED BY <2>3, <2>4
<1>11. \A d \in Cell : Rest(d)' = Rest(d)
  BY <1>2, <1>3, <1>5 DEF Rest
<1>12. RestApart'
  BY <1>1, <1>11 DEF RestApart
<1> QED BY <1>6, <1>7, <1>9, <1>10, <1>12 DEF PerfectInv

LEMMA SpawnPerfect ==
    ASSUME PerfectInv, NEW t \in Threads, Perfect!SpawnSubs(t)
    PROVE  PerfectInv'
<1>1. /\ PerfectTypes /\ StacksApart /\ RestApart /\ (\A d \in Cell : Retreat(d))
      /\ \A u \in Threads : WorkingAbove(u)
  BY DEF PerfectInv
<1>2. stack[t] # <<>> /\ stack' = stack
  BY DEF Perfect!SpawnSubs, Perfect!Busy
<1>3. PICK c \in Cell : c = Top(t)
  BY <1>1, <1>2, TopFacts
<1>4. /\ state[c] = "running" /\ current[c] = Perfect!LastNode(c) /\ ~Perfect!IsSmall(c)
      /\ state' = [d \in Cell |-> IF d = c THEN "waiting" ELSE IF d \in Subs(c) THEN "spawned" ELSE state[d]]
      /\ current' = current /\ loaded' = loaded
  BY <1>3, SamePerfectNames DEF Perfect!SpawnSubs
<1>5. Subs(c) = {Cells[c].sub[i] : i \in 1 .. Len(Cells[c].sub)} /\ Len(Cells[c].sub) \in Nat
  <2>1. DOMAIN Cells[c].sub = 1 .. Len(Cells[c].sub) /\ Len(Cells[c].sub) \in Nat
    BY CellFacts
  <2> QED BY <2>1 DEF Subs
<1>6. \A d \in Subs(c) : d \in Cell /\ d # c /\ state[d] = "idle" /\ current[d] = End(d)
  <2>1. \A i \in 1 .. Len(Cells[c].sub) : Cells[c].sub[i] \in Cell /\ state[Cells[c].sub[i]] = "idle"
    BY <1>1, <1>4, CellFacts DEF Retreat
  <2> QED BY <1>1, <1>4, <1>5, <2>1 DEF Retreat
<1>7. /\ state'[c] = "waiting" /\ (\A d \in Subs(c) : state'[d] = "spawned")
      /\ \A d \in Cell : d # c /\ d \notin Subs(c) => state'[d] = state[d]
  BY <1>4, <1>6
<1>8. PerfectTypes'
  BY <1>1, <1>4 DEF PerfectTypes
<1>9. StacksApart'
  <2>1. \A d \in Cell : state[d] \in Held => state'[d] \in Held
    BY <1>6, <1>7 DEF Held
  <2> QED BY <1>1, <1>2, <2>1, SameStacks
<1>10. ~loaded[t]
  <2>1. WorkingAbove(t) /\ Perfect!LastNode(c) \in Nat
    BY <1>1, LastNodeFacts
  <2> QED BY <1>3, <1>4, <2>1 DEF WorkingAbove
<1>11. \A u \in Threads : WorkingAbove(u)'
  <2> SUFFICES ASSUME NEW u \in Threads, loaded[u] PROVE WorkingAbove(u)'
    BY <1>4 DEF WorkingAbove
  <2>1. u # t /\ state[Top(u)] = "running" /\ WorkingAbove(u) /\ stack[u] # <<>>
    BY <1>1, <1>10 DEF WorkingAbove
  <2>2. Top(u) \in Cell /\ Top(u) # c /\ Top(u) \notin Subs(c) /\ Top(u)' = Top(u)
    BY <1>1, <1>2, <1>3, <1>6, <2>1, TopFacts DEF Top
  <2> QED BY <1>2, <1>4, <1>7, <2>1, <2>2 DEF WorkingAbove
<1>12. \A d \in Cell : d # c => \A i \in 1 .. Len(Cells[d].sub) : Cells[d].sub[i] \in Cell /\ Cells[d].sub[i] \notin Subs(c)
  <2> SUFFICES ASSUME NEW d \in Cell, d # c, NEW i \in 1 .. Len(Cells[d].sub),
                      NEW j \in 1 .. Len(Cells[c].sub), Cells[d].sub[i] = Cells[c].sub[j]
               PROVE  FALSE
    BY <1>5, CellFacts
  <2>1. i \in DOMAIN Cells[d].sub /\ j \in DOMAIN Cells[c].sub
    BY CellFacts
  <2> QED BY <2>1, CellsAssumption
<1>13. \A d \in Cell : Retreat(d)'
  <2> SUFFICES ASSUME NEW d \in Cell PROVE Retreat(d)'
    OBVIOUS
  <2>1. Retreat(d)
    BY <1>1
  <2>2. CASE d = c
    BY <1>7, <2>2 DEF Retreat
  <2>3. CASE d # c
    <3>1. \A i \in 1 .. Len(Cells[d].sub) :
              state[Cells[d].sub[i]] = "idle" => state'[Cells[d].sub[i]] = "idle"
      BY <1>4, <1>7, <1>12, <2>3
    <3>2. CASE d \in Subs(c)
      BY <1>4, <1>6, <1>7, <2>1, <3>1, <3>2 DEF Retreat
    <3>3. CASE d \notin Subs(c)
      BY <1>4, <1>7, <2>1, <2>3, <3>1, <3>3 DEF Retreat
    <3> QED BY <3>2, <3>3
  <2> QED BY <2>2, <2>3
\* the rest of the cell is divided among the subcells
<1>14. ASSUME NEW i \in 1 .. Len(Cells[c].sub) PROVE Rest(Cells[c].sub[i])' \subseteq Rest(c)
  <2> DEFINE d == Cells[c].sub[i]
  <2>1. d \in Subs(c) /\ Cells[c].sub[i] \in Cell
    BY <1>5, <1>6
  <2>2. Rest(d)' = Cells[d].first .. End(d) - 1
    BY <1>4, <1>6, <1>7, <2>1 DEF Rest
  <2>3. Rest(c) = Cells[c].first .. StartOf(c, Len(Cells[c].sub)) - 1
    BY <1>4, LastNodeFacts DEF Rest
  <2>4. Cells[c].first <= Cells[d].first /\ Cells[c].first \in Nat /\ Cells[d].first \in Nat
    BY <2>1, SubsInside, CellFacts
  <2>5. End(d) <= StartOf(c, Len(Cells[c].sub)) /\ End(d) \in Nat /\ StartOf(c, Len(Cells[c].sub)) \in Nat
    <3> DEFINE n == Len(Cells[c].sub)
               last == Cells[c].sub[n]
    <3>1. n \in 1 .. n /\ last \in Cell /\ End(d) \in Nat /\ StartOf(c, n) = End(last)
      <4>1. n \in 1 .. n
        BY <1>5
      <4> QED BY <2>1, <4>1, CellFacts, SubStarts
    <3>2. CASE i = n
      BY <3>1, <3>2
    <3>3. CASE i # n
      <4>1. End(d) <= Cells[last].first
        BY <1>5, <3>1, <3>3, SubsApart
      <4>2. Cells[last].first <= End(last) /\ Cells[last].first \in Nat /\ End(last) \in Nat
        BY <3>1, CellFacts
      <4> QED BY <3>1, <4>1, <4>2
    <3> QED BY <3>1, <3>2, <3>3
  <2> QED BY <2>2, <2>3, <2>4, <2>5
<1>15. ASSUME NEW i \in 1 .. Len(Cells[c].sub), NEW j \in 1 .. Len(Cells[c].sub), i < j
       PROVE  Rest(Cells[c].sub[i])' \cap Rest(Cells[c].sub[j])' = {}
  <2>1. Cells[c].sub[i] \in Subs(c) /\ Cells[c].sub[j] \in Subs(c)
    BY <1>5
  <2>2. /\ Rest(Cells[c].sub[i])' = Cells[Cells[c].sub[i]].first .. End(Cells[c].sub[i]) - 1
        /\ Rest(Cells[c].sub[j])' = Cells[Cells[c].sub[j]].first .. End(Cells[c].sub[j]) - 1
    BY <1>4, <1>6, <1>7, <2>1 DEF Rest
  <2>3. End(Cells[c].sub[i]) <= Cells[Cells[c].sub[j]].first /\ End(Cells[c].sub[i]) \in Nat
        /\ Cells[Cells[c].sub[j]].first \in Nat
    BY <1>6, <1>15, <2>1, SubsApart, CellFacts
  <2> QED BY <2>2, <2>3
<1>16. Rest(c)' = {} /\ \A d \in Cell : d # c /\ d \notin Subs(c) => Rest(d)' = Rest(d)
  BY <1>4, <1>7 DEF Rest
<1>17. RestApart'
  <2>1. \A d \in Subs(c) : Rest(d)' \subseteq Rest(c)
    BY <1>5, <1>14
  <2>2. ASSUME NEW d \in Subs(c), NEW e \in Subs(c), d # e PROVE Rest(d)' \cap Rest(e)' = {}
    <3>1. PICK i \in 1 .. Len(Cells[c].sub), j \in 1 .. Len(Cells[c].sub) : d = Cells[c].sub[i] /\ e = Cells[c].sub[j]
      BY <1>5
    <3>2. i < j \/ j < i
      BY <1>5, <2>2, <3>1
    <3> QED BY <1>15, <3>1, <3>2
  <2>3. \A d \in Cell \ {c} : Rest(c) \cap Rest(d) = {} /\ Rest(d) \cap Rest(c) = {}
    BY <1>1 DEF RestApart
  <2>4. ASSUME NEW d \in Cell, NEW e \in Cell, d # e PROVE Rest(d)' \cap Rest(e)' = {}
    <3>1. CASE d = c \/ e = c
      BY <1>16, <3>1
    <3>2. CASE d \in Subs(c) /\ e \in Subs(c)
      BY <2>2, <2>4, <3>2
    <3>3. CASE d \in Subs(c) /\ e \notin Subs(c) /\ e # c
      BY <1>16, <2>1, <2>3, <3>3
    <3>4. CASE d \notin Subs(c) /\ d # c /\ e \in Subs(c)
      BY <1>16, <2>1, <2>3, <3>4
    <3>5. CASE d \notin Subs(c) /\ d # c /\ e \notin Subs(c) /\ e # c
      BY <1>1, <1>16, <2>4, <3>5 DEF RestApart
    <3> QED BY <3>1, <3>2, <3>3, <3>4, <3>5
  <2> QED BY <2>4 DEF RestApart
<1> QED BY <1>8, <1>9, <1>11, <1>13, <1>17 DEF PerfectInv

LEMMA ReturnPerfect ==
    ASSUME PerfectInv, NEW t \in Threads, Perfect!Return(t)
    PROVE  PerfectInv'
<1>1. /\ PerfectTypes /\ StacksApart /\ RestApart /\ (\A d \in Cell : Retreat(d))
      /\ \A u \in Threads : WorkingAbove(u)
  BY DEF PerfectInv
<1>2. stack[t] # <<>> /\ stack' = [stack EXCEPT ![t] = Tail(@)]
  BY DEF Perfect!Return, Perfect!Busy
<1>3. PICK c \in Cell : c = Top(t)
  BY <1>1, <1>2, TopFacts
<1>4. /\ current[c] = Perfect!LastNode(c) \/ state[c] = "waiting"
      /\ state' = [state EXCEPT ![c] = "done"]
      /\ current' = current /\ loaded' = loaded
  BY <1>3, SamePerfectNames DEF Perfect!Return
<1>5. state'[c] = "done" /\ \A d \in Cell \ {c} : state'[d] = state[d]
  BY <1>1, <1>4 DEF PerfectTypes
<1>6. PerfectTypes'
  BY <1>1, <1>4 DEF PerfectTypes
<1>7. StacksApart' /\ \A u \in Threads : u # t => stack'[u] = stack[u]
  BY <1>1, <1>2, <1>3, <1>5, PopStacks
<1>8. ~loaded[t]
  <2>1. WorkingAbove(t) /\ Perfect!LastNode(c) \in Nat
    BY <1>1, LastNodeFacts
  <2> QED BY <1>3, <1>4, <2>1 DEF WorkingAbove
<1>9. \A u \in Threads : WorkingAbove(u)'
  <2> SUFFICES ASSUME NEW u \in Threads, loaded[u] PROVE WorkingAbove(u)'
    BY <1>4 DEF WorkingAbove
  <2>1. u # t /\ stack'[u] = stack[u] /\ WorkingAbove(u) /\ stack[u] # <<>>
    BY <1>1, <1>7, <1>8 DEF WorkingAbove
  <2>2. Top(u) \in Cell /\ Top(u) # c /\ Top(u)' = Top(u)
    BY <1>1, <1>2, <1>3, <2>1, TopFacts DEF Top
  <2> QED BY <1>4, <1>5, <2>1, <2>2 DEF WorkingAbove
<1>10. \A d \in Cell : Retreat(d)'
  <2> SUFFICES ASSUME NEW d \in Cell PROVE Retreat(d)'
    OBVIOUS
  <2>1. Retreat(d)
    BY <1>1
  <2>2. \A i \in 1 .. Len(Cells[d].sub) :
            state[Cells[d].sub[i]] = "idle" => state'[Cells[d].sub[i]] = "idle"
    <3>1. state[c] \in Held
      BY <1>1, <1>2, <1>3, TopFacts
    <3> QED BY <1>5, <3>1, CellFacts DEF Held
  <2>3. CASE d = c
    BY <1>5, <2>3 DEF Retreat
  <2>4. CASE d # c
    BY <1>4, <1>5, <2>1, <2>2, <2>4 DEF Retreat
  <2> QED BY <2>3, <2>4
<1>11. \A d \in Cell : Rest(d)' \subseteq Rest(d)
  BY <1>4, <1>5 DEF Rest
<1>12. RestApart'
  <2> SUFFICES ASSUME NEW d \in Cell, NEW e \in Cell, d # e PROVE Rest(d)' \cap Rest(e)' = {}
    BY DEF RestApart
  <2> QED BY <1>1, <1>11 DEF RestApart
<1> QED BY <1>6, <1>7, <1>9, <1>10, <1>12 DEF PerfectInv

(* The node that a thread of the perfect customization is at.              *)
LEMMA AtWorkAbove ==
    ASSUME PerfectInv, NEW t \in Threads, stack[t] # <<>>, state[Top(t)] = "running",
           current[Top(t)] > Perfect!LastNode(Top(t))
    PROVE  /\ Top(t) \in Cell /\ current[Top(t)] - 1 \in Nodes /\ current[Top(t)] - 1 \in Rest(Top(t))
           /\ current[Top(t)] - 1 \in NodesOf(Top(t))
           /\ current[Top(t)] - 1 >= Perfect!LastNode(Top(t)) /\ current[Top(t)] \in Nat
<1> DEFINE c == Top(t)
<1>1. c \in Cell
  BY TopFacts DEF PerfectInv
<1>2. Retreat(c) /\ current[c] \in Nat
  BY <1>1 DEF PerfectInv, PerfectTypes
<1>3. /\ Cells[c].first \in Nat /\ End(c) \in Nat /\ End(c) <= N
      /\ Perfect!LastNode(c) \in Cells[c].first .. End(c)
  BY <1>1, CellFacts, LastNodeFacts
<1> HIDE DEF c
<1>4. state[c] = "running" /\ current[c] > Perfect!LastNode(c)
  BY DEF c
<1>5. current[c] \in Perfect!LastNode(c) .. End(c)
  BY <1>2, <1>4 DEF Retreat
<1>6. current[c] - 1 >= Perfect!LastNode(c) /\ current[c] - 1 \in Cells[c].first .. End(c) - 1
      /\ current[c] - 1 \in Cells[c].first .. current[c] - 1
  BY <1>2, <1>3, <1>4, <1>5
<1>7. current[c] - 1 \in Nodes
  BY <1>2, <1>3, <1>6, NAssumption DEF Nodes
<1>8. current[c] - 1 \in Rest(c) /\ current[c] - 1 \in NodesOf(c)
  BY <1>4, <1>6 DEF Rest, NodesOf
<1> QED BY <1>1, <1>2, <1>6, <1>7, <1>8 DEF c

LEMMA LoadPerfect ==
    ASSUME PerfectInv, NEW t \in Threads, Perfect!Load(t) \/ Perfect!RelaxTriangle(t)
    PROVE  PerfectInv'
<1>1. /\ PerfectTypes /\ StacksApart /\ RestApart /\ (\A d \in Cell : Retreat(d))
      /\ \A u \in Threads : WorkingAbove(u)
  BY DEF PerfectInv
<1>2. /\ stack[t] # <<>> /\ state[Top(t)] = "running" /\ current[Top(t)] > Perfect!LastNode(Top(t))
      /\ state' = state /\ current' = current /\ stack' = stack
      /\ loaded' = [loaded EXCEPT ![t] = TRUE] \/ loaded' = loaded
  BY SamePerfectNames DEF Perfect!Load, Perfect!RelaxTriangle, Perfect!Running, Perfect!Busy, Perfect!treeVars
<1>3. PerfectTypes'
  BY <1>1, <1>2 DEF PerfectTypes
<1>4. StacksApart'
  BY <1>1, <1>2, SameStacks
<1>5. \A u \in Threads : WorkingAbove(u)'
  <2> SUFFICES ASSUME NEW u \in Threads, loaded'[u] PROVE WorkingAbove(u)'
    BY DEF WorkingAbove
  <2>1. Top(u)' = Top(u) /\ WorkingAbove(u)
    BY <1>1, <1>2 DEF Top
  <2>2. u = t \/ loaded[u]
    BY <1>1, <1>2 DEF PerfectTypes
  <2> QED BY <1>2, <2>1, <2>2 DEF WorkingAbove
<1>6. \A d \in Cell : Retreat(d)' /\ Rest(d)' = Rest(d)
  BY <1>1, <1>2 DEF Retreat, Rest
<1>7. RestApart'
  BY <1>1, <1>6 DEF RestApart
<1> QED BY <1>3, <1>4, <1>5, <1>6, <1>7 DEF PerfectInv

LEMMA UnloadPerfect ==
    ASSUME PerfectInv, NEW t \in Threads, Perfect!Unload(t)
    PROVE  PerfectInv'
<1>1. /\ PerfectTypes /\ StacksApart /\ RestApart /\ (\A d \in Cell : Retreat(d))
      /\ \A u \in Threads : WorkingAbove(u)
  BY DEF PerfectInv
<1>2. stack[t] # <<>> /\ state[Top(t)] = "running" /\ current[Top(t)] > Perfect!LastNode(Top(t))
  BY SamePerfectNames DEF Perfect!Unload, Perfect!Running, Perfect!Busy
<1>3. PICK c \in Cell : c = Top(t)
  BY <1>1, <1>2, TopFacts
<1>4. PICK x \in Nodes : x = current[c] - 1
  BY <1>2, <1>3, AtWorkAbove
<1>5. /\ current' = [current EXCEPT ![c] = x] /\ loaded' = [loaded EXCEPT ![t] = FALSE]
      /\ state' = state /\ stack' = stack
  BY <1>3, <1>4, SamePerfectNames DEF Perfect!Unload, Perfect!Node
<1>6. x \in Nat /\ current[c] \in Nat /\ x >= Perfect!LastNode(c) /\ x < current[c]
  BY <1>2, <1>3, <1>4, AtWorkAbove, NodesAreNat
<1>7. current'[c] = x /\ \A d \in Cell \ {c} : current'[d] = current[d]
  BY <1>1, <1>5 DEF PerfectTypes
<1>8. PerfectTypes'
  <2>1. current' \in [Cell -> Nat] /\ loaded' \in [Threads -> BOOLEAN]
    BY <1>1, <1>5, <1>6 DEF PerfectTypes
  <2> QED BY <1>1, <1>5, <2>1 DEF PerfectTypes
<1>9. StacksApart'
  BY <1>1, <1>5, SameStacks
<1>10. \A u \in Threads : WorkingAbove(u)'
  <2> SUFFICES ASSUME NEW u \in Threads, loaded'[u] PROVE WorkingAbove(u)'
    BY DEF WorkingAbove
  <2>1. u # t /\ loaded[u]
    BY <1>1, <1>5 DEF PerfectTypes
  <2>2. WorkingAbove(u) /\ stack[u] # <<>>
    BY <1>1, <2>1 DEF WorkingAbove
  <2>3. Top(u) \in Cell /\ Top(u) # c /\ Top(u)' = Top(u)
    BY <1>1, <1>2, <1>3, <1>5, <2>1, <2>2, TopFacts DEF Top
  <2> QED BY <1>5, <1>7, <2>1, <2>2, <2>3 DEF WorkingAbove
<1>11. \A d \in Cell : Retreat(d)'
  <2> SUFFICES ASSUME NEW d \in Cell PROVE Retreat(d)'
    OBVIOUS
  <2>1. Retreat(d)
    BY <1>1
  <2>2. CASE d = c
    <3>1. state[c] = "running" /\ current[c] \in Perfect!LastNode(c) .. End(c) /\ Perfect!LastNode(c) \in Nat /\ End(c) \in Nat
      BY <1>2, <1>3, <2>1, <2>2, LastNodeFacts, CellFacts DEF Retreat
    <3>2. x \in Perfect!LastNode(c) .. End(c)
      BY <1>6, <3>1
    <3> QED BY <1>5, <1>7, <2>1, <2>2, <3>1, <3>2 DEF Retreat
  <2>3. CASE d # c
    BY <1>5, <1>7, <2>1, <2>3 DEF Retreat
  <2> QED BY <2>2, <2>3
<1>12. \A d \in Cell : Rest(d)' \subseteq Rest(d)
  <2> SUFFICES ASSUME NEW d \in Cell PROVE Rest(d)' \subseteq Rest(d)
    OBVIOUS
  <2>1. CASE d = c
    <3>1. Cells[c].first \in Nat
      BY CellFacts
    <3> QED BY <1>5, <1>6, <1>7, <2>1, <3>1 DEF Rest
  <2>2. CASE d # c
    BY <1>5, <1>7, <2>2 DEF Rest
  <2> QED BY <2>1, <2>2
<1>13. RestApart'
  <2> SUFFICES ASSUME NEW d \in Cell, NEW e \in Cell, d # e PROVE Rest(d)' \cap Rest(e)' = {}
    BY DEF RestApart
  <2> QED BY <1>1, <1>12 DEF RestApart
<1> QED BY <1>8, <1>9, <1>10, <1>11, <1>13 DEF PerfectInv

LEMMA PerfectTreeStep ==
    ASSUME PerfectInv, NEW t \in Threads, Perfect!Step(t)
    PROVE  PerfectInv'
BY TakePerfect, SpawnPerfect, ReturnPerfect, LoadPerfect, UnloadPerfect DEF Perfect!Step

(* When the root is done no call is left, and no thread is at work.        *)
LEMMA DoneMeansIdle ==
    ASSUME TreeInv, state[Root] = "done"
    PROVE  \A t \in Threads : stack[t] = <<>> /\ ~loaded[t]
<1> DEFINE S == {c \in Cell : state[c] \notin Active}
<1>1. /\ TreeTypes /\ StacksApart /\ (\A c \in Cell : Progress(c))
      /\ \A t \in Threads : Working(t)
  BY DEF TreeInv
<1>2. S \in SUBSET Cell /\ Root \in S
  BY CellsAssumption DEF Active
<1>3. ASSUME NEW c \in S PROVE Subs(c) \subseteq S
  <2>1. c \in Cell /\ state[c] # "splitting" /\ Progress(c)
    BY <1>1 DEF Active
  <2>2. \A i \in 1 .. Len(Cells[c].sub) : Cells[c].sub[i] \in Cell /\ state[Cells[c].sub[i]] \notin Active
    BY <2>1, CellFacts DEF Progress
  <2>3. DOMAIN Cells[c].sub = 1 .. Len(Cells[c].sub)
    BY <2>1, CellFacts
  <2> QED BY <2>2, <2>3 DEF Subs
<1>4. S = Cell
  <2> HIDE DEF S
  <2> QED BY <1>2, <1>3, CellsAssumption
<1>5. ASSUME NEW t \in Threads PROVE stack[t] = <<>>
  <2> SUFFICES ASSUME stack[t] # <<>> PROVE FALSE
    OBVIOUS
  <2>1. Top(t) \in Cell /\ state[Top(t)] \in Held
    BY <1>1, TopFacts
  <2>2. state[Top(t)] \in {"idle", "done"} \cup Active
    BY <1>1, <2>1 DEF TreeTypes
  <2> QED BY <1>4, <2>1, <2>2 DEF Held, Active
<1> QED BY <1>1, <1>5 DEF Working

LEMMA StartPerfectTree ==
    ASSUME TreeInv, StartPerfect
    PROVE  PerfectInv'
<1>1. \A t \in Threads : stack[t] = <<>> /\ ~loaded[t]
  BY DoneMeansIdle DEF StartPerfect
<1>2. /\ state' = [c \in Cell |-> IF c = Root THEN "spawned" ELSE "idle"]
      /\ current' = [c \in Cell |-> End(c)]
      /\ stack' = stack /\ loaded' = loaded
  BY DEF StartPerfect
<1>3. stack \in [Threads -> Seq(Cell)] /\ loaded \in [Threads -> BOOLEAN]
  BY DEF TreeInv, TreeTypes, StacksApart
<1>4. PerfectTypes'
  <2>1. \A c \in Cell : End(c) \in Nat
    BY CellFacts
  <2> QED BY <1>2, <1>3, <2>1 DEF PerfectTypes
<1>5. StacksApart' /\ \A t \in Threads : WorkingAbove(t)'
  BY <1>1, <1>2, <1>3 DEF StacksApart, WorkingAbove
<1>6. RestApart'
  BY <1>2 DEF RestApart, Rest
<1>7. ASSUME NEW c \in Cell PROVE Retreat(c)'
  <2>1. \A i \in 1 .. Len(Cells[c].sub) : Cells[c].sub[i] \in Cell /\ Cells[c].sub[i] # Root
    BY CellFacts
  <2> QED BY <1>2, <2>1 DEF Retreat
<1> QED BY <1>4, <1>5, <1>6, <1>7 DEF PerfectInv

-----------------------------------------------------------------------------
(* One customization after the other                                       *)

FullTreeInv == (phase = "basic" => TreeInv) /\ (phase = "perfect" => PerfectInv)

LEMMA FullTreeStep ==
    ASSUME FullTreeInv, [NextFull]_allVars
    PROVE  FullTreeInv'
<1>1. ASSUME NEW t \in Threads, ThreadStep(t) PROVE FullTreeInv'
  <2>1. CASE phase = "basic" /\ Basic!Step(t)
    BY <1>1, <2>1, BasicTreeStep DEF FullTreeInv, ThreadStep
  <2>2. CASE phase = "perfect" /\ Perfect!Step(t)
    BY <1>1, <2>2, PerfectTreeStep DEF FullTreeInv, ThreadStep
  <2> QED BY <1>1, <2>1, <2>2 DEF ThreadStep
<1>2. CASE StartPerfect
  <2>1. phase = "basic" /\ phase' = "perfect"
    BY <1>2 DEF StartPerfect
  <2> QED BY <1>2, <2>1, StartPerfectTree DEF FullTreeInv
<1>3. CASE StartRebuild
  BY <1>3 DEF StartRebuild, FullTreeInv
<1>4. CASE RebuildStep
  BY <1>4 DEF RebuildStep, FullTreeInv
<1>5. CASE UNCHANGED allVars
  <2>1. /\ phase' = phase /\ state' = state /\ nextSub' = nextSub /\ current' = current /\ stack' = stack
        /\ loaded' = loaded /\ todo' = todo /\ customized' = customized
    BY <1>5 DEF allVars, basicOnly, threadVars
  <2>2. TreeInv => TreeInv'
    BY <2>1 DEF TreeInv, TreeTypes, StacksApart, OpenApart, Open, OpenFrom, Progress, Working, Top
  <2>3. PerfectInv => PerfectInv'
    BY <2>1 DEF PerfectInv, PerfectTypes, StacksApart, RestApart, Rest, Retreat, WorkingAbove, Top
  <2> QED BY <2>1, <2>2, <2>3 DEF FullTreeInv
<1> QED BY <1>1, <1>2, <1>3, <1>4, <1>5 DEF NextFull, Caller

THEOREM FullTreeInductive == SpecFull => []FullTreeInv
<1>1. InitFull => FullTreeInv
  BY BasicTreeInitially DEF InitFull, FullTreeInv
<1>2. FullTreeInv /\ [NextFull]_allVars => FullTreeInv'
  BY FullTreeStep
<1> QED BY <1>1, <1>2, PTL DEF SpecFull

(* The edges that are read for a node lie in the slice that was handed to  *)
(* the call for its cell: no edge is out of bounds and no id underflows,   *)
(* SlicesSuffice of CCHParallelCustomization.                              *)
THEOREM Slices == SpecFull => []SlicesSuffice
<1>1. FullTreeInv => SlicesSuffice
  <2> SUFFICES ASSUME TreeInv, NEW t \in Threads, loaded[t]
               PROVE  todo[t] \cup {current[Top(t)]} \subseteq NodesOf(Top(t))
    BY SameNames DEF FullTreeInv, SlicesSuffice, Basic!SlicesSuffice, Basic!SliceStart, Basic!Node, Top, NodesOf
  <2>1. Working(t)
    BY DEF TreeInv
  <2>2. /\ current[Top(t)] \in NodesOf(Top(t)) /\ Below(current[Top(t)]) \subseteq NodesOf(Top(t))
        /\ todo[t] \subseteq Below(current[Top(t)])
    BY <2>1, AtWork DEF Working
  <2> QED BY <2>2
<1> QED BY <1>1, FullTreeInductive, PTL

LEMMA BasicAccess ==
    ASSUME TreeInv, NEW t \in Threads, NEW u \in Threads, t # u, loaded[t], loaded[u]
    PROVE  current[Top(u)] \notin Below(current[Top(t)]) \cup {current[Top(t)]}
<1>1. /\ stack[t] # <<>> /\ state[Top(t)] = "running" /\ current[Top(t)] < End(Top(t))
      /\ stack[u] # <<>> /\ state[Top(u)] = "running" /\ current[Top(u)] < End(Top(u))
  BY DEF TreeInv, Working
<1>2. Top(t) \in Cell /\ Top(u) \in Cell /\ Top(u) # Top(t)
  BY <1>1, TopFacts DEF TreeInv
<1>3. /\ current[Top(t)] \in Open(Top(t)) /\ current[Top(u)] \in Open(Top(u))
      /\ current[Top(u)] \notin customized /\ Below(current[Top(t)]) \subseteq customized
  BY <1>1, AtWork
<1>4. Open(Top(t)) \cap Open(Top(u)) = {}
  BY <1>2 DEF TreeInv, OpenApart
<1> QED BY <1>3, <1>4

LEMMA PerfectAccess ==
    ASSUME PerfectInv, NEW t \in Threads, NEW u \in Threads, t # u, loaded[t], loaded[u]
    PROVE  current[Top(u)] - 1 \notin Graph[current[Top(t)] - 1] \cup {current[Top(t)] - 1}
<1>1. /\ stack[t] # <<>> /\ state[Top(t)] = "running" /\ current[Top(t)] > Perfect!LastNode(Top(t))
      /\ stack[u] # <<>> /\ state[Top(u)] = "running" /\ current[Top(u)] > Perfect!LastNode(Top(u))
  BY DEF PerfectInv, WorkingAbove
<1>2. PICK c \in Cell, d \in Cell : c = Top(t) /\ d = Top(u) /\ c # d
  BY <1>1, TopFacts DEF PerfectInv
<1>3. PICK x \in Nodes, y \in Nodes : x = current[c] - 1 /\ y = current[d] - 1
  BY <1>1, <1>2, AtWorkAbove
<1>4. x \in Rest(c) /\ y \in Rest(d) /\ y \in NodesOf(d) /\ state[d] = "running" /\ current[d] \in Nat
  BY <1>1, <1>2, <1>3, AtWorkAbove
<1>5. Rest(c) \cap Rest(d) = {}
  BY <1>2 DEF PerfectInv, RestApart
<1>6. y \notin Graph[x]
  <2> SUFFICES ASSUME y \in Graph[x] PROVE FALSE
    OBVIOUS
  <2>1. x \in Below(y) /\ x < y
    BY GraphAssumption DEF Below
  <2>2. x \in NodesOf(d)
    BY <1>2, <1>4, <2>1, CellsAssumption
  <2>3. Cells[d].first \in Nat /\ End(d) \in Nat /\ x \in Nat /\ y \in Nat
    BY CellFacts, NodesAreNat
  <2>4. Cells[d].first <= x /\ x <= current[d] - 1
    BY <1>3, <1>4, <2>1, <2>2, <2>3 DEF NodesOf
  <2>5. x \in Rest(d)
    BY <1>4, <2>3, <2>4 DEF Rest
  <2> QED BY <1>4, <1>5, <2>5
<1> QED BY <1>2, <1>3, <1>4, <1>5, <1>6

(* No thread writes the edges of a node while another one reads or writes  *)
(* them, neither in the basic customization, where only the slices that    *)
(* threads are given say so, nor in the perfect one, where all of them     *)
(* have pointers to all weights.                                           *)
THEOREM NoRaces == SpecFull => []NoConcurrentAccess
<1>1. ASSUME FullTreeInv, phase = "basic" PROVE Basic!NoConcurrentAccess
  <2> SUFFICES ASSUME NEW t \in Threads, NEW u \in Threads, t # u, loaded[t], loaded[u]
               PROVE  current[Top(u)] \notin Below(current[Top(t)]) \cup {current[Top(t)]}
    BY SameNames DEF Basic!NoConcurrentAccess, Basic!Node, Top
  <2> QED BY <1>1, BasicAccess DEF FullTreeInv
<1>2. ASSUME FullTreeInv, phase = "perfect" PROVE Perfect!NoConcurrentAccess
  <2> SUFFICES ASSUME NEW t \in Threads, NEW u \in Threads, t # u, loaded[t], loaded[u]
               PROVE  current[Top(u)] - 1 \notin Graph[current[Top(t)] - 1] \cup {current[Top(t)] - 1}
    BY SamePerfectNames DEF Perfect!NoConcurrentAccess, Perfect!Node
  <2> QED BY <1>2, PerfectAccess DEF FullTreeInv
<1>3. FullTreeInv => NoConcurrentAccess
  BY <1>1, <1>2 DEF NoConcurrentAccess
<1> QED BY <1>3, FullTreeInductive, PTL

-----------------------------------------------------------------------------
(* The workspaces of the basic customization                               *)

(* A workspace entry that has seen the edge's own weight and the ways over *)
(* some lower nodes holds the lowest, and the lowest node of those that    *)
(* improve on the edge.                                                    *)
Best(own, over, w) ==
    /\ w.weight <= own /\ \A z \in DOMAIN over : w.weight <= over[z]
    /\ w.via = None => w.weight = own
    /\ w.via # None =>
           /\ w.via \in DOMAIN over /\ w.weight = over[w.via] /\ w.weight < own
           /\ \A z \in DOMAIN over : z < w.via => w.weight < over[z]

Entry == [weight : Nat, via : Nodes \cup {None}]

LEMMA BestRelaxed ==
    ASSUME NEW own \in Nat, NEW S \in SUBSET Nodes, NEW over \in [S -> Nat], NEW w \in Entry, Best(own, over, w),
           NEW z \in Nodes, \A y \in S : y < z,
           NEW after \in [S \cup {z} -> Nat], \A y \in S : after[y] = over[y]
    PROVE  Best(own, after, Basic!Relaxed(w, after[z], z))
<1>1. /\ S \subseteq Nat /\ z \in Nat /\ z # None /\ z \notin S /\ None \notin S
      /\ w.weight \in Nat /\ after[z] \in Nat /\ DOMAIN over = S /\ DOMAIN after = S \cup {z}
  BY NodesAreNat DEF Entry, None
<1>2. /\ w.weight <= own /\ \A y \in S : w.weight <= after[y]
      /\ w.via = None => w.weight = own
      /\ w.via # None => /\ w.via \in S /\ w.weight = after[w.via] /\ w.weight < own
                         /\ \A y \in S : y < w.via => w.weight < after[y]
  BY <1>1 DEF Best
<1>3. \A y \in S : after[y] \in Nat
  OBVIOUS
<1>4. CASE after[z] < w.weight
  <2> DEFINE new == [weight |-> after[z], via |-> z]
  <2>1. Basic!Relaxed(w, after[z], z) = new
    BY <1>4 DEF Basic!Relaxed
  <2>2. new.weight = after[z] /\ new.via = z
    OBVIOUS
  <2> HIDE DEF new
  <2> QED BY <1>1, <1>2, <1>3, <1>4, <2>1, <2>2 DEF Best
<1>5. CASE ~(after[z] < w.weight)
  <2>1. Basic!Relaxed(w, after[z], z) = w
    BY <1>5 DEF Basic!Relaxed
  <2>2. w.weight <= after[z]
    BY <1>1, <1>5
  <2>3. w.via # None => ~(z < w.via)
    <3> SUFFICES ASSUME w.via # None PROVE ~(z < w.via)
      OBVIOUS
    <3>1. w.via \in S /\ w.via < z
      BY <1>2
    <3>2. w.via \in Nat
      BY <1>1, <3>1
    <3> QED BY <1>1, <3>1, <3>2
  <2> QED BY <1>1, <1>2, <1>3, <2>1, <2>2, <2>3 DEF Best
<1> QED BY <1>4, <1>5

(* all holds the edge's own weight and the ways, best the nodes of the     *)
(* shortest of them.                                                       *)
AreWays(all, own, over) == \A n : n \in all <=> n = own \/ \E z \in DOMAIN over : n = over[z]

AreLowest(best, all, over) == \A z : z \in best <=> z \in DOMAIN over /\ over[z] = Lowest(all)

LEMMA BestIsLowest ==
    ASSUME NEW own \in Nat, NEW S \in SUBSET Nodes, NEW over \in [S -> Nat], NEW w \in Entry, Best(own, over, w),
           NEW all, AreWays(all, own, over), NEW best, AreLowest(best, all, over)
    PROVE  w.weight = Lowest(all) /\ w.via = IF Lowest(all) = own THEN None ELSE Lowest(best)
<1>1. /\ S \subseteq Nat /\ None \notin S /\ w.weight \in Nat /\ DOMAIN over = S
      /\ \A z \in S : over[z] \in Nat
  BY NodesAreNat DEF Entry, None
<1>2. /\ w.weight <= own /\ \A z \in S : w.weight <= over[z]
      /\ w.via = None => w.weight = own
      /\ w.via # None => /\ w.via \in S /\ w.weight = over[w.via] /\ w.weight < own
                         /\ \A z \in S : z < w.via => w.weight < over[z]
  BY <1>1 DEF Best
<1>3. all \in SUBSET Nat /\ all # {} /\ w.weight \in all /\ \A x \in all : w.weight <= x
  <2>1. w.weight \in all
    <3>1. w.weight = own \/ \E z \in S : w.weight = over[z]
      BY <1>2
    <3> QED BY <1>1, <3>1 DEF AreWays
  <2>2. ASSUME NEW x \in all PROVE x \in Nat /\ w.weight <= x
    <3>1. x = own \/ \E z \in S : x = over[z]
      BY <1>1 DEF AreWays
    <3> QED BY <1>1, <1>2, <3>1
  <2> QED BY <2>1, <2>2
<1>4. Lowest(all) = w.weight
  <2>1. Lowest(all) \in all /\ \A x \in all : Lowest(all) <= x
    BY <1>3, LowestIsLeast
  <2>2. Lowest(all) <= w.weight /\ w.weight <= Lowest(all) /\ Lowest(all) \in Nat
    BY <1>3, <2>1
  <2> QED BY <1>1, <2>2
<1>5. CASE w.via = None
  BY <1>2, <1>4, <1>5
<1>6. CASE w.via # None
  <2>1. best \in SUBSET Nat /\ best # {} /\ w.via \in best /\ w.via \in Nat /\ \A z \in best : w.via <= z
    <3>1. w.via \in S /\ w.weight = over[w.via] /\ w.via \in Nat /\ \A z \in S : z < w.via => w.weight < over[z]
      BY <1>1, <1>2, <1>6
    <3>2. \A z : z \in best <=> z \in S /\ over[z] = w.weight
      BY <1>1, <1>4 DEF AreLowest
    <3>3. w.via \in best /\ best \in SUBSET Nat
      BY <1>1, <3>1, <3>2
    <3>4. ASSUME NEW z \in best PROVE w.via <= z
      <4>1. z \in S /\ over[z] = w.weight /\ z \in Nat
        BY <1>1, <3>2
      <4>2. ~(z < w.via)
        BY <1>1, <3>1, <4>1
      <4> QED BY <3>1, <4>1, <4>2
    <3> QED BY <3>1, <3>3, <3>4
  <2>2. Lowest(best) \in best /\ \A z \in best : Lowest(best) <= z
    BY <2>1, LowestIsLeast
  <2>3. Lowest(best) = w.via
    <3>1. Lowest(best) <= w.via /\ w.via <= Lowest(best) /\ Lowest(best) \in Nat
      BY <2>1, <2>2
    <3> QED BY <2>1, <3>1
  <2>4. Lowest(all) # own
    BY <1>1, <1>2, <1>4, <1>6
  <2> QED BY <1>4, <1>6, <2>3, <2>4
<1> QED BY <1>5, <1>6

(* Lengths of the ways over lower nodes, as UpOver and DownOver of         *)
(* CCHCustomization have them.                                             *)
UpWays(e, S) == [z \in S |-> down[<<z, e[1]>>] + up[<<z, e[2]>>]]

DownWays(e, S) == [z \in S |-> down[<<z, e[2]>>] + up[<<z, e[1]>>]]

(* The triangles of an edge that a thread has relaxed.                     *)
Seen(t, e) == Triangles(e) \ todo[t]

(* What the workspace of a thread holds when it is at the node x.          *)
Correct(t, x) ==
    /\ \A z \in Below(x) \ todo[t], y \in todo[t] : z < y
    /\ \A v \in Graph[x] :
           /\ Best(up[<<x, v>>], UpWays(<<x, v>>, Seen(t, <<x, v>>)), wsUp[t][v])
           /\ Best(down[<<x, v>>], DownWays(<<x, v>>, Seen(t, <<x, v>>)), wsDown[t][v])

DataTypes ==
    /\ up \in [Edges -> Nat] /\ down \in [Edges -> Nat]
    /\ wsUp \in [Threads -> [Nodes -> Entry]] /\ wsDown \in [Threads -> [Nodes -> Entry]]

DataInv == DataTypes /\ \A t \in Threads : loaded[t] => Correct(t, current[Top(t)])

LEMMA EdgeFacts ==
    /\ \A x \in Nodes : \A v \in Graph[x] : /\ v \in Nodes /\ x < v /\ <<x, v>> \in Edges
                                            /\ Triangles(<<x, v>>) = {z \in Below(x) : v \in Graph[z]}
    /\ \A x : \A z \in Below(x) : z \in Nodes /\ x \in Graph[z] /\ <<z, x>> \in Edges
    /\ \A e \in Edges : e[1] \in Nodes /\ e[2] \in Graph[e[1]] /\ e = <<e[1], e[2]>>
<1>1. \A x \in Nodes : Graph[x] \subseteq Nodes /\ \A v \in Graph[x] : x < v
  BY GraphAssumption DEF Graphs
<1> QED BY <1>1 DEF Edges, Triangles, Below

(* A step of one thread leaves alone what another one is doing.            *)
LEMMA Undisturbed ==
    ASSUME TreeInv, DataTypes, NEW t \in Threads, Basic!Step(t), NEW u \in Threads, u # t
    PROVE  /\ loaded'[u] = loaded[u] /\ todo'[u] = todo[u] /\ wsUp'[u] = wsUp[u] /\ wsDown'[u] = wsDown[u]
           /\ loaded[u] => Top(u)' = Top(u) /\ current'[Top(u)] = current[Top(u)]
<1>1. TreeTypes /\ StacksApart /\ Working(u)
  BY DEF TreeInv
<1>2. /\ stack' = stack \/ \E s : stack' = [stack EXCEPT ![t] = s]
      /\ current' = current \/ (stack[t] # <<>> /\ \E x : current' = [current EXCEPT ![Top(t)] = x])
  BY SameNames DEF Basic!Step, Basic!Take, Basic!SpawnOrCall, Basic!JoinScope, Basic!Return, Basic!Load, Basic!Relax,
                   Basic!Store, Basic!Running, Basic!Busy, Basic!treeVars, Top
<1>3. /\ loaded' = loaded \/ \E b : loaded' = [loaded EXCEPT ![t] = b]
      /\ todo' = todo \/ \E T : todo' = [todo EXCEPT ![t] = T]
      /\ wsUp' = wsUp \/ \E w : wsUp' = [wsUp EXCEPT ![t] = w]
      /\ wsDown' = wsDown \/ \E w : wsDown' = [wsDown EXCEPT ![t] = w]
  BY DEF Basic!Step, Basic!Take, Basic!SpawnOrCall, Basic!JoinScope, Basic!Return, Basic!Load, Basic!Relax,
         Basic!Store, Basic!workVars
<1>4. loaded'[u] = loaded[u] /\ todo'[u] = todo[u] /\ wsUp'[u] = wsUp[u] /\ wsDown'[u] = wsDown[u]
  BY <1>1, <1>3 DEF TreeTypes, DataTypes
<1>5. ASSUME loaded[u] PROVE Top(u)' = Top(u) /\ current'[Top(u)] = current[Top(u)]
  <2>1. stack'[u] = stack[u]
    BY <1>1, <1>2 DEF StacksApart
  <2>2. stack[u] # <<>>
    BY <1>1, <1>5 DEF Working
  <2>3. Top(u)' = Top(u)
    BY <2>1 DEF Top
  <2>4. Top(u) \in Cell /\ (stack[t] # <<>> => Top(u) # Top(t))
    BY <1>1, <2>2, TopFacts
  <2>5. current'[Top(u)] = current[Top(u)]
    BY <1>1, <1>2, <2>4 DEF TreeTypes
  <2> QED BY <2>3, <2>5
<1> QED BY <1>4, <1>5

(* What a step of the threads leaves of the weights that a workspace was   *)
(* made from.                                                              *)
LEMMA StillCorrect ==
    ASSUME NEW u \in Threads, NEW y \in Nodes, Correct(u, y),
           todo'[u] = todo[u], wsUp'[u] = wsUp[u], wsDown'[u] = wsDown[u],
           \A e \in Edges : e[1] \in Below(y) \cup {y} => up'[e] = up[e] /\ down'[e] = down[e]
    PROVE  Correct(u, y)'
<1>1. \A z, v : z \in Below(y) \cup {y} /\ v \in Graph[z] =>
          up'[<<z, v>>] = up[<<z, v>>] /\ down'[<<z, v>>] = down[<<z, v>>]
  BY EdgeFacts
<1>2. ASSUME NEW v \in Graph[y]
      PROVE  /\ up'[<<y, v>>] = up[<<y, v>>] /\ down'[<<y, v>>] = down[<<y, v>>]
             /\ Seen(u, <<y, v>>)' = Seen(u, <<y, v>>)
             /\ UpWays(<<y, v>>, Seen(u, <<y, v>>))' = UpWays(<<y, v>>, Seen(u, <<y, v>>))
             /\ DownWays(<<y, v>>, Seen(u, <<y, v>>))' = DownWays(<<y, v>>, Seen(u, <<y, v>>))
  <2>1. Seen(u, <<y, v>>)' = Seen(u, <<y, v>>)
    BY DEF Seen
  <2>2. \A z \in Seen(u, <<y, v>>) : z \in Below(y) /\ y \in Graph[z] /\ v \in Graph[z]
    BY EdgeFacts DEF Seen
  <2>3. \A z \in Seen(u, <<y, v>>) : /\ up'[<<z, v>>] = up[<<z, v>>] /\ down'[<<z, v>>] = down[<<z, v>>]
                                     /\ up'[<<z, y>>] = up[<<z, y>>] /\ down'[<<z, y>>] = down[<<z, y>>]
    BY <1>1, <2>2
  <2>4. up'[<<y, v>>] = up[<<y, v>>] /\ down'[<<y, v>>] = down[<<y, v>>]
    BY <1>1
  <2> QED BY <2>1, <2>3, <2>4 DEF UpWays, DownWays
<1> QED BY <1>2 DEF Correct

LEMMA LoadData ==
    ASSUME TreeInv, DataInv, NEW t \in Threads, Basic!Load(t)
    PROVE  DataTypes' /\ Correct(t, current[Top(t)])'
<1>1. DataTypes /\ TreeTypes
  BY DEF DataInv, TreeInv
<1>2. stack[t] # <<>> /\ state[Top(t)] = "running" /\ current[Top(t)] < End(Top(t))
  BY SameNames DEF Basic!Load, Basic!Running, Basic!Busy, Top
<1>3. PICK x \in Nodes : x = current[Top(t)]
  BY <1>2, AtWork
<1>4. /\ wsUp' = [wsUp EXCEPT ![t] = [v \in Nodes |->
                     IF v \in Graph[x] THEN [weight |-> up[<<x, v>>], via |-> None] ELSE @[v]]]
      /\ wsDown' = [wsDown EXCEPT ![t] = [v \in Nodes |->
                       IF v \in Graph[x] THEN [weight |-> down[<<x, v>>], via |-> None] ELSE @[v]]]
      /\ todo' = [todo EXCEPT ![t] = Below(x)] /\ loaded' = [loaded EXCEPT ![t] = TRUE]
      /\ up' = up /\ down' = down /\ stack' = stack /\ current' = current
  BY <1>3, SameNames DEF Basic!Load, Basic!Node, Top, Basic!treeVars, Basic!weightVars
<1>5. current[Top(t)]' = x
  BY <1>3, <1>4 DEF Top
<1>6. \A v \in Graph[x] : /\ v \in Nodes /\ up[<<x, v>>] \in Nat /\ down[<<x, v>>] \in Nat
                          /\ Triangles(<<x, v>>) \subseteq Below(x)
  BY <1>1, EdgeFacts DEF DataTypes
<1>7. /\ wsUp'[t] = [v \in Nodes |-> IF v \in Graph[x] THEN [weight |-> up[<<x, v>>], via |-> None] ELSE wsUp[t][v]]
      /\ wsDown'[t] = [v \in Nodes |-> IF v \in Graph[x] THEN [weight |-> down[<<x, v>>], via |-> None] ELSE wsDown[t][v]]
      /\ todo'[t] = Below(x)
      /\ \A u \in Threads : u # t => wsUp'[u] = wsUp[u] /\ wsDown'[u] = wsDown[u]
  BY <1>1, <1>4 DEF DataTypes, TreeTypes
<1>8. DataTypes'
  <2>1. \A n \in Nat : [weight |-> n, via |-> None] \in Entry
    BY DEF Entry
  <2>2. wsUp'[t] \in [Nodes -> Entry] /\ wsDown'[t] \in [Nodes -> Entry]
    BY <1>1, <1>6, <1>7, <2>1 DEF DataTypes
  <2>3. wsUp' \in [Threads -> [Nodes -> Entry]] /\ wsDown' \in [Threads -> [Nodes -> Entry]]
    BY <1>1, <1>4, <1>7, <2>2 DEF DataTypes
  <2> QED BY <1>1, <1>4, <2>3 DEF DataTypes
<1>9. ASSUME NEW v \in Graph[x]
      PROVE  /\ Best(up'[<<x, v>>], UpWays(<<x, v>>, Seen(t, <<x, v>>))', wsUp'[t][v])
             /\ Best(down'[<<x, v>>], DownWays(<<x, v>>, Seen(t, <<x, v>>))', wsDown'[t][v])
  <2>1. Seen(t, <<x, v>>)' = {}
    BY <1>6, <1>7 DEF Seen
  <2>2. DOMAIN UpWays(<<x, v>>, Seen(t, <<x, v>>))' = {} /\ DOMAIN DownWays(<<x, v>>, Seen(t, <<x, v>>))' = {}
    BY <2>1 DEF UpWays, DownWays
  <2>3. ASSUME NEW n \in Nat, NEW over, DOMAIN over = {} PROVE Best(n, over, [weight |-> n, via |-> None])
    BY <2>3 DEF Best
  <2>4. wsUp'[t][v] = [weight |-> up[<<x, v>>], via |-> None] /\ wsDown'[t][v] = [weight |-> down[<<x, v>>], via |-> None]
    BY <1>6, <1>7
  <2>5. up'[<<x, v>>] = up[<<x, v>>] /\ down'[<<x, v>>] = down[<<x, v>>] /\ up[<<x, v>>] \in Nat /\ down[<<x, v>>] \in Nat
    BY <1>4, <1>6
  <2> HIDE DEF UpWays, DownWays
  <2> QED BY <2>2, <2>3, <2>4, <2>5
<1>10. \A z \in Below(x) \ todo'[t], y \in todo'[t] : z < y
  BY <1>7
<1>11. Correct(t, x)'
  BY <1>9, <1>10 DEF Correct
<1> QED BY <1>5, <1>8, <1>11

LEMMA RelaxData ==
    ASSUME TreeInv, DataInv, NEW t \in Threads, Basic!Relax(t)
    PROVE  DataTypes' /\ Correct(t, current[Top(t)])'
<1>1. DataTypes /\ TreeTypes /\ Working(t)
  BY DEF DataInv, TreeInv
<1>2. /\ stack[t] # <<>> /\ state[Top(t)] = "running" /\ current[Top(t)] < End(Top(t))
      /\ loaded[t] /\ todo[t] # {}
  BY SameNames DEF Basic!Relax, Basic!Running, Basic!Busy, Top
<1>3. PICK x \in Nodes : x = current[Top(t)]
  BY <1>2, AtWork
<1>4. Correct(t, x) /\ todo[t] \subseteq Below(x)
  BY <1>1, <1>2, <1>3 DEF DataInv, Working
<1>5. PICK z \in todo[t] : z = Lowest(todo[t]) /\ \A y \in todo[t] : z <= y
  <2>1. todo[t] \in SUBSET Nat
    BY <1>1, NodesAreNat DEF TreeTypes
  <2> QED BY <1>2, <2>1, LowestIsLeast
<1>6. z \in Below(x) /\ z \in Nodes /\ z \in Nat /\ x \in Graph[z] /\ z < x /\ x \in Nat
  BY <1>4, EdgeFacts, NodesAreNat
<1>7. /\ wsUp' = [wsUp EXCEPT ![t] = [v \in Nodes |->
                     IF v \in {y \in Graph[z] : y > x}
                     THEN Basic!Relaxed(@[v], down[<<z, x>>] + up[<<z, v>>], z) ELSE @[v]]]
      /\ wsDown' = [wsDown EXCEPT ![t] = [v \in Nodes |->
                       IF v \in {y \in Graph[z] : y > x}
                       THEN Basic!Relaxed(@[v], down[<<z, v>>] + up[<<z, x>>], z) ELSE @[v]]]
      /\ todo' = [todo EXCEPT ![t] = @ \ {z}]
      /\ up' = up /\ down' = down /\ stack' = stack /\ current' = current
  BY <1>3, <1>5, SameNames DEF Basic!Relax, Basic!Node, Top, Basic!treeVars, Basic!weightVars
<1>8. current[Top(t)]' = x
  BY <1>3, <1>7 DEF Top
<1>9. /\ \A v \in Nodes : v \in Graph[z] /\ v > x =>
             /\ wsUp'[t][v] = Basic!Relaxed(wsUp[t][v], down[<<z, x>>] + up[<<z, v>>], z)
             /\ wsDown'[t][v] = Basic!Relaxed(wsDown[t][v], down[<<z, v>>] + up[<<z, x>>], z)
      /\ \A v \in Nodes : ~(v \in Graph[z] /\ v > x) => wsUp'[t][v] = wsUp[t][v] /\ wsDown'[t][v] = wsDown[t][v]
      /\ todo'[t] = todo[t] \ {z}
  BY <1>1, <1>7 DEF DataTypes, TreeTypes
<1>10. \A v \in Graph[z] : up[<<z, v>>] \in Nat /\ down[<<z, v>>] \in Nat
  BY <1>1, <1>6, EdgeFacts DEF DataTypes
<1>11. DataTypes'
  <2>1. ASSUME NEW w \in Entry, NEW n \in Nat PROVE Basic!Relaxed(w, n, z) \in Entry
    <3>1. [weight |-> n, via |-> z] \in Entry
      BY <1>6 DEF Entry
    <3> QED BY <3>1 DEF Basic!Relaxed
  <2>2. \A v \in Graph[z] : down[<<z, x>>] + up[<<z, v>>] \in Nat /\ down[<<z, v>>] + up[<<z, x>>] \in Nat
    BY <1>6, <1>10
  <2>3. \A v \in Nodes : wsUp[t][v] \in Entry /\ wsDown[t][v] \in Entry
    BY <1>1 DEF DataTypes
  <2>4. \A v \in Nodes : wsUp'[t][v] \in Entry /\ wsDown'[t][v] \in Entry
    BY <1>9, <2>1, <2>2, <2>3
  <2>5. wsUp'[t] \in [Nodes -> Entry] /\ wsDown'[t] \in [Nodes -> Entry]
    <3>1. /\ wsUp'[t] = [v \in Nodes |-> wsUp'[t][v]]
          /\ wsDown'[t] = [v \in Nodes |-> wsDown'[t][v]]
      BY <1>1, <1>7 DEF DataTypes
    <3> QED BY <2>4, <3>1
  <2>6. wsUp' \in [Threads -> [Nodes -> Entry]] /\ wsDown' \in [Threads -> [Nodes -> Entry]]
    <3>1. \A u \in Threads : wsUp'[u] \in [Nodes -> Entry] /\ wsDown'[u] \in [Nodes -> Entry]
      <4>1. \A u \in Threads : u # t => wsUp'[u] = wsUp[u] /\ wsDown'[u] = wsDown[u]
        BY <1>1, <1>7 DEF DataTypes
      <4> QED BY <1>1, <2>5, <4>1 DEF DataTypes
    <3>2. wsUp' = [u \in Threads |-> wsUp'[u]] /\ wsDown' = [u \in Threads |-> wsDown'[u]]
      BY <1>1, <1>7 DEF DataTypes
    <3> QED BY <3>1, <3>2
  <2> QED BY <1>1, <1>7, <2>6 DEF DataTypes
<1>12. \A y \in Below(x) \ todo'[t], w \in todo'[t] : y < w
  <2> SUFFICES ASSUME NEW y \in Below(x) \ todo'[t], NEW w \in todo'[t] PROVE y < w
    OBVIOUS
  <2>1. w \in todo[t] /\ w # z /\ w \in Nat /\ y \in Nat
    BY <1>4, <1>9, EdgeFacts, NodesAreNat
  <2>2. CASE y = z
    BY <1>5, <1>6, <2>1, <2>2
  <2>3. CASE y # z
    <3>1. y \in Below(x) \ todo[t]
      BY <1>9, <2>3
    <3> QED BY <1>4, <2>1, <3>1 DEF Correct
  <2> QED BY <2>2, <2>3
<1>13. ASSUME NEW v \in Graph[x]
       PROVE  /\ Best(up'[<<x, v>>], UpWays(<<x, v>>, Seen(t, <<x, v>>))', wsUp'[t][v])
              /\ Best(down'[<<x, v>>], DownWays(<<x, v>>, Seen(t, <<x, v>>))', wsDown'[t][v])
  <2> DEFINE e == <<x, v>>
             S == Seen(t, e)
  <2>1. /\ v \in Nodes /\ x < v /\ e \in Edges /\ e[1] = x /\ e[2] = v
        /\ Triangles(e) = {y \in Below(x) : v \in Graph[y]}
    BY EdgeFacts
  <2>2. S \in SUBSET Nodes /\ \A y \in S : y < z /\ y \in Below(x) /\ v \in Graph[y]
    <3>1. \A y \in S : y \in Below(x) \ todo[t] /\ v \in Graph[y] /\ y \in Nodes
      BY <2>1, EdgeFacts DEF Seen
    <3> QED BY <1>4, <3>1 DEF Correct
  <2>3. up[e] \in Nat /\ down[e] \in Nat /\ wsUp[t][v] \in Entry /\ wsDown[t][v] \in Entry
    BY <1>1, <2>1 DEF DataTypes
  <2>4. Best(up[e], UpWays(e, S), wsUp[t][v]) /\ Best(down[e], DownWays(e, S), wsDown[t][v])
    BY <1>4 DEF Correct
  <2>5. \A y \in Below(x) : v \in Graph[y] =>
            /\ down[<<y, x>>] + up[<<y, v>>] \in Nat /\ down[<<y, v>>] + up[<<y, x>>] \in Nat
    <3>1. \A y \in Below(x) : v \in Graph[y] => <<y, x>> \in Edges /\ <<y, v>> \in Edges
      BY EdgeFacts
    <3> QED BY <1>1, <3>1 DEF DataTypes
  <2>6. UpWays(e, S) \in [S -> Nat] /\ DownWays(e, S) \in [S -> Nat]
    BY <2>1, <2>2, <2>5 DEF UpWays, DownWays
  <2>7. CASE v \in Graph[z]
    <3> DEFINE R == S \cup {z}
    <3>1. Seen(t, e)' = R
      BY <1>5, <1>6, <1>9, <2>1, <2>7 DEF Seen
    <3>2. UpWays(e, Seen(t, e))' = UpWays(e, R) /\ DownWays(e, Seen(t, e))' = DownWays(e, R)
      BY <1>7, <3>1 DEF UpWays, DownWays
    <3>3. UpWays(e, R) \in [R -> Nat] /\ DownWays(e, R) \in [R -> Nat]
      BY <1>6, <2>1, <2>2, <2>5, <2>7 DEF UpWays, DownWays
    <3>4. /\ \A y \in S : UpWays(e, R)[y] = UpWays(e, S)[y] /\ DownWays(e, R)[y] = DownWays(e, S)[y]
          /\ UpWays(e, R)[z] = down[<<z, x>>] + up[<<z, v>>]
          /\ DownWays(e, R)[z] = down[<<z, v>>] + up[<<z, x>>]
      BY <2>1 DEF UpWays, DownWays
    <3>5. /\ wsUp'[t][v] = Basic!Relaxed(wsUp[t][v], UpWays(e, R)[z], z)
          /\ wsDown'[t][v] = Basic!Relaxed(wsDown[t][v], DownWays(e, R)[z], z)
      <4>1. v > x
        BY <1>6, <2>1, NodesAreNat
      <4> QED BY <1>9, <2>1, <2>7, <3>4, <4>1
    <3> HIDE DEF e, S
    <3>6. Best(up[e], UpWays(e, R), Basic!Relaxed(wsUp[t][v], UpWays(e, R)[z], z))
      BY <1>6, <2>2, <2>3, <2>4, <2>6, <3>3, <3>4, BestRelaxed
    <3>7. Best(down[e], DownWays(e, R), Basic!Relaxed(wsDown[t][v], DownWays(e, R)[z], z))
      BY <1>6, <2>2, <2>3, <2>4, <2>6, <3>3, <3>4, BestRelaxed
    <3> QED BY <1>7, <3>2, <3>5, <3>6, <3>7 DEF e, S
  <2>8. CASE v \notin Graph[z]
    <3>1. Seen(t, e)' = S
      BY <1>5, <1>6, <1>9, <2>1, <2>8 DEF Seen
    <3>2. UpWays(e, Seen(t, e))' = UpWays(e, S) /\ DownWays(e, Seen(t, e))' = DownWays(e, S)
      BY <1>7, <3>1 DEF UpWays, DownWays
    <3>3. wsUp'[t][v] = wsUp[t][v] /\ wsDown'[t][v] = wsDown[t][v]
      BY <1>9, <2>1, <2>8
    <3> QED BY <1>7, <2>4, <3>2, <3>3
  <2> QED BY <2>7, <2>8
<1>14. Correct(t, x)'
  BY <1>12, <1>13 DEF Correct
<1> QED BY <1>8, <1>11, <1>14

(* The instance of node by node customization has names of its own, too.   *)
LEMMA SameSequentialNames ==
    /\ Basic!Sequential!Nodes = Nodes /\ Basic!Sequential!Edges = Edges /\ Basic!Sequential!None = None
    /\ \A x : Basic!Sequential!Below(x) = Below(x)
    /\ \A e : Basic!Sequential!Triangles(e) = Triangles(e)
    /\ \A S : Basic!Sequential!Lowest(S) = Lowest(S)
<1>1. Basic!Sequential!Nodes = Nodes /\ Basic!Sequential!None = None
  BY DEF Basic!Sequential!Nodes, Nodes, Basic!Sequential!None, None
<1>2. Basic!Sequential!Edges = Edges
  BY <1>1 DEF Basic!Sequential!Edges, Edges
<1>3. \A x : Basic!Sequential!Below(x) = Below(x)
  BY <1>1 DEF Basic!Sequential!Below, Below
<1>4. \A e : Basic!Sequential!Triangles(e) = Triangles(e)
  BY <1>3 DEF Basic!Sequential!Triangles, Triangles
<1>5. \A S : Basic!Sequential!Lowest(S) = Lowest(S)
  BY DEF Basic!Sequential!Lowest, Lowest
<1> QED BY <1>1, <1>2, <1>3, <1>4, <1>5

(* When all triangles are relaxed the workspace holds the weights and the  *)
(* unpacking information of customization node by node.                    *)
LEMMA StoredIsCustomized ==
    ASSUME DataTypes, NEW t \in Threads, NEW x \in Nodes, Correct(t, x), todo[t] = {}, NEW e \in Edges, e[1] = x
    PROVE  /\ wsUp[t][e[2]].weight = Basic!Sequential!UpRelaxed(e)
           /\ wsDown[t][e[2]].weight = Basic!Sequential!DownRelaxed(e)
           /\ wsUp[t][e[2]].via = Basic!Sequential!UpVia(e)
           /\ wsDown[t][e[2]].via = Basic!Sequential!DownVia(e)
<1> DEFINE v == e[2]
           S == Triangles(e)
           upWays == UpWays(e, S)
           downWays == DownWays(e, S)
<1>1. /\ e = <<x, v>> /\ v \in Graph[x] /\ v \in Nodes /\ S = {z \in Below(x) : v \in Graph[z]}
      /\ Seen(t, e) = S
  BY EdgeFacts DEF Seen
<1>2. up[e] \in Nat /\ down[e] \in Nat /\ wsUp[t][v] \in Entry /\ wsDown[t][v] \in Entry
  BY <1>1 DEF DataTypes
<1>3. Best(up[e], upWays, wsUp[t][v]) /\ Best(down[e], downWays, wsDown[t][v])
  BY <1>1 DEF Correct
<1>4. S \in SUBSET Nodes
  BY <1>1, EdgeFacts
<1>5. upWays \in [S -> Nat] /\ downWays \in [S -> Nat]
  <2>1. \A z \in S : <<z, e[1]>> \in Edges /\ <<z, e[2]>> \in Edges
    BY <1>1, EdgeFacts
  <2> QED BY <2>1 DEF UpWays, DownWays, DataTypes
<1>6. /\ \A z \in S : upWays[z] = Basic!Sequential!UpOver(e, z) /\ downWays[z] = Basic!Sequential!DownOver(e, z)
  BY DEF UpWays, DownWays, Basic!Sequential!UpOver, Basic!Sequential!DownOver
<1> HIDE DEF upWays, downWays, S, v
<1>7. wsUp[t][v].weight = Basic!Sequential!UpRelaxed(e) /\ wsUp[t][v].via = Basic!Sequential!UpVia(e)
  <2> DEFINE all == {up[e]} \cup {Basic!Sequential!UpOver(e, z) : z \in S}
             best == {z \in S : Basic!Sequential!UpOver(e, z) = Lowest(all)}
  <2>1. all = {up[e]} \cup {upWays[z] : z \in S} /\ best = {z \in S : upWays[z] = Lowest(all)}
    BY <1>6
  <2>2. Basic!Sequential!UpRelaxed(e) = Lowest(all)
    BY SameSequentialNames DEF Basic!Sequential!UpRelaxed, S
  <2>3. Basic!Sequential!UpVia(e) = IF Lowest(all) = up[e] THEN None ELSE Lowest(best)
    BY <2>2, SameSequentialNames DEF Basic!Sequential!UpVia, S
  <2> HIDE DEF all, best
  <2>4. wsUp[t][v].weight = Lowest(all) /\ wsUp[t][v].via = IF Lowest(all) = up[e] THEN None ELSE Lowest(best)
    <3>1. PICK own \in Nat, w \in Entry, over \in [S -> Nat] : own = up[e] /\ w = wsUp[t][v] /\ over = upWays
      BY <1>2, <1>5
    <3>2. Best(own, over, w) /\ AreWays(all, own, over) /\ AreLowest(best, all, over)
      BY <1>3, <2>1, <3>1 DEF AreWays, AreLowest
    <3>3. w.weight = Lowest(all) /\ w.via = IF Lowest(all) = own THEN None ELSE Lowest(best)
      BY <1>4, <3>2, BestIsLowest
    <3> QED BY <3>1, <3>3
  <2> QED BY <2>2, <2>3, <2>4
<1>8. wsDown[t][v].weight = Basic!Sequential!DownRelaxed(e) /\ wsDown[t][v].via = Basic!Sequential!DownVia(e)
  <2> DEFINE all == {down[e]} \cup {Basic!Sequential!DownOver(e, z) : z \in S}
             best == {z \in S : Basic!Sequential!DownOver(e, z) = Lowest(all)}
  <2>1. all = {down[e]} \cup {downWays[z] : z \in S} /\ best = {z \in S : downWays[z] = Lowest(all)}
    BY <1>6
  <2>2. Basic!Sequential!DownRelaxed(e) = Lowest(all)
    BY SameSequentialNames DEF Basic!Sequential!DownRelaxed, S
  <2>3. Basic!Sequential!DownVia(e) = IF Lowest(all) = down[e] THEN None ELSE Lowest(best)
    BY <2>2, SameSequentialNames DEF Basic!Sequential!DownVia, S
  <2> HIDE DEF all, best
  <2>4. wsDown[t][v].weight = Lowest(all) /\ wsDown[t][v].via = IF Lowest(all) = down[e] THEN None ELSE Lowest(best)
    <3>1. PICK own \in Nat, w \in Entry, over \in [S -> Nat] : own = down[e] /\ w = wsDown[t][v] /\ over = downWays
      BY <1>2, <1>5
    <3>2. Best(own, over, w) /\ AreWays(all, own, over) /\ AreLowest(best, all, over)
      BY <1>3, <2>1, <3>1 DEF AreWays, AreLowest
    <3>3. w.weight = Lowest(all) /\ w.via = IF Lowest(all) = own THEN None ELSE Lowest(best)
      BY <1>4, <3>2, BestIsLowest
    <3> QED BY <3>1, <3>3
  <2> QED BY <2>2, <2>3, <2>4
<1> QED BY <1>7, <1>8 DEF v

LEMMA StoreData ==
    ASSUME TreeInv, DataInv, NEW t \in Threads, Basic!Store(t)
    PROVE  /\ DataTypes' /\ Basic!Sequential!Next /\ ~loaded'[t]
           /\ \A u \in Threads : u # t /\ loaded[u] => Correct(u, current[Top(u)])'
<1>1. DataTypes /\ TreeTypes
  BY DEF DataInv, TreeInv
<1>2. /\ stack[t] # <<>> /\ state[Top(t)] = "running" /\ current[Top(t)] < End(Top(t))
      /\ loaded[t] /\ todo[t] = {}
  BY SameNames DEF Basic!Store, Basic!Running, Basic!Busy, Top
<1>3. PICK x \in Nodes : x = current[Top(t)] /\ x \notin customized /\ Below(x) \subseteq customized
  BY <1>2, AtWork
<1>4. Correct(t, x)
  BY <1>2, <1>3 DEF DataInv
<1>5. /\ up' = [e \in Edges |-> IF e[1] = x THEN wsUp[t][e[2]].weight ELSE up[e]]
      /\ down' = [e \in Edges |-> IF e[1] = x THEN wsDown[t][e[2]].weight ELSE down[e]]
      /\ upVia' = [e \in Edges |-> IF e[1] = x THEN wsUp[t][e[2]].via ELSE upVia[e]]
      /\ downVia' = [e \in Edges |-> IF e[1] = x THEN wsDown[t][e[2]].via ELSE downVia[e]]
      /\ customized' = customized \cup {x} /\ metric' = metric
      /\ loaded' = [loaded EXCEPT ![t] = FALSE] /\ wsUp' = wsUp /\ wsDown' = wsDown
  BY <1>3, SameNames DEF Basic!Store, Basic!Node, Top
<1>6. DataTypes'
  <2>1. \A e \in Edges : wsUp[t][e[2]].weight \in Nat /\ wsDown[t][e[2]].weight \in Nat
    <3>1. \A e \in Edges : wsUp[t][e[2]] \in Entry /\ wsDown[t][e[2]] \in Entry
      BY <1>1, EdgeFacts DEF DataTypes
    <3> QED BY <3>1 DEF Entry
  <2> QED BY <1>1, <1>5, <2>1 DEF DataTypes
<1>7. Basic!Sequential!CustomizeNode(x)
  <2>1. /\ up' = [e \in Edges |-> IF e[1] = x THEN Basic!Sequential!UpRelaxed(e) ELSE up[e]]
        /\ down' = [e \in Edges |-> IF e[1] = x THEN Basic!Sequential!DownRelaxed(e) ELSE down[e]]
        /\ upVia' = [e \in Edges |-> IF e[1] = x THEN Basic!Sequential!UpVia(e) ELSE upVia[e]]
        /\ downVia' = [e \in Edges |-> IF e[1] = x THEN Basic!Sequential!DownVia(e) ELSE downVia[e]]
    <3>1. \A e \in Edges : e[1] = x =>
              /\ wsUp[t][e[2]].weight = Basic!Sequential!UpRelaxed(e)
              /\ wsDown[t][e[2]].weight = Basic!Sequential!DownRelaxed(e)
              /\ wsUp[t][e[2]].via = Basic!Sequential!UpVia(e)
              /\ wsDown[t][e[2]].via = Basic!Sequential!DownVia(e)
      BY <1>1, <1>2, <1>4, StoredIsCustomized
    <3> QED BY <1>5, <3>1
  <2> QED BY <1>3, <1>5, <2>1, SameSequentialNames DEF Basic!Sequential!CustomizeNode
<1>8. ASSUME NEW u \in Threads, u # t, loaded[u] PROVE Correct(u, current[Top(u)])'
  <2>1. Basic!Step(t)
    BY DEF Basic!Step
  <2>2. /\ todo'[u] = todo[u] /\ wsUp'[u] = wsUp[u] /\ wsDown'[u] = wsDown[u]
        /\ Top(u)' = Top(u) /\ current'[Top(u)] = current[Top(u)]
    BY <1>1, <1>8, <2>1, Undisturbed
  <2>3. Working(u)
    BY DEF TreeInv
  <2>4. PICK y \in Nodes : y = current[Top(u)]
    BY <1>8, <2>3, AtWork DEF Working
  <2>5. current[Top(u)]' = y
    BY <2>2, <2>4
  <2>6. x \notin Below(y) \cup {y}
    BY <1>2, <1>3, <1>8, <2>4, BasicAccess
  <2>7. \A e \in Edges : e[1] \in Below(y) \cup {y} => up'[e] = up[e] /\ down'[e] = down[e]
    BY <1>5, <2>6
  <2>8. Correct(u, y)
    BY <1>8, <2>4 DEF DataInv
  <2>9. Correct(u, y)'
    BY <2>2, <2>7, <2>8, StillCorrect
  <2> QED BY <2>5, <2>9
<1>9. ~loaded'[t]
  BY <1>1, <1>5 DEF TreeTypes
<1>10. Basic!Sequential!Next
  BY <1>3, <1>7, SameSequentialNames DEF Basic!Sequential!Next
<1> QED BY <1>6, <1>8, <1>9, <1>10

LEMMA BasicDataStep ==
    ASSUME TreeInv, DataInv, NEW t \in Threads, Basic!Step(t)
    PROVE  DataInv' /\ (Basic!Sequential!Next \/ UNCHANGED Basic!weightVars)
<1>1. DataTypes /\ TreeTypes /\ Working(t)
  BY DEF DataInv, TreeInv
<1>2. ASSUME NEW u \in Threads, u # t, loaded'[u], up' = up, down' = down PROVE Correct(u, current[Top(u)])'
  <2>1. /\ loaded[u] /\ todo'[u] = todo[u] /\ wsUp'[u] = wsUp[u] /\ wsDown'[u] = wsDown[u]
        /\ Top(u)' = Top(u) /\ current'[Top(u)] = current[Top(u)]
    BY <1>1, <1>2, Undisturbed
  <2>2. Working(u)
    BY DEF TreeInv
  <2>3. PICK y \in Nodes : y = current[Top(u)]
    BY <2>1, <2>2, AtWork DEF Working
  <2>4. current[Top(u)]' = y
    BY <2>1, <2>3
  <2>5. Correct(u, y)
    BY <2>1, <2>3 DEF DataInv
  <2>6. Correct(u, y)'
    BY <1>2, <2>1, <2>5, StillCorrect
  <2> QED BY <2>4, <2>6
<1>3. ASSUME UNCHANGED <<Basic!workVars, Basic!weightVars>>, ~loaded[t]
      PROVE  DataInv' /\ UNCHANGED Basic!weightVars
  <2>1. /\ loaded' = loaded /\ wsUp' = wsUp /\ wsDown' = wsDown /\ up' = up /\ down' = down
        /\ UNCHANGED Basic!weightVars
    BY <1>3 DEF Basic!workVars, Basic!weightVars
  <2>2. \A u \in Threads : loaded'[u] => Correct(u, current[Top(u)])'
    BY <1>2, <1>3, <2>1
  <2>3. DataTypes'
    BY <1>1, <2>1 DEF DataTypes
  <2> QED BY <2>1, <2>2, <2>3 DEF DataInv
<1>4. ASSUME Basic!Take(t) \/ Basic!SpawnOrCall(t) \/ Basic!JoinScope(t) \/ Basic!Return(t)
      PROVE  UNCHANGED <<Basic!workVars, Basic!weightVars>> /\ ~loaded[t]
  <2>1. UNCHANGED <<Basic!workVars, Basic!weightVars>>
    BY <1>4 DEF Basic!Take, Basic!SpawnOrCall, Basic!JoinScope, Basic!Return
  <2>2. stack[t] # <<>> => state[Top(t)] = "splitting" \/ current[Top(t)] = End(Top(t))
    BY <1>4, SameNames DEF Basic!Take, Basic!SpawnOrCall, Basic!JoinScope, Basic!Return, Basic!Busy, Basic!InScopeEnd, Top
  <2>3. stack[t] # <<>> => Top(t) \in Cell /\ End(Top(t)) \in Nat
    BY TopFacts, CellFacts DEF TreeInv
  <2>4. ~loaded[t]
    BY <1>1, <2>2, <2>3 DEF Working
  <2> QED BY <2>1, <2>4
<1>5. CASE Basic!Load(t) \/ Basic!Relax(t)
  <2>1. up' = up /\ down' = down /\ UNCHANGED Basic!weightVars
    BY <1>5 DEF Basic!Load, Basic!Relax, Basic!weightVars
  <2>2. DataTypes' /\ Correct(t, current[Top(t)])'
    BY <1>5, LoadData, RelaxData
  <2>3. \A u \in Threads : loaded'[u] => Correct(u, current[Top(u)])'
    BY <1>2, <2>1, <2>2
  <2> QED BY <2>1, <2>2, <2>3 DEF DataInv
<1>6. CASE Basic!Store(t)
  <2>1. /\ DataTypes' /\ Basic!Sequential!Next /\ ~loaded'[t]
        /\ \A u \in Threads : u # t /\ loaded[u] => Correct(u, current[Top(u)])'
    BY <1>6, StoreData
  <2>2. \A u \in Threads : u # t => loaded'[u] = loaded[u]
    BY <1>1, Undisturbed
  <2>3. \A u \in Threads : loaded'[u] => Correct(u, current[Top(u)])'
    BY <2>1, <2>2
  <2> QED BY <2>1, <2>3 DEF DataInv
<1>7. CASE Basic!Take(t) \/ Basic!SpawnOrCall(t) \/ Basic!JoinScope(t) \/ Basic!Return(t)
  BY <1>3, <1>4, <1>7
<1> QED BY <1>5, <1>6, <1>7 DEF Basic!Step

LEMMA BasicDataInitially ==
    ASSUME Basic!Init
    PROVE  DataInv /\ Basic!Sequential!Init
<1>1. /\ metric \in Metrics /\ up = Basic!RespectUp(metric) /\ down = Basic!RespectDown(metric)
      /\ upVia = [e \in Edges |-> None] /\ downVia = [e \in Edges |-> None] /\ customized = {}
      /\ loaded = [t \in Threads |-> FALSE]
      /\ wsUp = [t \in Threads |-> [v \in Nodes |-> Basic!Empty]]
      /\ wsDown = [t \in Threads |-> [v \in Nodes |-> Basic!Empty]]
  BY SameNames DEF Basic!Init
<1>2. /\ Basic!Sequential!RespectUp(metric) = Basic!RespectUp(metric)
      /\ Basic!Sequential!RespectDown(metric) = Basic!RespectDown(metric)
      /\ Basic!RespectUp(metric) = RespectUp(metric) /\ Basic!RespectDown(metric) = RespectDown(metric)
  BY SameNames, SameSequentialNames
     DEF Basic!Sequential!RespectUp, Basic!Sequential!RespectDown, Basic!RespectUp, Basic!RespectDown,
         RespectUp, RespectDown
<1>3. ASSUME NEW a \in Nodes \X Nodes PROVE Lowest(metric[a] \cup {Inf}) \in Nat
  <2>1. metric[a] \in SUBSET Weight
    BY <1>1, MetricsAssumption DEF Metric
  <2>2. metric[a] \cup {Inf} \in SUBSET Nat
    BY <2>1, InfAssumption DEF Weight
  <2> QED BY <2>2, LowestIsLeast
<1>4. \A e \in Edges : e \in Nodes \X Nodes /\ <<e[2], e[1]>> \in Nodes \X Nodes
  BY DEF Edges
<1>5. up \in [Edges -> Nat] /\ down \in [Edges -> Nat]
  BY <1>1, <1>2, <1>3, <1>4 DEF RespectUp, RespectDown
<1>6. Basic!Empty \in Entry
  BY InfAssumption, SameNames DEF Basic!Empty, Entry
<1>7. DataInv
  BY <1>1, <1>5, <1>6 DEF DataInv, DataTypes
<1>8. Basic!Sequential!Init
  BY <1>1, <1>2, SameSequentialNames DEF Basic!Sequential!Init
<1> QED BY <1>7, <1>8

-----------------------------------------------------------------------------
(* However tasks are taken and steps interleaved, the weights that the     *)
(* threads of the basic customization leave are those of customization     *)
(* node by node, lower neighbors first: ImplementsCustomization.           *)
FullInv == FullTreeInv /\ (phase = "basic" => DataInv)

LEMMA FullStep ==
    ASSUME FullInv, [NextFull]_allVars
    PROVE  FullInv' /\ [phase' = "basic" => Basic!Sequential!Next]_(Basic!weightVars)
<1>1. FullTreeInv'
  BY FullTreeStep DEF FullInv
<1>2. ASSUME NEW t \in Threads, phase = "basic", phase' = phase, Basic!Step(t)
      PROVE  FullInv' /\ [phase' = "basic" => Basic!Sequential!Next]_(Basic!weightVars)
  BY <1>1, <1>2, BasicDataStep DEF FullInv, FullTreeInv
<1>3. ASSUME phase' # "basic"
      PROVE  FullInv' /\ [phase' = "basic" => Basic!Sequential!Next]_(Basic!weightVars)
  BY <1>1, <1>3 DEF FullInv
<1>4. CASE UNCHANGED allVars
  <2>1. /\ phase' = phase /\ up' = up /\ down' = down /\ wsUp' = wsUp /\ wsDown' = wsDown /\ todo' = todo
        /\ loaded' = loaded /\ current' = current /\ stack' = stack /\ UNCHANGED Basic!weightVars
    BY <1>4 DEF allVars, basicOnly, threadVars, Basic!weightVars
  <2>2. DataInv => DataInv'
    <3>1. \A t, e : /\ UpWays(e, Seen(t, e))' = UpWays(e, Seen(t, e))
                   /\ DownWays(e, Seen(t, e))' = DownWays(e, Seen(t, e))
      BY <2>1 DEF UpWays, DownWays, Seen
    <3>2. \A t, x : Correct(t, x) => Correct(t, x)'
      BY <2>1, <3>1 DEF Correct
    <3>3. \A t : current[Top(t)]' = current[Top(t)]
      BY <2>1 DEF Top
    <3> QED BY <2>1, <3>2, <3>3 DEF DataInv, DataTypes
  <2> QED BY <1>1, <2>1, <2>2 DEF FullInv
<1>5. CASE \E t \in Threads : ThreadStep(t)
  <2>1. PICK t \in Threads : ThreadStep(t)
    BY <1>5
  <2> QED BY <1>2, <1>3, <2>1 DEF ThreadStep
<1>6. CASE Caller
  BY <1>3, <1>6 DEF Caller, StartPerfect, StartRebuild, RebuildStep
<1> QED BY <1>4, <1>5, <1>6 DEF NextFull

THEOREM CustomizationRefinement == SpecFull => ImplementsCustomization
<1>1. InitFull => FullInv /\ (phase = "basic" => Basic!Sequential!Init)
  BY BasicTreeInitially, BasicDataInitially DEF InitFull, FullInv, FullTreeInv
<1>2. FullInv /\ [NextFull]_allVars => FullInv' /\ [phase' = "basic" => Basic!Sequential!Next]_(Basic!weightVars)
  BY FullStep
<1> QED BY <1>1, <1>2, PTL DEF SpecFull, ImplementsCustomization

-----------------------------------------------------------------------------
(* The weights that the perfect customization starts with                  *)

(* How far the weights are in the basic customization.                     *)
BasicWeights ==
    /\ metric \in Metrics
    /\ \A e \in Edges : e[1] \in customized => up[e] = BasicUp(metric)[e] /\ down[e] = BasicDown(metric)[e]
    /\ \A e \in Edges : e[1] \notin customized => up[e] = RespectUp(metric)[e] /\ down[e] = RespectDown(metric)[e]
    /\ upMod = {} /\ downMod = {} /\ ws = [t \in Threads |-> [v \in Nodes |-> None]]

(* The lowest of numbers, one of which is not above the others.            *)
LEMMA IsLowest ==
    ASSUME NEW n \in Nat, NEW S \in SUBSET Nat, n \in S, \A k \in S : n <= k
    PROVE  Lowest(S) = n
<1>1. Lowest(S) \in S /\ \A k \in S : Lowest(S) <= k
  BY LowestIsLeast
<1>2. Lowest(S) \in Nat /\ Lowest(S) <= n /\ n <= Lowest(S)
  BY <1>1
<1> QED BY <1>2

(* The lower nodes are finished, and so are their edges.                   *)
LEMMA OverAreBasic ==
    ASSUME BasicWeights, DataTypes, NEW e \in Edges, Below(e[1]) \subseteq customized, NEW z \in Triangles(e)
    PROVE  /\ Basic!Sequential!UpOver(e, z) = BasicDown(metric)[<<z, e[1]>>] + BasicUp(metric)[<<z, e[2]>>]
           /\ Basic!Sequential!DownOver(e, z) = BasicDown(metric)[<<z, e[2]>>] + BasicUp(metric)[<<z, e[1]>>]
           /\ Basic!Sequential!UpOver(e, z) \in Nat /\ Basic!Sequential!DownOver(e, z) \in Nat
<1>1. z \in Below(e[1]) /\ e[2] \in Graph[z]
  BY DEF Triangles
<1>2. z \in Nodes /\ <<z, e[1]>> \in Edges /\ <<z, e[2]>> \in Edges /\ z \in customized
  BY <1>1, EdgeFacts
<1>3. /\ up[<<z, e[1]>>] \in Nat /\ up[<<z, e[2]>>] \in Nat /\ down[<<z, e[1]>>] \in Nat /\ down[<<z, e[2]>>] \in Nat
      /\ up[<<z, e[1]>>] = BasicUp(metric)[<<z, e[1]>>] /\ up[<<z, e[2]>>] = BasicUp(metric)[<<z, e[2]>>]
      /\ down[<<z, e[1]>>] = BasicDown(metric)[<<z, e[1]>>] /\ down[<<z, e[2]>>] = BasicDown(metric)[<<z, e[2]>>]
  BY <1>2 DEF BasicWeights, DataTypes
<1> QED BY <1>3 DEF Basic!Sequential!UpOver, Basic!Sequential!DownOver

LEMMA RelaxedAreBasic ==
    ASSUME BasicWeights, DataTypes, NEW e \in Edges, e[1] \notin customized, Below(e[1]) \subseteq customized
    PROVE  /\ Basic!Sequential!UpRelaxed(e) = BasicUp(metric)[e]
           /\ Basic!Sequential!DownRelaxed(e) = BasicDown(metric)[e]
<1> DEFINE U == {up[e]} \cup {Basic!Sequential!UpOver(e, z) : z \in Triangles(e)}
           D == {down[e]} \cup {Basic!Sequential!DownOver(e, z) : z \in Triangles(e)}
<1>1. Basic!Sequential!UpRelaxed(e) = Lowest(U) /\ Basic!Sequential!DownRelaxed(e) = Lowest(D)
  BY SameSequentialNames DEF Basic!Sequential!UpRelaxed, Basic!Sequential!DownRelaxed
<1>2. e[1] \in Nodes /\ metric \in Metrics /\ up[e] = RespectUp(metric)[e] /\ down[e] = RespectDown(metric)[e]
      /\ up[e] \in Nat /\ down[e] \in Nat
  BY EdgeFacts DEF BasicWeights, DataTypes
<1>3. ASSUME NEW z \in Triangles(e)
      PROVE  /\ Basic!Sequential!UpOver(e, z) = BasicDown(metric)[<<z, e[1]>>] + BasicUp(metric)[<<z, e[2]>>]
             /\ Basic!Sequential!DownOver(e, z) = BasicDown(metric)[<<z, e[2]>>] + BasicUp(metric)[<<z, e[1]>>]
             /\ Basic!Sequential!UpOver(e, z) \in Nat /\ Basic!Sequential!DownOver(e, z) \in Nat
  BY OverAreBasic
<1>4. /\ BasicUp(metric)[e] \in Nat /\ BasicUp(metric)[e] <= up[e]
      /\ \A z \in Triangles(e) : BasicUp(metric)[e] <= Basic!Sequential!UpOver(e, z)
      /\ \/ BasicUp(metric)[e] = up[e]
         \/ \E z \in Triangles(e) : BasicUp(metric)[e] = Basic!Sequential!UpOver(e, z)
      /\ BasicDown(metric)[e] \in Nat /\ BasicDown(metric)[e] <= down[e]
      /\ \A z \in Triangles(e) : BasicDown(metric)[e] <= Basic!Sequential!DownOver(e, z)
      /\ \/ BasicDown(metric)[e] = down[e]
         \/ \E z \in Triangles(e) : BasicDown(metric)[e] = Basic!Sequential!DownOver(e, z)
  BY <1>2, <1>3, BasicIsLeast
<1>5. U \in SUBSET Nat /\ BasicUp(metric)[e] \in U /\ \A k \in U : BasicUp(metric)[e] <= k
  BY <1>2, <1>3, <1>4
<1>6. D \in SUBSET Nat /\ BasicDown(metric)[e] \in D /\ \A k \in D : BasicDown(metric)[e] <= k
  BY <1>2, <1>3, <1>4
<1> HIDE DEF U, D
<1> QED BY <1>1, <1>4, <1>5, <1>6, IsLowest

LEMMA BasicWeightsStep ==
    ASSUME BasicWeights, DataTypes, Basic!Sequential!Next, UNCHANGED perfectOnly
    PROVE  BasicWeights'
<1>1. PICK x \in Nodes : Basic!Sequential!CustomizeNode(x)
  BY SameSequentialNames DEF Basic!Sequential!Next
<1>2. /\ x \notin customized /\ Below(x) \subseteq customized
      /\ up' = [e \in Edges |-> IF e[1] = x THEN Basic!Sequential!UpRelaxed(e) ELSE up[e]]
      /\ down' = [e \in Edges |-> IF e[1] = x THEN Basic!Sequential!DownRelaxed(e) ELSE down[e]]
      /\ customized' = customized \cup {x} /\ metric' = metric
      /\ upMod' = upMod /\ downMod' = downMod /\ ws' = ws
  BY <1>1, SameSequentialNames DEF Basic!Sequential!CustomizeNode, perfectOnly
<1>3. \A e \in Edges : e[1] # x => up'[e] = up[e] /\ down'[e] = down[e]
  BY <1>2
<1>4. ASSUME NEW e \in Edges, e[1] = x
      PROVE  up'[e] = BasicUp(metric)[e] /\ down'[e] = BasicDown(metric)[e]
  BY <1>2, <1>4, RelaxedAreBasic
<1> QED BY <1>2, <1>3, <1>4 DEF BasicWeights

-----------------------------------------------------------------------------
(* Triangles above a node, in one direction                                *)

(* Weights are between the distances and what basic customization left,    *)
(* and the edges that are lighter than that are marked.                    *)
Between(w, mod, d, base) ==
    /\ w \in [Edges -> Nat] /\ mod \subseteq Edges
    /\ \A e \in Edges : d[e] <= w[e] /\ w[e] <= base[e] /\ (e \in mod <=> w[e] < base[e])

(* The triangles above a node are relaxed, but for some.                   *)
RelaxedAbove(w, d, base, x, unrelaxed) ==
    \A y \in Graph[x], v \in Graph[x] : v \in Graph[y] /\ <<y, v>> \notin unrelaxed =>
        /\ w[<<x, v>>] <= base[<<x, y>>] + d[<<y, v>>]
        /\ w[<<x, y>>] <= base[<<x, v>>] + d[<<v, y>>]

(* What becomes of weights where one is to be at most n.                   *)
LoweredTo(r, w, d, base, e, n) ==
    /\ Between(r.weight, r.mod, d, base) /\ r.weight[e] <= n
    /\ r = [weight |-> r.weight, mod |-> r.mod]
    /\ \A f \in Edges : r.weight[f] <= w[f] /\ (f # e => r.weight[f] = w[f])

LEMMA LoweredFacts ==
    ASSUME NEW d, NEW base, NEW w, NEW mod, Between(w, mod, d, base),
           \A e \in Edges : d[e] \in Nat /\ base[e] \in Nat,
           NEW e \in Edges, NEW n \in Nat, d[e] <= n
    PROVE  LoweredTo(Perfect!Lowered([weight |-> w, mod |-> mod], e, n), w, d, base, e, n)
<1> USE DEF LoweredTo
<1> DEFINE r == Perfect!Lowered([weight |-> w, mod |-> mod], e, n)
<1>1. w \in [Edges -> Nat] /\ mod \subseteq Edges /\ \A f \in Edges : w[f] \in Nat
  BY DEF Between
<1>2. CASE n < w[e]
  <2>1. r.weight = [w EXCEPT ![e] = n] /\ r.mod = mod \cup {e} /\ r = [weight |-> r.weight, mod |-> r.mod]
    BY <1>2 DEF Perfect!Lowered
  <2> HIDE DEF r
  <2>2. r.weight[e] = n /\ \A f \in Edges : f # e => r.weight[f] = w[f]
    BY <1>1, <2>1
  <2>3. r.weight \in [Edges -> Nat] /\ r.mod \subseteq Edges
    BY <1>1, <2>1
  <2>4. ASSUME NEW f \in Edges
        PROVE  /\ d[f] <= r.weight[f] /\ r.weight[f] <= base[f] /\ (f \in r.mod <=> r.weight[f] < base[f])
               /\ r.weight[f] <= w[f]
    <3>1. CASE f = e
      <4>1. w[e] <= base[e] /\ w[e] \in Nat /\ base[e] \in Nat
        BY <1>1 DEF Between
      <4> QED BY <1>2, <2>1, <2>2, <3>1, <4>1
    <3>2. CASE f # e
      BY <1>1, <2>1, <2>2, <3>2 DEF Between
    <3> QED BY <3>1, <3>2
  <2> QED BY <2>1, <2>2, <2>3, <2>4 DEF Between, r
<1>3. CASE ~(n < w[e])
  <2>1. r = [weight |-> w, mod |-> mod]
    BY <1>3 DEF Perfect!Lowered
  <2>2. r.weight = w /\ r.mod = mod
    BY <2>1
  <2>3. \A f \in Edges : w[f] <= w[f]
    BY <1>1
  <2> HIDE DEF r
  <2> QED BY <1>1, <1>3, <2>1, <2>2, <2>3 DEF r
<1> QED BY <1>2, <1>3

(* What becomes of weights where triangles above x are relaxed.            *)
HalfAfter(r, w, d, base, x, unrelaxed) ==
    /\ Between(r.weight, r.mod, d, base)
    /\ RelaxedAbove(r.weight, d, base, x, unrelaxed)
    /\ \A f \in Edges : f[1] # x => r.weight[f] = w[f]

(* An intermediate and an upper triangle: nothing gets shorter than a      *)
(* shortest path, and one more triangle is done.                           *)
LEMMA HalfRelaxed ==
    ASSUME NEW d, NEW base, Exact(d, base, Edges), NEW w, NEW mod, Between(w, mod, d, base),
           NEW x \in Nodes, NEW y \in Graph[x], NEW v \in Graph[x], v \in Graph[y],
           NEW unrelaxed, RelaxedAbove(w, d, base, x, unrelaxed)
    PROVE  HalfAfter(Perfect!RelaxedBothWays([weight |-> w, mod |-> mod], <<x, y>>, <<x, v>>, d[<<y, v>>], d[<<v, y>>]),
                     w, d, base, x, unrelaxed \ {<<y, v>>})
<1> DEFINE e == <<x, y>>
           f == <<x, v>>
           there == d[<<y, v>>]
           back == d[<<v, y>>]
           first == Perfect!Lowered([weight |-> w, mod |-> mod], f, w[e] + there)
           r == Perfect!Lowered(first, e, first.weight[f] + back)
<1>1. Perfect!RelaxedBothWays([weight |-> w, mod |-> mod], e, f, there, back) = r
  BY DEF Perfect!RelaxedBothWays
<1>2. /\ y \in Nodes /\ v \in Nodes /\ e \in Edges /\ f \in Edges /\ e # f
  <2>1. y \in Nodes /\ v \in Nodes /\ e \in Edges /\ f \in Edges /\ y < v
    BY EdgeFacts
  <2> QED BY <2>1, NodesAreNat
<1>3. ASSUME NEW a \in Nodes, NEW b \in Nodes PROVE d[<<a, b>>] \in Nat
  <2>1. d[<<a, b>>] \in Weight
    BY DEF Exact
  <2> QED BY <2>1, InfAssumption DEF Weight
<1>4. \A g \in Edges : d[g] \in Nat /\ base[g] \in Nat /\ w[g] \in Nat /\ g \in Nodes \X Nodes
  BY <1>3, EdgeFacts DEF Exact, Edges, Between
<1>5. /\ d[f] <= d[e] + there /\ d[e] <= d[f] + back
      /\ there \in Nat /\ back \in Nat
  BY <1>2, <1>3 DEF Exact
<1>6. w[e] <= base[e] /\ w[f] <= base[f] /\ d[e] <= w[e] /\ d[f] <= w[f]
  BY <1>2 DEF Between
<1> HIDE DEF e, f, there, back, r
<1>7. w[e] + there \in Nat /\ d[f] <= w[e] + there
  BY <1>2, <1>4, <1>5, <1>6
<1>8. LoweredTo(first, w, d, base, f, w[e] + there)
  BY <1>2, <1>4, <1>7, LoweredFacts
<1>9. PICK w1, m1 : first = [weight |-> w1, mod |-> m1]
  BY <1>8 DEF LoweredTo
<1>10. /\ Between(w1, m1, d, base) /\ w1[f] <= w[e] + there /\ \A g \in Edges : w1[g] <= w[g] /\ (g # f => w1[g] = w[g])
       /\ w1 \in [Edges -> Nat] /\ r = Perfect!Lowered([weight |-> w1, mod |-> m1], e, w1[f] + back)
  <2>1. first.weight = w1 /\ first.mod = m1
    BY <1>9
  <2> QED BY <1>8, <1>9, <2>1 DEF r, LoweredTo, Between
<1> HIDE DEF first
<1>11. /\ Between(r.weight, r.mod, d, base) /\ r.weight[e] <= w1[f] + back
       /\ \A g \in Edges : r.weight[g] <= w1[g] /\ (g # e => r.weight[g] = w1[g])
  <2>1. PICK n \in Nat : n = w1[f] + back
    BY <1>2, <1>5, <1>10
  <2>2. d[e] <= n
    <3>1. d[f] <= w1[f] /\ w1[f] \in Nat
      BY <1>2, <1>10 DEF Between
    <3> QED BY <1>2, <1>4, <1>5, <2>1, <3>1
  <2>3. LoweredTo(Perfect!Lowered([weight |-> w1, mod |-> m1], e, n), w1, d, base, e, n)
    BY <1>2, <1>4, <1>10, <2>2, LoweredFacts
  <2> QED BY <1>10, <2>1, <2>3 DEF LoweredTo
<1>12. r.weight \in [Edges -> Nat]
  BY <1>11 DEF Between
<1>13. \A g \in Edges : r.weight[g] <= w[g] /\ (g # e /\ g # f => r.weight[g] = w[g])
  <2> SUFFICES ASSUME NEW g \in Edges PROVE r.weight[g] <= w[g] /\ (g # e /\ g # f => r.weight[g] = w[g])
    OBVIOUS
  <2>1. r.weight[g] \in Nat /\ w1[g] \in Nat /\ w[g] \in Nat
    BY <1>4, <1>10, <1>12
  <2> QED BY <1>10, <1>11, <2>1
<1>14. r.weight[f] <= base[e] + there /\ r.weight[e] <= base[f] + back
  <2>1. /\ r.weight[f] \in Nat /\ w1[f] \in Nat /\ w[e] \in Nat /\ base[e] \in Nat /\ base[f] \in Nat
        /\ r.weight[e] \in Nat /\ w[f] \in Nat
    BY <1>2, <1>4, <1>10, <1>12
  <2>2. r.weight[f] <= w1[f] /\ w1[f] <= w[f]
    BY <1>2, <1>10, <1>11
  <2> QED BY <1>5, <1>6, <1>10, <1>11, <2>1, <2>2
<1>15. RelaxedAbove(r.weight, d, base, x, unrelaxed \ {<<y, v>>})
  <2> SUFFICES ASSUME NEW a \in Graph[x], NEW b \in Graph[x], b \in Graph[a], <<a, b>> \notin unrelaxed \ {<<y, v>>}
               PROVE  /\ r.weight[<<x, b>>] <= base[<<x, a>>] + d[<<a, b>>]
                      /\ r.weight[<<x, a>>] <= base[<<x, b>>] + d[<<b, a>>]
    BY DEF RelaxedAbove
  <2>1. CASE a = y /\ b = v
    BY <1>14, <2>1 DEF e, f, there, back
  <2>2. CASE ~(a = y /\ b = v)
    <3>1. <<a, b>> \notin unrelaxed
      BY <2>2
    <3>2. w[<<x, b>>] <= base[<<x, a>>] + d[<<a, b>>] /\ w[<<x, a>>] <= base[<<x, b>>] + d[<<b, a>>]
      BY <3>1 DEF RelaxedAbove
    <3>3. a \in Nodes /\ b \in Nodes /\ <<x, a>> \in Edges /\ <<x, b>> \in Edges
      BY EdgeFacts
    <3>4. /\ r.weight[<<x, a>>] <= w[<<x, a>>] /\ r.weight[<<x, b>>] <= w[<<x, b>>]
          /\ r.weight[<<x, a>>] \in Nat /\ r.weight[<<x, b>>] \in Nat /\ w[<<x, a>>] \in Nat /\ w[<<x, b>>] \in Nat
          /\ base[<<x, a>>] \in Nat /\ base[<<x, b>>] \in Nat /\ d[<<a, b>>] \in Nat /\ d[<<b, a>>] \in Nat
      BY <1>3, <1>4, <1>12, <1>13, <3>3
    <3> QED BY <3>2, <3>4
  <2> QED BY <2>1, <2>2
<1>16. \A g \in Edges : g[1] # x => r.weight[g] = w[g]
  BY <1>13 DEF e, f
<1>17. HalfAfter(r, w, d, base, x, unrelaxed \ {<<y, v>>})
  BY <1>11, <1>15, <1>16 DEF HalfAfter
<1> QED BY <1>1, <1>17 DEF e, f, there, back

(* When all triangles above a node are relaxed its edges have the          *)
(* distances of their ends: a shortest path leaves the node over one of    *)
(* them, and goes on between two neighbors, which are adjacent.            *)
LEMMA HalfDone ==
    ASSUME NEW d, NEW base, Exact(d, base, Edges), NEW w, NEW mod, Between(w, mod, d, base),
           NEW x \in Nodes, RelaxedAbove(w, d, base, x, {}), NEW v \in Graph[x]
    PROVE  w[<<x, v>>] = d[<<x, v>>]
<1>1. v \in Nodes /\ x < v /\ <<x, v>> \in Edges /\ \A y \in Graph[x] : y \in Nodes /\ <<x, y>> \in Edges
  BY EdgeFacts
<1>2. ASSUME NEW a \in Nodes, NEW b \in Nodes PROVE d[<<a, b>>] \in Nat /\ d[<<a, b>>] <= Inf
  <2>1. d[<<a, b>>] \in Weight
    BY DEF Exact
  <2> QED BY <2>1, InfAssumption DEF Weight
<1>3. \A e \in Edges : w[e] \in Nat /\ base[e] \in Nat /\ d[e] <= w[e] /\ w[e] <= base[e] /\ base[e] <= Inf
  BY DEF Between, Exact
<1> SUFFICES w[<<x, v>>] <= d[<<x, v>>]
  BY <1>1, <1>2, <1>3
<1>4. CASE ~(d[<<x, v>>] < Inf)
  BY <1>1, <1>2, <1>3, <1>4, InfAssumption
<1>5. CASE d[<<x, v>>] < Inf
  <2>1. PICK y \in Graph[x] : base[<<x, y>>] + d[<<y, v>>] <= d[<<x, v>>]
    BY <1>1, <1>5 DEF Exact
  <2>2. /\ w[<<x, v>>] \in Nat /\ base[<<x, y>>] \in Nat /\ d[<<y, v>>] \in Nat /\ d[<<x, v>>] \in Nat
        /\ w[<<x, v>>] <= base[<<x, v>>] /\ base[<<x, v>>] \in Nat
    BY <1>1, <1>2, <1>3
  <2>3. CASE y = v
    <3>1. d[<<y, v>>] = 0
      BY <1>1, <2>3 DEF Exact
    <3> QED BY <2>1, <2>2, <2>3, <3>1
  <2>4. CASE y # v
    <3>1. v \in Graph[y] \/ y \in Graph[v]
      <4>1. y \in Nat /\ v \in Nat
        BY <1>1, NodesAreNat
      <4>2. y < v \/ v < y
        BY <2>4, <4>1
      <4> QED BY <4>2, GraphAssumption DEF Chordal
    <3>2. w[<<x, v>>] <= base[<<x, y>>] + d[<<y, v>>]
      BY <3>1 DEF RelaxedAbove
    <3> QED BY <2>1, <2>2, <3>2
  <2> QED BY <2>3, <2>4
<1> QED BY <1>4, <1>5

-----------------------------------------------------------------------------
(* The perfect customization, with all its threads                         *)

LeftOpen(x) == \E c \in Cell : x \in Rest(c)

(* What a thread that has entered a node has done there.                   *)
Entered(t, x) ==
    /\ ws[t] = [v \in Nodes |-> IF v \in Graph[x] THEN x ELSE None]
    /\ todo[t] \subseteq {s \in Edges : s[1] \in Graph[x] /\ s[2] \in Graph[x]}
    /\ RelaxedAbove(up, Distances(metric), BasicUp(metric), x, todo[t])
    /\ RelaxedAbove(down, Back(Distances(metric)), BasicDown(metric), x, todo[t])

PerfectData ==
    /\ metric \in Metrics
    /\ Between(up, upMod, Distances(metric), BasicUp(metric))
    /\ Between(down, downMod, Back(Distances(metric)), BasicDown(metric))
    /\ \A e \in Edges : ~LeftOpen(e[1]) => up[e] = Distances(metric)[e] /\ down[e] = Back(Distances(metric))[e]
    /\ ws \in [Threads -> [Nodes -> Nodes \cup {None}]] /\ todo = [t \in Threads |-> todo[t]]
    /\ \A t \in Threads : /\ ~loaded[t] => ws[t] = [v \in Nodes |-> None]
                          /\ loaded[t] => Entered(t, current[Top(t)] - 1)

(* The triangles have a first one.                                         *)
LEMMA FirstFacts ==
    ASSUME NEW S \in SUBSET Edges, S # {}
    PROVE  Perfect!First(S) \in S
<1>1. \A p \in S : p[1] \in Nat /\ p[2] \in Nat
  <2>1. \A p \in Edges : p[1] \in Nodes /\ p[2] \in Nodes
    BY DEF Edges
  <2> QED BY <2>1, NodesAreNat
<1> DEFINE A == {p[1] : p \in S}
<1>2. PICK a \in A : \A n \in A : a <= n
  <2>1. A \in SUBSET Nat /\ A # {}
    BY <1>1
  <2> HIDE DEF A
  <2> QED BY <2>1, LeastElement
<1> DEFINE B == {p[2] : p \in {q \in S : q[1] = a}}
<1>3. PICK b \in B : \A n \in B : b <= n
  <2>1. B \in SUBSET Nat /\ B # {}
    BY <1>1
  <2> HIDE DEF A, B
  <2> QED BY <2>1, LeastElement
<1>4. PICK p \in S : p[1] = a /\ p[2] = b
  OBVIOUS
<1>5. ASSUME NEW q \in S PROVE p[1] < q[1] \/ (p[1] = q[1] /\ p[2] <= q[2])
  <2>1. a <= q[1] /\ (q[1] = a => b <= q[2])
    BY <1>2, <1>3
  <2>2. a \in Nat /\ q[1] \in Nat
    BY <1>1, <1>4
  <2> QED BY <1>4, <2>1, <2>2
<1> QED BY <1>5 DEF Perfect!First

(* The call for a cell does not leave it.                                  *)
LEMMA RestInside ==
    ASSUME PerfectInv, NEW c \in Cell
    PROVE  Rest(c) \subseteq NodesOf(c) /\ (state[c] \in {"spawned", "running"} => current[c] \in Nat)
<1>1. Retreat(c) /\ current[c] \in Nat
  BY DEF PerfectInv, PerfectTypes
<1>2. /\ Cells[c].first \in Nat /\ End(c) \in Nat /\ Perfect!LastNode(c) \in Nat
  BY CellFacts, LastNodeFacts
<1>3. state[c] \in {"spawned", "running"} => current[c] <= End(c)
  BY <1>1, <1>2 DEF Retreat
<1> QED BY <1>1, <1>2, <1>3 DEF Rest, NodesOf

(* Higher neighbors of a node that is being processed have been.           *)
LEMMA HigherAreFinished ==
    ASSUME PerfectInv, NEW t \in Threads, stack[t] # <<>>, state[Top(t)] = "running",
           current[Top(t)] > Perfect!LastNode(Top(t)), NEW x, x = current[Top(t)] - 1, NEW y \in Graph[x]
    PROVE  ~LeftOpen(y)
<1>1. PICK c \in Cell : c = Top(t)
  BY TopFacts DEF PerfectInv
<1>2. x \in Nodes /\ x \in Rest(c) /\ x \in Nat /\ current[c] \in Nat
  BY <1>1, AtWorkAbove, NodesAreNat
<1>3. y \in Nodes /\ x < y /\ x \in Below(y) /\ y \in Nat
  <2>1. y \in Nodes /\ x < y
    BY <1>2, EdgeFacts
  <2> QED BY <1>2, <2>1, NodesAreNat DEF Below
<1> SUFFICES ASSUME NEW d \in Cell, y \in Rest(d) PROVE FALSE
  BY DEF LeftOpen
<1>4. CASE d = c
  BY <1>1, <1>2, <1>3, <1>4 DEF Rest
<1>5. CASE d # c
  <2>1. y \in NodesOf(d) /\ current[d] \in Nat /\ state[d] \in {"spawned", "running"}
    BY RestInside DEF Rest
  <2>2. x \in NodesOf(d)
    BY <1>3, <2>1, CellsAssumption
  <2>3. Cells[d].first \in Nat /\ End(d) \in Nat
    BY CellFacts
  <2>4. Cells[d].first <= x /\ y <= current[d] - 1
    BY <2>1, <2>2, <2>3 DEF Rest, NodesOf
  <2>5. x \in Rest(d)
    BY <1>2, <1>3, <2>1, <2>3, <2>4 DEF Rest
  <2>6. Rest(d) \cap Rest(c) = {}
    BY <1>5 DEF PerfectInv, RestApart
  <2> QED BY <1>2, <2>5, <2>6
<1> QED BY <1>4, <1>5

(* The steps on the tree leave no node behind.                             *)
LEMMA NoneForgotten ==
    ASSUME PerfectInv, NEW t \in Threads, Perfect!Take(t) \/ Perfect!SpawnSubs(t) \/ Perfect!Return(t),
           NEW x, LeftOpen(x)
    PROVE  LeftOpen(x)'
<1>1. PerfectTypes /\ StacksApart /\ (\A d \in Cell : Retreat(d))
  BY DEF PerfectInv
<1>2. PICK c \in Cell : x \in Rest(c)
  BY DEF LeftOpen
<1>3. state[c] \in {"spawned", "running"} /\ x \in Cells[c].first .. current[c] - 1
  BY <1>2 DEF Rest
<1> SUFFICES \E d \in Cell : x \in Rest(d)'
  BY DEF LeftOpen
<1>4. CASE Perfect!Take(t)
  <2>1. current' = current /\ \E d \in Cell : state' = [state EXCEPT ![d] = "running"]
    BY <1>4, SamePerfectNames DEF Perfect!Take
  <2>2. state'[c] \in {"spawned", "running"}
    BY <1>1, <1>3, <2>1 DEF PerfectTypes
  <2> QED BY <1>3, <2>1, <2>2 DEF Rest
<1>5. CASE Perfect!Return(t)
  <2>1. stack[t] # <<>>
    BY <1>5 DEF Perfect!Return, Perfect!Busy
  <2>2. PICK d \in Cell : d = Top(t) /\ state[d] \in Held
    BY <1>1, <2>1, TopFacts
  <2>3. /\ current' = current /\ state' = [state EXCEPT ![d] = "done"]
        /\ state[d] = "waiting" \/ (Perfect!IsSmall(d) /\ current[d] = Perfect!LastNode(d))
    BY <1>5, <2>2, SamePerfectNames DEF Perfect!Return
  <2>4. c # d
    <3> SUFFICES ASSUME c = d PROVE FALSE
      OBVIOUS
    <3>1. Perfect!LastNode(d) = Cells[d].first
      BY <1>3, <2>3 DEF Perfect!LastNode
    <3>2. Cells[d].first \in Nat
      BY CellFacts
    <3> QED BY <1>3, <2>3, <3>1, <3>2
  <2>5. state'[c] = state[c]
    BY <1>1, <2>3, <2>4 DEF PerfectTypes
  <2> QED BY <1>3, <2>3, <2>5 DEF Rest
<1>6. CASE Perfect!SpawnSubs(t)
  <2>1. stack[t] # <<>>
    BY <1>6 DEF Perfect!SpawnSubs, Perfect!Busy
  <2>2. PICK d \in Cell : d = Top(t)
    BY <1>1, <2>1, TopFacts
  <2>3. /\ state[d] = "running" /\ current[d] = Perfect!LastNode(d) /\ ~Perfect!IsSmall(d)
        /\ state' = [b \in Cell |-> IF b = d THEN "waiting" ELSE IF b \in Subs(d) THEN "spawned" ELSE state[b]]
        /\ current' = current
    BY <1>6, <2>2, SamePerfectNames DEF Perfect!SpawnSubs
  <2>4. CASE c = d
    <3>1. Len(Cells[d].sub) \in 0 .. Len(Cells[d].sub) /\ DOMAIN Cells[d].sub = 1 .. Len(Cells[d].sub)
      BY CellFacts
    <3>2. x \in Cells[d].first .. StartOf(d, Len(Cells[d].sub)) - 1
      BY <1>3, <2>3, <2>4, LastNodeFacts
    <3>3. PICK i \in 1 .. Len(Cells[d].sub) : x \in NodesOf(Cells[d].sub[i])
      BY <3>1, <3>2, SubsCover
    <3>4. PICK b \in Cell : b = Cells[d].sub[i]
      BY <3>3, CellFacts
    <3>5. state[b] = "idle" /\ b \in Subs(d)
      <4>1. Retreat(d)
        BY <1>1
      <4> QED BY <2>3, <3>1, <3>3, <3>4, <4>1 DEF Retreat, Subs
    <3>6. current[b] = End(b) /\ b # d
      BY <1>1, <2>3, <3>5 DEF Retreat
    <3>7. x \in Rest(b)'
      BY <2>3, <3>3, <3>4, <3>5, <3>6 DEF Rest, NodesOf
    <3> QED BY <3>4, <3>7
  <2>5. CASE c # d
    <3>1. state'[c] \in {"spawned", "running"}
      BY <1>3, <2>3, <2>5
    <3> QED BY <1>3, <2>3, <3>1 DEF Rest
  <2> QED BY <2>4, <2>5
<1> QED BY <1>4, <1>5, <1>6

(* A step of one thread leaves alone what another one is doing.            *)
LEMMA PerfectUndisturbed ==
    ASSUME PerfectInv, PerfectData, NEW t \in Threads, Perfect!Step(t), NEW u \in Threads, u # t
    PROVE  /\ loaded'[u] = loaded[u] /\ todo'[u] = todo[u] /\ ws'[u] = ws[u]
           /\ loaded[u] => Top(u)' = Top(u) /\ current'[Top(u)] = current[Top(u)]
<1>1. PerfectTypes /\ StacksApart /\ WorkingAbove(u)
  BY DEF PerfectInv
<1>2. /\ stack' = stack \/ \E s : stack' = [stack EXCEPT ![t] = s]
      /\ current' = current \/ (stack[t] # <<>> /\ \E x : current' = [current EXCEPT ![Top(t)] = x])
  BY SamePerfectNames DEF Perfect!Step, Perfect!Take, Perfect!SpawnSubs, Perfect!Return, Perfect!Load,
                          Perfect!RelaxTriangle, Perfect!Unload, Perfect!Running, Perfect!Busy, Perfect!treeVars
<1>3. /\ loaded' = loaded \/ \E b : loaded' = [loaded EXCEPT ![t] = b]
      /\ todo' = todo \/ \E T : todo' = [todo EXCEPT ![t] = T]
      /\ ws' = ws \/ \E w : ws' = [ws EXCEPT ![t] = w]
  BY DEF Perfect!Step, Perfect!Take, Perfect!SpawnSubs, Perfect!Return, Perfect!Load, Perfect!RelaxTriangle,
         Perfect!Unload
<1>4. loaded'[u] = loaded[u] /\ todo'[u] = todo[u] /\ ws'[u] = ws[u]
  BY <1>1, <1>3 DEF PerfectTypes, PerfectData
<1>5. ASSUME loaded[u] PROVE Top(u)' = Top(u) /\ current'[Top(u)] = current[Top(u)]
  <2>1. stack'[u] = stack[u]
    BY <1>1, <1>2 DEF StacksApart
  <2>2. stack[u] # <<>>
    BY <1>1, <1>5 DEF WorkingAbove
  <2>3. Top(u)' = Top(u)
    BY <2>1 DEF Top
  <2>4. Top(u) \in Cell /\ (stack[t] # <<>> => Top(u) # Top(t))
    BY <1>1, <2>2, TopFacts
  <2>5. current'[Top(u)] = current[Top(u)]
    BY <1>1, <1>2, <2>4 DEF PerfectTypes
  <2> QED BY <2>3, <2>5
<1> QED BY <1>4, <1>5

(* The node of a thread.                                                   *)
LEMMA LoadedNode ==
    ASSUME PerfectInv, NEW t \in Threads, loaded[t]
    PROVE  /\ stack[t] # <<>> /\ state[Top(t)] = "running" /\ current[Top(t)] > Perfect!LastNode(Top(t))
           /\ Top(t) \in Cell /\ current[Top(t)] - 1 \in Nodes
<1>1. stack[t] # <<>> /\ state[Top(t)] = "running" /\ current[Top(t)] > Perfect!LastNode(Top(t))
  BY DEF PerfectInv, WorkingAbove
<1> QED BY <1>1, AtWorkAbove

(* What another thread has done at its node does not depend on the edges   *)
(* of other nodes.                                                         *)
LEMMA StillEntered ==
    ASSUME NEW u \in Threads, NEW x \in Nodes, Entered(u, x),
           todo'[u] = todo[u], ws'[u] = ws[u], metric' = metric,
           \A e \in Edges : e[1] = x => up'[e] = up[e] /\ down'[e] = down[e]
    PROVE  Entered(u, x)'
<1>1. \A v \in Graph[x] : up'[<<x, v>>] = up[<<x, v>>] /\ down'[<<x, v>>] = down[<<x, v>>]
  BY EdgeFacts
<1> QED BY <1>1 DEF Entered, RelaxedAbove

LEMMA OthersStillEntered ==
    ASSUME PerfectInv, PerfectData, NEW t \in Threads, Perfect!Step(t), metric' = metric,
           NEW u \in Threads, u # t, loaded[u],
           \A e \in Edges : e[1] = current[Top(u)] - 1 => up'[e] = up[e] /\ down'[e] = down[e]
    PROVE  Entered(u, current[Top(u)] - 1)'
<1>1. /\ todo'[u] = todo[u] /\ ws'[u] = ws[u] /\ Top(u)' = Top(u) /\ current'[Top(u)] = current[Top(u)]
  BY PerfectUndisturbed
<1>2. PICK x \in Nodes : x = current[Top(u)] - 1
  BY LoadedNode
<1>3. (current[Top(u)] - 1)' = x
  BY <1>1, <1>2
<1>4. Entered(u, x)
  BY <1>2 DEF PerfectData
<1>5. Entered(u, x)'
  BY <1>1, <1>2, <1>4, StillEntered
<1> QED BY <1>3, <1>5

LEMMA TreeStepData ==
    ASSUME PerfectInv, PerfectData, NEW t \in Threads, Perfect!Take(t) \/ Perfect!SpawnSubs(t) \/ Perfect!Return(t)
    PROVE  PerfectData'
<1>1. /\ metric' = metric /\ up' = up /\ down' = down /\ upMod' = upMod /\ downMod' = downMod
      /\ loaded' = loaded /\ todo' = todo /\ ws' = ws
  BY DEF Perfect!Take, Perfect!SpawnSubs, Perfect!Return, Perfect!weightVars
<1>2. \A x : LeftOpen(x) => LeftOpen(x)'
  BY NoneForgotten
<1>3. ~loaded[t]
  <2> SUFFICES ASSUME loaded[t] PROVE FALSE
    OBVIOUS
  <2>1. PICK c \in Cell : c = Top(t) /\ state[c] = "running" /\ current[c] > Perfect!LastNode(c) /\ stack[t] # <<>>
    BY LoadedNode
  <2>2. Perfect!LastNode(c) \in Nat
    BY LastNodeFacts
  <2>3. current[c] = Perfect!LastNode(c) \/ state[c] = "waiting"
    BY <2>1, SamePerfectNames DEF Perfect!Take, Perfect!SpawnSubs, Perfect!Return, Perfect!Busy
  <2> QED BY <2>1, <2>2, <2>3
<1>4. \A u \in Threads : loaded'[u] => Entered(u, current[Top(u)] - 1)'
  <2> SUFFICES ASSUME NEW u \in Threads, loaded[u] PROVE Entered(u, current[Top(u)] - 1)'
    BY <1>1
  <2> QED BY <1>1, <1>3, OthersStillEntered DEF Perfect!Step
<1> QED BY <1>1, <1>2, <1>4 DEF PerfectData

LEMMA LoadPerfectData ==
    ASSUME PerfectInv, PerfectData, NEW t \in Threads, Perfect!Load(t)
    PROVE  PerfectData'
<1>1. /\ stack[t] # <<>> /\ state[Top(t)] = "running" /\ current[Top(t)] > Perfect!LastNode(Top(t)) /\ ~loaded[t]
  BY SamePerfectNames DEF Perfect!Load, Perfect!Running, Perfect!Busy
<1>2. PICK x \in Nodes : x = current[Top(t)] - 1
  BY <1>1, AtWorkAbove
<1> DEFINE entered == [v \in Nodes |-> IF v \in Graph[x] THEN x ELSE ws[t][v]]
<1>3. /\ ws' = [ws EXCEPT ![t] = entered]
      /\ todo' = [todo EXCEPT ![t] = {o \in Edges : o[1] \in Graph[x] /\ entered[o[2]] # None}]
      /\ loaded' = [loaded EXCEPT ![t] = TRUE]
      /\ metric' = metric /\ up' = up /\ down' = down /\ upMod' = upMod /\ downMod' = downMod
      /\ state' = state /\ current' = current /\ stack' = stack
  BY <1>2, SamePerfectNames DEF Perfect!Load, Perfect!Node, Perfect!weightVars, Perfect!treeVars
<1>4. ws[t] = [v \in Nodes |-> None]
  BY <1>1 DEF PerfectData
<1>5. /\ entered = [v \in Nodes |-> IF v \in Graph[x] THEN x ELSE None]
      /\ entered \in [Nodes -> Nodes \cup {None}]
      /\ \A o \in Edges : entered[o[2]] # None <=> o[2] \in Graph[x]
  <2>1. entered = [v \in Nodes |-> IF v \in Graph[x] THEN x ELSE None]
    BY <1>4
  <2>2. x # None
    BY NodesAreNat DEF None
  <2>3. \A o \in Edges : o[2] \in Nodes
    BY DEF Edges
  <2> HIDE DEF entered
  <2> QED BY <2>1, <2>2, <2>3
<1> HIDE DEF entered
<1>6. loaded \in [Threads -> BOOLEAN] /\ ws \in [Threads -> [Nodes -> Nodes \cup {None}]] /\ todo = [u \in Threads |-> todo[u]]
  BY DEF PerfectInv, PerfectTypes, PerfectData
<1>7. /\ ws'[t] = entered /\ todo'[t] = {o \in Edges : o[1] \in Graph[x] /\ o[2] \in Graph[x]}
      /\ loaded'[t] /\ (current[Top(t)] - 1)' = x
  <2>1. (current[Top(t)] - 1)' = x
    BY <1>2, <1>3 DEF Top
  <2>2. todo'[t] = {o \in Edges : o[1] \in Graph[x] /\ entered[o[2]] # None}
    BY <1>3, <1>6
  <2> QED BY <1>3, <1>5, <1>6, <2>1, <2>2
<1>8. Entered(t, x)'
  <2>1. \A y \in Graph[x], v \in Graph[x] : v \in Graph[y] => <<y, v>> \in todo'[t]
    <3>1. ASSUME NEW y \in Graph[x], NEW v \in Graph[y] PROVE <<y, v>> \in Edges
      BY EdgeFacts
    <3> QED BY <1>7, <3>1
  <2> QED BY <1>5, <1>7, <2>1 DEF Entered, RelaxedAbove
<1>9. \A u \in Threads : /\ ~loaded'[u] => ws'[u] = [v \in Nodes |-> None]
                         /\ loaded'[u] => Entered(u, current[Top(u)] - 1)'
  <2> SUFFICES ASSUME NEW u \in Threads
               PROVE  /\ ~loaded'[u] => ws'[u] = [v \in Nodes |-> None]
                      /\ loaded'[u] => Entered(u, current[Top(u)] - 1)'
    OBVIOUS
  <2>1. CASE u = t
    BY <1>7, <1>8, <2>1
  <2>2. CASE u # t
    <3>1. loaded'[u] = loaded[u] /\ ws'[u] = ws[u]
      BY <2>2, PerfectUndisturbed DEF Perfect!Step
    <3>2. loaded[u] => Entered(u, current[Top(u)] - 1)'
      BY <1>3, <2>2, OthersStillEntered DEF Perfect!Step
    <3> QED BY <3>1, <3>2 DEF PerfectData
  <2> QED BY <2>1, <2>2
<1>10. \A y : LeftOpen(y)' <=> LeftOpen(y)
  BY <1>3 DEF LeftOpen, Rest
<1>11. ws' \in [Threads -> [Nodes -> Nodes \cup {None}]] /\ todo' = [u \in Threads |-> todo'[u]]
  BY <1>3, <1>5, <1>6
<1> QED BY <1>3, <1>9, <1>10, <1>11 DEF PerfectData

LEMMA RelaxPerfectData ==
    ASSUME PerfectInv, PerfectData, NEW t \in Threads, Perfect!RelaxTriangle(t)
    PROVE  PerfectData'
<1>1. /\ stack[t] # <<>> /\ state[Top(t)] = "running" /\ current[Top(t)] > Perfect!LastNode(Top(t))
      /\ loaded[t] /\ todo[t] # {}
  BY SamePerfectNames DEF Perfect!RelaxTriangle, Perfect!Running, Perfect!Busy
<1>2. PICK x \in Nodes : x = current[Top(t)] - 1 /\ x \in Rest(Top(t)) /\ Top(t) \in Cell
  BY <1>1, AtWorkAbove
<1>3. Entered(t, x)
  BY <1>1, <1>2 DEF PerfectData
<1>4. PICK y \in Graph[x], v \in Graph[x] : v \in Graph[y] /\ <<y, v>> \in Edges /\ <<y, v>> = Perfect!First(todo[t])
  <2>1. todo[t] \subseteq {s \in Edges : s[1] \in Graph[x] /\ s[2] \in Graph[x]}
    BY <1>3 DEF Entered
  <2>2. Perfect!First(todo[t]) \in todo[t]
    BY <1>1, <2>1, FirstFacts
  <2>3. PICK s \in Edges : s = Perfect!First(todo[t]) /\ s[1] \in Graph[x] /\ s[2] \in Graph[x]
    BY <2>1, <2>2
  <2> QED BY <2>3, EdgeFacts
<1>5. y \in Nodes /\ v \in Nodes
  BY <1>2, EdgeFacts
<1>6. ws[t][v] = x
  BY <1>3, <1>4, <1>5 DEF Entered
<1> DEFINE d == Distances(metric)
           b == Back(d)
           upwards == Perfect!RelaxedBothWays([weight |-> up, mod |-> upMod], <<x, y>>, <<x, v>>, d[<<y, v>>], d[<<v, y>>])
           downwards == Perfect!RelaxedBothWays([weight |-> down, mod |-> downMod], <<x, y>>, <<x, v>>, b[<<y, v>>], b[<<v, y>>])
<1>7. /\ up[<<y, v>>] = d[<<y, v>>] /\ up[<<y, v>>] = b[<<v, y>>]
      /\ down[<<y, v>>] = b[<<y, v>>] /\ down[<<y, v>>] = d[<<v, y>>]
  <2>1. ~LeftOpen(y)
    BY <1>1, <1>2, <1>4, HigherAreFinished
  <2>2. up[<<y, v>>] = d[<<y, v>>] /\ down[<<y, v>>] = b[<<y, v>>]
    BY <1>4, <2>1 DEF PerfectData
  <2>3. b[<<y, v>>] = d[<<v, y>>] /\ b[<<v, y>>] = d[<<y, v>>]
    BY <1>5 DEF Back
  <2> QED BY <2>2, <2>3
<1>8. /\ up' = upwards.weight /\ upMod' = upwards.mod /\ down' = downwards.weight /\ downMod' = downwards.mod
      /\ todo' = [todo EXCEPT ![t] = @ \ {<<y, v>>}]
      /\ metric' = metric /\ loaded' = loaded /\ ws' = ws
      /\ state' = state /\ current' = current /\ stack' = stack
  <2>1. PICK s : s = Perfect!First(todo[t])
    OBVIOUS
  <2>2. s = <<y, v>> /\ s[1] = y /\ s[2] = v
    BY <1>4, <2>1
  <2>3. <<Perfect!Node(t), s[1]>> = <<x, y>> /\ <<ws[t][s[2]], s[2]>> = <<x, v>>
    BY <1>2, <1>6, <2>2, SamePerfectNames DEF Perfect!Node
  <2> HIDE DEF d, b
  <2>4. LET e == <<Perfect!Node(t), s[1]>>
            f == <<ws[t][s[2]], s[2]>>
            u == Perfect!RelaxedBothWays([weight |-> up, mod |-> upMod], e, f, up[s], down[s])
            w == Perfect!RelaxedBothWays([weight |-> down, mod |-> downMod], e, f, down[s], up[s])
        IN  /\ up' = u.weight /\ upMod' = u.mod /\ down' = w.weight /\ downMod' = w.mod
            /\ todo' = [todo EXCEPT ![t] = @ \ {s}]
            /\ metric' = metric /\ loaded' = loaded /\ ws' = ws
            /\ state' = state /\ current' = current /\ stack' = stack
    BY <2>1 DEF Perfect!RelaxTriangle, Perfect!treeVars
  <2>5. /\ up[s] = d[<<y, v>>] /\ up[s] = b[<<v, y>>] /\ down[s] = b[<<y, v>>] /\ down[s] = d[<<v, y>>]
    BY <1>7, <2>2
  <2>6. /\ Perfect!RelaxedBothWays([weight |-> up, mod |-> upMod], <<Perfect!Node(t), s[1]>>, <<ws[t][s[2]], s[2]>>, up[s], down[s]) = upwards
        /\ Perfect!RelaxedBothWays([weight |-> down, mod |-> downMod], <<Perfect!Node(t), s[1]>>, <<ws[t][s[2]], s[2]>>, down[s], up[s]) = downwards
    BY <2>3, <2>5
  <2> HIDE DEF upwards, downwards
  <2> QED BY <2>2, <2>4, <2>6
<1>9. metric \in Metrics /\ Between(up, upMod, d, BasicUp(metric)) /\ Between(down, downMod, b, BasicDown(metric))
      /\ RelaxedAbove(up, d, BasicUp(metric), x, todo[t]) /\ RelaxedAbove(down, b, BasicDown(metric), x, todo[t])
  BY <1>3 DEF PerfectData, Entered
<1>10. Exact(d, BasicUp(metric), Edges) /\ Exact(b, BasicDown(metric), Edges)
  BY <1>9, UpIsExact, DownIsExact
<1> HIDE DEF d, b
<1> HIDE DEF upwards, downwards
<1>11. HalfAfter(upwards, up, d, BasicUp(metric), x, todo[t] \ {<<y, v>>})
  BY <1>4, <1>9, <1>10, HalfRelaxed DEF upwards
<1>12. HalfAfter(downwards, down, b, BasicDown(metric), x, todo[t] \ {<<y, v>>})
  BY <1>4, <1>9, <1>10, HalfRelaxed DEF downwards
<1>13. /\ Between(upwards.weight, upwards.mod, d, BasicUp(metric))
       /\ RelaxedAbove(upwards.weight, d, BasicUp(metric), x, todo[t] \ {<<y, v>>})
       /\ \A f \in Edges : f[1] # x => upwards.weight[f] = up[f]
  BY <1>11 DEF HalfAfter
<1>14. /\ Between(downwards.weight, downwards.mod, b, BasicDown(metric))
       /\ RelaxedAbove(downwards.weight, b, BasicDown(metric), x, todo[t] \ {<<y, v>>})
       /\ \A f \in Edges : f[1] # x => downwards.weight[f] = down[f]
  BY <1>12 DEF HalfAfter
<1>15. /\ Between(up, upMod, d, BasicUp(metric))' /\ Between(down, downMod, b, BasicDown(metric))'
       /\ \A e \in Edges : e[1] # x => up'[e] = up[e] /\ down'[e] = down[e]
  BY <1>8, <1>13, <1>14 DEF d, b
<1>16. todo = [u \in Threads |-> todo[u]]
  BY DEF PerfectData
<1>17. todo'[t] = todo[t] \ {<<y, v>>}
  BY <1>8, <1>16
<1>18. Entered(t, x)'
  <2>1. ws'[t] = [z \in Nodes |-> IF z \in Graph[x] THEN x ELSE None]
    BY <1>3, <1>8 DEF Entered
  <2>2. todo'[t] \subseteq {s \in Edges : s[1] \in Graph[x] /\ s[2] \in Graph[x]}
    BY <1>3, <1>17 DEF Entered
  <2>3. RelaxedAbove(up', d, BasicUp(metric), x, todo'[t]) /\ RelaxedAbove(down', b, BasicDown(metric), x, todo'[t])
    BY <1>8, <1>13, <1>14, <1>17
  <2> QED BY <1>8, <2>1, <2>2, <2>3 DEF Entered, d, b
<1>19. \A u \in Threads : /\ ~loaded'[u] => ws'[u] = [z \in Nodes |-> None]
                          /\ loaded'[u] => Entered(u, current[Top(u)] - 1)'
  <2> SUFFICES ASSUME NEW u \in Threads
               PROVE  /\ ~loaded'[u] => ws'[u] = [z \in Nodes |-> None]
                      /\ loaded'[u] => Entered(u, current[Top(u)] - 1)'
    OBVIOUS
  <2>1. CASE u = t
    <3>1. (current[Top(u)] - 1)' = x
      BY <1>2, <1>8, <2>1 DEF Top
    <3> QED BY <1>1, <1>8, <1>18, <2>1, <3>1
  <2>2. CASE u # t
    <3>1. ~loaded'[u] => ws'[u] = [z \in Nodes |-> None]
      BY <1>8 DEF PerfectData
    <3>2. ASSUME loaded[u] PROVE Entered(u, current[Top(u)] - 1)'
      <4>1. current[Top(u)] - 1 # x
        BY <1>1, <1>2, <2>2, <3>2, PerfectAccess
      <4>2. \A e \in Edges : e[1] = current[Top(u)] - 1 => up'[e] = up[e] /\ down'[e] = down[e]
        BY <1>15, <4>1
      <4> QED BY <1>8, <2>2, <3>2, <4>2, OthersStillEntered DEF Perfect!Step
    <3> QED BY <1>8, <3>1, <3>2
  <2> QED BY <2>1, <2>2
<1>20. \A z : LeftOpen(z)' <=> LeftOpen(z)
  BY <1>8 DEF LeftOpen, Rest
<1>21. \A e \in Edges : ~LeftOpen(e[1])' => up'[e] = d[e] /\ down'[e] = b[e]
  <2> SUFFICES ASSUME NEW e \in Edges, ~LeftOpen(e[1]) PROVE up'[e] = d[e] /\ down'[e] = b[e]
    BY <1>20
  <2>1. LeftOpen(x)
    BY <1>2 DEF LeftOpen
  <2>2. up'[e] = up[e] /\ down'[e] = down[e]
    BY <1>15, <2>1
  <2> QED BY <2>2 DEF PerfectData, d, b
<1>22. ws' \in [Threads -> [Nodes -> Nodes \cup {None}]] /\ todo' = [u \in Threads |-> todo'[u]]
  <2>1. ws \in [Threads -> [Nodes -> Nodes \cup {None}]]
    BY DEF PerfectData
  <2> QED BY <1>8, <1>16, <2>1
<1> QED BY <1>8, <1>9, <1>15, <1>19, <1>21, <1>22 DEF PerfectData, d, b

LEMMA UnloadPerfectData ==
    ASSUME PerfectInv, PerfectData, NEW t \in Threads, Perfect!Unload(t)
    PROVE  PerfectData'
<1>1. /\ stack[t] # <<>> /\ state[Top(t)] = "running" /\ current[Top(t)] > Perfect!LastNode(Top(t))
      /\ loaded[t] /\ todo[t] = {}
  BY SamePerfectNames DEF Perfect!Unload, Perfect!Running, Perfect!Busy
<1>2. PICK c \in Cell : c = Top(t)
  BY <1>1, AtWorkAbove
<1>3. PICK x \in Nodes : x = current[c] - 1 /\ x \in Rest(c)
  BY <1>1, <1>2, AtWorkAbove
<1>4. Entered(t, x)
  BY <1>1, <1>2, <1>3 DEF PerfectData
<1>5. /\ ws' = [ws EXCEPT ![t] = [v \in Nodes |-> IF v \in Graph[x] THEN None ELSE ws[t][v]]]
      /\ loaded' = [loaded EXCEPT ![t] = FALSE]
      /\ current' = [current EXCEPT ![c] = x]
      /\ metric' = metric /\ up' = up /\ down' = down /\ upMod' = upMod /\ downMod' = downMod
      /\ state' = state /\ stack' = stack /\ todo' = todo
  <2>1. ws \in [Threads -> [Nodes -> Nodes \cup {None}]]
    BY DEF PerfectData
  <2> QED BY <1>2, <1>3, <2>1, SamePerfectNames DEF Perfect!Unload, Perfect!Node, Perfect!weightVars
<1>6. PerfectTypes /\ ws \in [Threads -> [Nodes -> Nodes \cup {None}]]
  BY DEF PerfectInv, PerfectData
<1>7. ws'[t] = [v \in Nodes |-> None] /\ ws' \in [Threads -> [Nodes -> Nodes \cup {None}]]
  <2>1. ws[t] = [v \in Nodes |-> IF v \in Graph[x] THEN x ELSE None]
    BY <1>4 DEF Entered
  <2>2. [v \in Nodes |-> IF v \in Graph[x] THEN None ELSE ws[t][v]] = [v \in Nodes |-> None]
    BY <2>1
  <2> QED BY <1>5, <1>6, <2>2
<1>8. ~loaded'[t] /\ \A u \in Threads : u # t => loaded'[u] = loaded[u] /\ ws'[u] = ws[u]
  BY <1>5, <1>6 DEF PerfectTypes
<1>9. \A u \in Threads : /\ ~loaded'[u] => ws'[u] = [z \in Nodes |-> None]
                         /\ loaded'[u] => Entered(u, current[Top(u)] - 1)'
  <2> SUFFICES ASSUME NEW u \in Threads
               PROVE  /\ ~loaded'[u] => ws'[u] = [z \in Nodes |-> None]
                      /\ loaded'[u] => Entered(u, current[Top(u)] - 1)'
    OBVIOUS
  <2>1. CASE u = t
    BY <1>7, <1>8, <2>1
  <2>2. CASE u # t
    <3>1. loaded[u] => Entered(u, current[Top(u)] - 1)'
      BY <1>5, <2>2, OthersStillEntered DEF Perfect!Step
    <3> QED BY <1>8, <2>2, <3>1 DEF PerfectData
  <2> QED BY <2>1, <2>2
<1>10. ASSUME NEW z, LeftOpen(z), z # x PROVE LeftOpen(z)'
  <2>1. PICK a \in Cell : z \in Rest(a)
    BY <1>10 DEF LeftOpen
  <2>2. z \in Rest(a)'
    <3>1. CASE a = c
      <4>1. state'[c] = state[c] /\ current'[c] = x /\ current[c] \in Nat /\ Cells[c].first \in Nat
        BY <1>5, <1>6, CellFacts DEF PerfectTypes
      <4>2. z \in Cells[c].first .. current[c] - 1 /\ state[c] \in {"spawned", "running"}
        BY <2>1, <3>1 DEF Rest
      <4>3. z \in Cells[c].first .. x - 1
        BY <1>3, <1>10, <4>1, <4>2
      <4> QED BY <3>1, <4>1, <4>2, <4>3 DEF Rest
    <3>2. CASE a # c
      <4>1. state'[a] = state[a] /\ current'[a] = current[a]
        BY <1>5, <1>6, <3>2 DEF PerfectTypes
      <4> QED BY <2>1, <4>1 DEF Rest
    <3> QED BY <3>1, <3>2
  <2> QED BY <2>2 DEF LeftOpen
<1> DEFINE d == Distances(metric)
           b == Back(d)
<1>11. metric \in Metrics /\ Between(up, upMod, d, BasicUp(metric)) /\ Between(down, downMod, b, BasicDown(metric))
       /\ RelaxedAbove(up, d, BasicUp(metric), x, {}) /\ RelaxedAbove(down, b, BasicDown(metric), x, {})
  BY <1>1, <1>4 DEF PerfectData, Entered
<1>12. Exact(d, BasicUp(metric), Edges) /\ Exact(b, BasicDown(metric), Edges)
  BY <1>11, UpIsExact, DownIsExact
<1>13. \A e \in Edges : ~LeftOpen(e[1]) => up[e] = d[e] /\ down[e] = b[e]
  BY DEF PerfectData
<1> HIDE DEF d, b
<1>14. \A v \in Graph[x] : up[<<x, v>>] = d[<<x, v>>] /\ down[<<x, v>>] = b[<<x, v>>]
  BY <1>11, <1>12, HalfDone
<1>15. \A e \in Edges : ~LeftOpen(e[1])' => up'[e] = d[e] /\ down'[e] = b[e]
  <2> SUFFICES ASSUME NEW e \in Edges, ~LeftOpen(e[1])' PROVE up[e] = d[e] /\ down[e] = b[e]
    BY <1>5
  <2>1. CASE e[1] = x
    <3>1. e[2] \in Graph[x] /\ e = <<x, e[2]>>
      BY <2>1, EdgeFacts
    <3> QED BY <1>14, <3>1
  <2>2. CASE e[1] # x
    BY <1>10, <1>13, <2>2
  <2> QED BY <2>1, <2>2
<1>16. todo' = [u \in Threads |-> todo'[u]]
  BY <1>5 DEF PerfectData
<1> QED BY <1>5, <1>7, <1>9, <1>11, <1>15, <1>16 DEF PerfectData, d, b

LEMMA PerfectDataStep ==
    ASSUME PerfectInv, PerfectData, NEW t \in Threads, Perfect!Step(t)
    PROVE  PerfectData'
BY TreeStepData, LoadPerfectData, RelaxPerfectData, UnloadPerfectData DEF Perfect!Step

(* The calls for the subcells of a cell end before the one for the cell.   *)
Ended(c) ==
    /\ state[c] = "waiting" => ~Perfect!IsSmall(c)
    /\ state[c] = "done" => \A i \in 1 .. Len(Cells[c].sub) : state[Cells[c].sub[i]] \in {"idle", "done"}

LEMMA EndedStep ==
    ASSUME PerfectInv, \A c \in Cell : Ended(c), NEW t \in Threads, Perfect!Step(t), NEW c \in Cell
    PROVE  Ended(c)'
<1>1. PerfectTypes /\ StacksApart /\ (\A d \in Cell : Retreat(d)) /\ Ended(c)
  BY DEF PerfectInv
<1>2. \A i \in 1 .. Len(Cells[c].sub) : Cells[c].sub[i] \in Cell
  BY CellFacts
<1>3. CASE Perfect!Take(t)
  <2>1. PICK d \in Cell : state[d] = "spawned" /\ state' = [state EXCEPT ![d] = "running"]
    BY <1>3, SamePerfectNames DEF Perfect!Take
  <2>2. state'[d] = "running" /\ \A b \in Cell : b # d => state'[b] = state[b]
    BY <1>1, <2>1 DEF PerfectTypes
  <2>3. \A i \in 1 .. Len(Cells[c].sub) : state[Cells[c].sub[i]] \in {"idle", "done"} => state'[Cells[c].sub[i]] \in {"idle", "done"}
    BY <1>2, <2>1, <2>2
  <2> QED BY <1>1, <2>2, <2>3 DEF Ended
<1>4. CASE Perfect!SpawnSubs(t)
  <2>1. PICK d \in Cell : d = Top(t)
    BY <1>1, <1>4, TopFacts DEF Perfect!SpawnSubs, Perfect!Busy
  <2>2. /\ state[d] = "running" /\ ~Perfect!IsSmall(d)
        /\ state' = [b \in Cell |-> IF b = d THEN "waiting" ELSE IF b \in Subs(d) THEN "spawned" ELSE state[b]]
    BY <1>4, <2>1, SamePerfectNames DEF Perfect!SpawnSubs
  <2>3. ASSUME state'[c] = "done", NEW i \in 1 .. Len(Cells[c].sub)
        PROVE  state'[Cells[c].sub[i]] \in {"idle", "done"}
    <3>1. c # d /\ state[c] = "done"
      BY <2>2, <2>3
    <3>2. Cells[c].sub[i] \in Cell /\ state[Cells[c].sub[i]] \in {"idle", "done"}
      BY <1>1, <1>2, <3>1 DEF Ended
    <3>3. Cells[c].sub[i] \notin Subs(d)
      <4>1. DOMAIN Cells[c].sub = 1 .. Len(Cells[c].sub)
        BY CellFacts
      <4> QED BY <3>1, <4>1, CellsAssumption DEF Subs
    <3> QED BY <2>2, <3>2, <3>3
  <2>4. state'[c] = "waiting" => ~Perfect!IsSmall(c)
    BY <1>1, <2>2 DEF Ended
  <2> QED BY <2>3, <2>4 DEF Ended
<1>5. CASE Perfect!Return(t)
  <2>1. PICK d \in Cell : d = Top(t) /\ state[d] \in Held
    BY <1>1, <1>5, TopFacts DEF Perfect!Return, Perfect!Busy
  <2>2. /\ state' = [state EXCEPT ![d] = "done"]
        /\ Perfect!IsSmall(d) \/ (state[d] = "waiting" /\ \A b \in Subs(d) : state[b] = "done")
    BY <1>5, <2>1, SamePerfectNames DEF Perfect!Return
  <2>3. state'[d] = "done" /\ \A b \in Cell : b # d => state'[b] = state[b]
    BY <1>1, <2>2 DEF PerfectTypes
  <2>4. \A i \in 1 .. Len(Cells[c].sub) : state[Cells[c].sub[i]] \in {"idle", "done"} => state'[Cells[c].sub[i]] \in {"idle", "done"}
    BY <1>2, <2>3
  <2>5. ASSUME c = d, NEW i \in 1 .. Len(Cells[c].sub)
        PROVE  state[Cells[c].sub[i]] \in {"idle", "done"}
    <3>1. CASE state[d] = "waiting"
      <4>1. \A b \in Subs(d) : state[b] = "done"
        BY <1>1, <2>2, <2>5, <3>1 DEF Ended
      <4>2. DOMAIN Cells[c].sub = 1 .. Len(Cells[c].sub)
        BY CellFacts
      <4> QED BY <2>5, <4>1, <4>2 DEF Subs
    <3>2. CASE state[d] # "waiting"
      <4>1. state[d] = "running"
        BY <1>1, <2>1, <3>2 DEF PerfectTypes, Held
      <4> QED BY <1>1, <2>5, <4>1 DEF Retreat
    <3> QED BY <3>1, <3>2
  <2> QED BY <1>1, <2>3, <2>4, <2>5 DEF Ended
<1>6. CASE Perfect!Load(t) \/ Perfect!RelaxTriangle(t) \/ Perfect!Unload(t)
  <2>1. state' = state
    BY <1>6 DEF Perfect!Load, Perfect!RelaxTriangle, Perfect!Unload, Perfect!treeVars
  <2> QED BY <1>1, <2>1 DEF Ended
<1> QED BY <1>3, <1>4, <1>5, <1>6 DEF Perfect!Step

(* When the root is done all nodes have been processed.                    *)
LEMMA DoneMeansFinished ==
    ASSUME PerfectInv, \A c \in Cell : Ended(c), state[Root] = "done", NEW x
    PROVE  ~LeftOpen(x)
<1> DEFINE S == {c \in Cell : state[c] \in {"idle", "done"}}
<1>1. S \in SUBSET Cell /\ Root \in S
  BY CellsAssumption
<1>2. ASSUME NEW c \in S PROVE Subs(c) \subseteq S
  <2>1. c \in Cell /\ Ended(c) /\ Retreat(c)
    BY DEF PerfectInv
  <2>2. \A i \in 1 .. Len(Cells[c].sub) : Cells[c].sub[i] \in Cell /\ state[Cells[c].sub[i]] \in {"idle", "done"}
    BY <2>1, CellFacts DEF Ended, Retreat
  <2>3. DOMAIN Cells[c].sub = 1 .. Len(Cells[c].sub)
    BY <2>1, CellFacts
  <2> QED BY <2>2, <2>3 DEF Subs
<1>3. S = Cell
  <2> HIDE DEF S
  <2> QED BY <1>1, <1>2, CellsAssumption
<1> QED BY <1>3 DEF LeftOpen, Rest

(* The perfect customization starts with what the basic one computes, and  *)
(* with all nodes before it.                                               *)
LEMMA StartPerfectData ==
    ASSUME TreeInv, DataInv, BasicWeights, StartPerfect
    PROVE  PerfectData' /\ \A c \in Cell : Ended(c)'
<1>1. /\ state[Root] = "done"
      /\ state' = [c \in Cell |-> IF c = Root THEN "spawned" ELSE "idle"]
      /\ current' = [c \in Cell |-> End(c)]
      /\ metric' = metric /\ up' = up /\ down' = down /\ upMod' = upMod /\ downMod' = downMod /\ ws' = ws
      /\ loaded' = loaded /\ todo' = todo
  BY DEF StartPerfect, perfectOnly
<1>2. Root \in Cell /\ NodesOf(Root) = Nodes /\ \A t \in Threads : ~loaded[t]
  BY <1>1, DoneMeansIdle, CellsAssumption
<1>3. Nodes \subseteq customized
  BY <1>1, <1>2 DEF TreeInv, Progress
<1>4. \A e \in Edges : up[e] = BasicUp(metric)[e] /\ down[e] = BasicDown(metric)[e]
  BY <1>3, EdgeFacts DEF BasicWeights
<1>5. /\ metric \in Metrics /\ upMod = {} /\ downMod = {} /\ ws = [t \in Threads |-> [v \in Nodes |-> None]]
      /\ up \in [Edges -> Nat] /\ down \in [Edges -> Nat] /\ todo = [t \in Threads |-> todo[t]]
  BY DEF BasicWeights, DataInv, DataTypes, TreeInv, TreeTypes
<1> DEFINE d == Distances(metric)
           b == Back(d)
<1>6. Exact(d, BasicUp(metric), Edges) /\ Exact(b, BasicDown(metric), Edges)
  BY <1>5, UpIsExact, DownIsExact
<1>7. Between(up, upMod, d, BasicUp(metric)) /\ Between(down, downMod, b, BasicDown(metric))
  <2> HIDE DEF d, b
  <2>1. ASSUME NEW e \in Edges
        PROVE  /\ d[e] <= up[e] /\ up[e] <= BasicUp(metric)[e] /\ ~(up[e] < BasicUp(metric)[e])
               /\ b[e] <= down[e] /\ down[e] <= BasicDown(metric)[e] /\ ~(down[e] < BasicDown(metric)[e])
    <3>1. d[e] <= BasicUp(metric)[e] /\ b[e] <= BasicDown(metric)[e]
      BY <1>6 DEF Exact
    <3>2. up[e] \in Nat /\ down[e] \in Nat
      BY <1>5
    <3> QED BY <1>4, <3>1, <3>2
  <2> QED BY <1>5, <2>1 DEF Between
<1>8. \A e \in Edges : LeftOpen(e[1])'
  <2> SUFFICES ASSUME NEW e \in Edges PROVE LeftOpen(e[1])'
    OBVIOUS
  <2>1. e[1] \in NodesOf(Root)
    BY <1>2, EdgeFacts
  <2>2. e[1] \in Rest(Root)'
    BY <1>1, <1>2, <2>1 DEF Rest, NodesOf
  <2> QED BY <1>2, <2>2 DEF LeftOpen
<1>9. PerfectData'
  BY <1>1, <1>2, <1>5, <1>7, <1>8 DEF PerfectData
<1>10. \A c \in Cell : Ended(c)'
  BY <1>1 DEF Ended
<1> QED BY <1>9, <1>10

-----------------------------------------------------------------------------
(* The perfect customization leaves distances, and its marks are exact.    *)

DistancesInv ==
    /\ FullInv
    /\ phase = "basic" => BasicWeights
    /\ phase = "perfect" => PerfectData /\ \A c \in Cell : Ended(c)

LEMMA DistancesStep ==
    ASSUME DistancesInv, [NextFull]_allVars
    PROVE  DistancesInv'
<1>1. FullInv' /\ FullInv
  BY FullStep DEF DistancesInv
<1>2. ASSUME NEW t \in Threads, ThreadStep(t), phase = "basic" PROVE DistancesInv'
  <2>1. phase' = "basic" /\ Basic!Step(t) /\ UNCHANGED perfectOnly /\ BasicWeights /\ DataTypes /\ TreeInv /\ DataInv
    BY <1>1, <1>2 DEF ThreadStep, DistancesInv, FullInv, FullTreeInv, DataInv
  <2>2. Basic!Sequential!Next \/ UNCHANGED Basic!weightVars
    BY <2>1, BasicDataStep
  <2>3. CASE Basic!Sequential!Next
    BY <1>1, <2>1, <2>3, BasicWeightsStep DEF DistancesInv
  <2>4. CASE UNCHANGED Basic!weightVars
    <3>1. /\ metric' = metric /\ up' = up /\ down' = down /\ customized' = customized
          /\ upMod' = upMod /\ downMod' = downMod /\ ws' = ws
      BY <2>1, <2>4 DEF Basic!weightVars, perfectOnly
    <3>2. BasicWeights'
      BY <2>1, <3>1 DEF BasicWeights
    <3> QED BY <1>1, <2>1, <3>2 DEF DistancesInv
  <2> QED BY <2>2, <2>3, <2>4
<1>3. ASSUME NEW t \in Threads, ThreadStep(t), phase = "perfect" PROVE DistancesInv'
  <2>1. phase' = "perfect" /\ Perfect!Step(t) /\ PerfectInv /\ PerfectData /\ \A c \in Cell : Ended(c)
    BY <1>1, <1>3 DEF ThreadStep, DistancesInv, FullInv, FullTreeInv
  <2> QED BY <1>1, <2>1, PerfectDataStep, EndedStep DEF DistancesInv
<1>4. CASE StartPerfect
  <2>1. phase = "basic" /\ phase' = "perfect" /\ TreeInv /\ DataInv /\ BasicWeights
    BY <1>1, <1>4 DEF StartPerfect, DistancesInv, FullInv, FullTreeInv
  <2> QED BY <1>1, <1>4, <2>1, StartPerfectData DEF DistancesInv
<1>5. CASE StartRebuild \/ RebuildStep
  <2>1. phase' = "rebuild"
    BY <1>5 DEF StartRebuild, RebuildStep
  <2> QED BY <1>1, <2>1 DEF DistancesInv
<1>6. CASE UNCHANGED allVars
  <2>1. /\ phase' = phase /\ metric' = metric /\ up' = up /\ down' = down /\ customized' = customized
        /\ upMod' = upMod /\ downMod' = downMod /\ ws' = ws /\ todo' = todo
        /\ loaded' = loaded /\ state' = state /\ current' = current /\ stack' = stack
    BY <1>6 DEF allVars, basicOnly, perfectOnly, threadVars
  <2>2. BasicWeights => BasicWeights'
    BY <2>1 DEF BasicWeights
  <2>3. PerfectData => PerfectData'
    <3>1. \A x : LeftOpen(x)' <=> LeftOpen(x)
      BY <2>1 DEF LeftOpen, Rest
    <3>2. \A t : (current[Top(t)] - 1)' = current[Top(t)] - 1
      BY <2>1 DEF Top
    <3>3. \A t, x : Entered(t, x) => Entered(t, x)'
      BY <2>1 DEF Entered
    <3> QED BY <2>1, <3>1, <3>2, <3>3 DEF PerfectData
  <2>4. \A c : Ended(c) => Ended(c)'
    BY <2>1 DEF Ended
  <2> QED BY <1>1, <2>1, <2>2, <2>3, <2>4 DEF DistancesInv
<1> QED BY <1>2, <1>3, <1>4, <1>5, <1>6 DEF NextFull, Caller, ThreadStep

LEMMA DistancesInitially == InitFull => DistancesInv
<1> SUFFICES ASSUME InitFull PROVE DistancesInv
  OBVIOUS
<1>1. FullInv
  BY BasicTreeInitially, BasicDataInitially DEF InitFull, FullInv, FullTreeInv
<1>2. /\ metric \in Metrics /\ up = Basic!RespectUp(metric) /\ down = Basic!RespectDown(metric) /\ customized = {}
      /\ upMod = {} /\ downMod = {} /\ ws = [t \in Threads |-> [v \in Nodes |-> None]] /\ phase = "basic"
  BY SameNames DEF InitFull, Basic!Init
<1>3. Basic!RespectUp(metric) = RespectUp(metric) /\ Basic!RespectDown(metric) = RespectDown(metric)
  BY SameNames, SameSequentialNames DEF Basic!RespectUp, Basic!RespectDown, RespectUp, RespectDown
<1> QED BY <1>1, <1>2, <1>3 DEF DistancesInv, BasicWeights

LEMMA SameDistances ==
    /\ \A m : Perfect!Distances(m) = Distances(m)
    /\ \A m : Perfect!BasicUp(m) = BasicUp(m) /\ Perfect!BasicDown(m) = BasicDown(m)
<1>1. \A S : Perfect!Lowest(S) = Lowest(S)
  BY DEF Perfect!Lowest, Lowest
<1>2. \A m : Perfect!DistancesBelow(m) = DistancesBelow(m)
  BY SamePerfectNames DEF Perfect!DistancesBelow, DistancesBelow, Perfect!Lowest, Lowest
<1> QED BY <1>2, SamePerfectNames
        DEF Perfect!Distances, Distances, Perfect!BasicUp, BasicUp, Perfect!BasicDown, BasicDown

LEMMA DistancesInductive == SpecFull => []DistancesInv
<1>1. DistancesInv /\ [NextFull]_allVars => DistancesInv'
  BY DistancesStep
<1> QED BY <1>1, DistancesInitially, PTL DEF SpecFull

(* What follows for all edges when the root is done.                       *)
LEMMA FinallyExact ==
    ASSUME DistancesInv, phase = "perfect", state[Root] = "done", NEW e \in Edges
    PROVE  /\ up[e] = Distances(metric)[e] /\ down[e] = Distances(metric)[<<e[2], e[1]>>]
           /\ e \in upMod <=> BasicUp(metric)[e] > Distances(metric)[e]
           /\ e \in downMod <=> BasicDown(metric)[e] > Distances(metric)[<<e[2], e[1]>>]
<1>1. PerfectInv /\ PerfectData /\ \A c \in Cell : Ended(c)
  BY DEF DistancesInv, FullInv, FullTreeInv
<1> DEFINE d == Distances(metric)
<1>2. up[e] = d[e] /\ down[e] = Back(d)[e]
  BY <1>1, DoneMeansFinished DEF PerfectData
<1>3. Back(d)[e] = d[<<e[2], e[1]>>]
  BY DEF Edges, Back
<1>4. /\ Between(up, upMod, d, BasicUp(metric)) /\ Between(down, downMod, Back(d), BasicDown(metric))
      /\ metric \in Metrics
  BY <1>1 DEF PerfectData
<1>5. BasicUp(metric)[e] \in Nat /\ BasicDown(metric)[e] \in Nat
  BY <1>4, UpIsExact, DownIsExact DEF Exact
<1> HIDE DEF d
<1>6. up[e] \in Nat /\ down[e] \in Nat
  BY <1>4 DEF Between
<1>7. (e \in upMod <=> up[e] < BasicUp(metric)[e]) /\ (e \in downMod <=> down[e] < BasicDown(metric)[e])
  BY <1>4 DEF Between
<1> QED BY <1>2, <1>3, <1>5, <1>6, <1>7 DEF d

(* Whatever the threads and the separator tree, when the perfect           *)
(* customization of the weights that the basic one computed is done, the   *)
(* weight of each edge is the distance between its ends, in both           *)
(* directions.                                                             *)
THEOREM PerfectIsExact == SpecFull => []WeightsAreDistances
<1>1. ASSUME DistancesInv, phase = "perfect", state[Root] = "done"
      PROVE  \A e \in Edges : up[e] = Distances(metric)[e] /\ down[e] = Distances(metric)[<<e[2], e[1]>>]
  BY <1>1, FinallyExact
<1>2. DistancesInv => WeightsAreDistances
  BY <1>1, SamePerfectNames, SameDistances DEF WeightsAreDistances, Perfect!WeightsAreDistances
<1> QED BY <1>2, DistancesInductive, PTL

(* And the edges marked as modified, which the rebuild removes, are those  *)
(* that are longer than the distance of their ends.                        *)
THEOREM MarksAreExact == SpecFull => []ModifiedIsExact
<1>1. ASSUME DistancesInv, phase = "perfect", state[Root] = "done"
      PROVE  /\ upMod = {e \in Edges : BasicUp(metric)[e] > Distances(metric)[e]}
             /\ downMod = {e \in Edges : BasicDown(metric)[e] > Distances(metric)[<<e[2], e[1]>>]}
  <2>1. upMod \subseteq Edges /\ downMod \subseteq Edges
    BY <1>1 DEF DistancesInv, PerfectData, Between
  <2>2. \A e \in Edges : /\ e \in upMod <=> BasicUp(metric)[e] > Distances(metric)[e]
                         /\ e \in downMod <=> BasicDown(metric)[e] > Distances(metric)[<<e[2], e[1]>>]
    BY <1>1, FinallyExact
  <2> QED BY <2>1, <2>2
<1>2. DistancesInv => ModifiedIsExact
  BY <1>1, SamePerfectNames, SameDistances DEF ModifiedIsExact, Perfect!ModifiedIsExact
<1> QED BY <1>2, DistancesInductive, PTL

-----------------------------------------------------------------------------
(* The order of edges                                                      *)

LEMMA EdgesAreFinite ==
    /\ IsFiniteSet(Edges) /\ M \in Nat
    /\ \A S \in SUBSET Edges : IsFiniteSet(S) /\ Cardinality(S) \in Nat /\ Cardinality(S) <= M
<1>1. IsFiniteSet(Nodes)
  BY NAssumption, FS_Interval DEF Nodes
<1>2. IsFiniteSet(Nodes \X Nodes)
  BY <1>1, FS_Product
<1>3. Edges \in SUBSET (Nodes \X Nodes)
  BY DEF Edges
<1>4. IsFiniteSet(Edges)
  BY <1>2, <1>3, FS_Subset
<1>5. ASSUME NEW S \in SUBSET Edges PROVE IsFiniteSet(S) /\ Cardinality(S) <= Cardinality(Edges)
  BY <1>4, FS_Subset
<1> QED BY <1>4, <1>5, FS_CardinalityType DEF M

LEMMA BeforeIsOrder ==
    /\ \A e \in Edges : ~Before(e, e)
    /\ \A e, f, g \in Edges : Before(e, f) /\ Before(f, g) => Before(e, g)
    /\ \A e, f \in Edges : e = f \/ Before(e, f) \/ Before(f, e)
    /\ \A e, f \in Edges : Before(e, f) => e[1] <= f[1]
    /\ \A e, f \in Edges : e[1] < f[1] => Before(e, f)
<1>1. \A e \in Edges : e[1] \in Nodes /\ e[2] \in Nodes /\ e = <<e[1], e[2]>>
  BY DEF Edges
<1>2. \A e \in Edges : e[1] \in Nat /\ e[2] \in Nat
  BY <1>1, NodesAreNat
<1> QED BY <1>1, <1>2 DEF Before

(* The place of an edge among others.                                      *)
Place(S, e) == Cardinality({f \in S : Before(f, e)})

LEMMA PlaceFacts ==
    ASSUME NEW S \in SUBSET Edges, NEW e \in S
    PROVE  /\ Place(S, e) \in 0 .. Cardinality(S) - 1
           /\ \A f \in S : Before(e, f) => Place(S, e) < Place(S, f)
<1> DEFINE B(f) == {g \in S : Before(g, f)}
<1>1. \A f \in S : B(f) \in SUBSET Edges /\ IsFiniteSet(B(f)) /\ Cardinality(B(f)) \in Nat
  BY EdgesAreFinite
<1>2. IsFiniteSet(S) /\ Cardinality(S) \in Nat
  BY EdgesAreFinite
<1>3. e \notin B(e) /\ e \in Edges
  BY BeforeIsOrder
<1>4. ASSUME NEW T \in SUBSET Edges, B(e) \cup {e} \subseteq T PROVE Cardinality(B(e)) + 1 <= Cardinality(T)
  <2> DEFINE C == B(e) \cup {e}
  <2>1. Cardinality(C) = Cardinality(B(e)) + 1
    <3>1. PICK A : A = B(e)
      OBVIOUS
    <3>2. IsFiniteSet(A) /\ e \notin A
      BY <1>1, <1>3, <3>1
    <3>3. Cardinality(A \cup {e}) = Cardinality(A) + 1
      BY <3>2, FS_AddElement
    <3> QED BY <3>1, <3>3
  <2>2. IsFiniteSet(T) /\ C \in SUBSET T
    BY <1>4, EdgesAreFinite
  <2> HIDE DEF C
  <2>3. Cardinality(C) <= Cardinality(T)
    BY <2>2, FS_Subset
  <2> QED BY <2>1, <2>3
<1>5. Cardinality(B(e)) + 1 <= Cardinality(S)
  BY <1>4
<1>6. ASSUME NEW f \in S, Before(e, f) PROVE Cardinality(B(e)) < Cardinality(B(f))
  <2>1. B(e) \cup {e} \subseteq B(f)
    BY <1>6, BeforeIsOrder
  <2>2. PICK T \in SUBSET Edges : T = B(f)
    BY <1>1, <1>6
  <2>3. Cardinality(B(e)) + 1 <= Cardinality(T)
    BY <1>4, <2>1, <2>2
  <2>4. Cardinality(B(e)) \in Nat /\ Cardinality(T) \in Nat
    BY <1>1, <1>6, <2>2
  <2>5. Cardinality(B(e)) < Cardinality(T)
    BY <2>3, <2>4
  <2> QED BY <2>2, <2>5
<1>7. \A f \in S : Place(S, f) = Cardinality(B(f))
  BY DEF Place
<1>8. Cardinality(B(e)) \in Nat
  BY <1>1
<1> HIDE DEF B
<1> QED BY <1>2, <1>5, <1>6, <1>7, <1>8

LEMMA PlacesDiffer ==
    ASSUME NEW S \in SUBSET Edges, NEW e \in S, NEW f \in S, Place(S, e) = Place(S, f)
    PROVE  e = f
<1>1. Place(S, e) \in Nat
  <2>1. Place(S, e) \in 0 .. Cardinality(S) - 1
    BY PlaceFacts
  <2> QED BY <2>1
<1>2. ~Before(e, f) /\ ~Before(f, e)
  <2>1. (Before(e, f) => Place(S, e) < Place(S, f)) /\ (Before(f, e) => Place(S, f) < Place(S, e))
    BY PlaceFacts
  <2> QED BY <1>1, <2>1
<1> QED BY <1>2, BeforeIsOrder

(* Every place is taken.                                                   *)
LEMMA PlacesAreTaken ==
    ASSUME NEW S \in SUBSET Edges, NEW p \in 0 .. Cardinality(S) - 1
    PROVE  \E e \in S : Place(S, e) = p
<1> DEFINE C == 0 .. Cardinality(S) - 1
           F == [e \in S |-> Place(S, e)]
<1>1. IsFiniteSet(S) /\ Cardinality(S) \in Nat
  BY EdgesAreFinite
<1>2. IsFiniteSet(C) /\ Cardinality(C) = Cardinality(S)
  BY <1>1, FS_Interval
<1>3. F \in [S -> C]
  BY PlaceFacts
<1>4. F \in Injection(S, C)
  <2>1. \A e, f \in S : F[e] = F[f] => e = f
    BY PlacesDiffer
  <2> HIDE DEF F, C
  <2> QED BY <1>3, <2>1 DEF Injection, IsInjective
<1>5. F \in Surjection(S, C)
  <2> HIDE DEF F, C
  <2> QED BY <1>2, <1>4, FS_Injection
<1>6. \A q \in C : \E e \in S : F[e] = q
  <2> HIDE DEF F, C
  <2> QED BY <1>5 DEF Surjection
<1> QED BY <1>6

(* The ids of the edges are their places among all.                        *)
LEMMA IdFacts ==
    /\ \A e \in Edges : IdOf[e] = Place(Edges, e) /\ IdOf[e] \in Ids /\ Edge[IdOf[e]] = e
    /\ \A id \in Ids : Edge[id] \in Edges /\ IdOf[Edge[id]] = id
<1>1. \A e \in Edges : IdOf[e] = Place(Edges, e) /\ IdOf[e] \in Ids
  BY PlaceFacts DEF IdOf, Place, Ids, M
<1>2. ASSUME NEW id \in Ids PROVE Edge[id] \in Edges /\ IdOf[Edge[id]] = id
  <2>1. \E e \in Edges : IdOf[e] = id
    BY <1>1, PlacesAreTaken DEF Ids, M
  <2>2. Edge[id] = CHOOSE e \in Edges : IdOf[e] = id
    BY DEF Edge
  <2> QED BY <2>1, <2>2
<1>3. ASSUME NEW e \in Edges PROVE Edge[IdOf[e]] = e
  BY <1>1, <1>2, PlacesDiffer
<1> QED BY <1>1, <1>2, <1>3

(* In the order of their tails, edges of a range of nodes come after those *)
(* of lower nodes.                                                         *)
Consecutive(a, b, mod) ==
    /\ KeptOf(0 .. a - 1, mod) \in SUBSET (Edges \ mod) /\ KeptOf(a .. b, mod) \in SUBSET (Edges \ mod)
    /\ Cardinality(KeptOf(0 .. b, mod)) = Cardinality(KeptOf(0 .. a - 1, mod)) + Cardinality(KeptOf(a .. b, mod))
    /\ \A e \in KeptOf(a .. b, mod) :
           Place(Edges \ mod, e) = Cardinality(KeptOf(0 .. a - 1, mod)) + Place(KeptOf(a .. b, mod), e)

LEMMA KeptFacts ==
    ASSUME NEW mod, NEW a \in Nat, NEW b \in Int, a <= b + 1
    PROVE  Consecutive(a, b, mod)
<1> DEFINE L == KeptOf(0 .. a - 1, mod)
           H == KeptOf(a .. b, mod)
<1>0. \A e \in Edges : e[1] \in Nat
  BY NodesAreNat DEF Edges
<1>1. L \in SUBSET (Edges \ mod) /\ H \in SUBSET (Edges \ mod) /\ L \in SUBSET Edges /\ H \in SUBSET Edges
  BY DEF KeptOf
<1>2. \A S \in SUBSET Edges, T \in SUBSET Edges : S \cap T = {} => Cardinality(S \cup T) = Cardinality(S) + Cardinality(T)
  <2> SUFFICES ASSUME NEW S \in SUBSET Edges, NEW T \in SUBSET Edges, S \cap T = {}
               PROVE  Cardinality(S \cup T) = Cardinality(S) + Cardinality(T)
    OBVIOUS
  <2>1. IsFiniteSet(S) /\ IsFiniteSet(T) /\ Cardinality(S) \in Nat /\ Cardinality(T) \in Nat
    BY EdgesAreFinite
  <2>2. Cardinality(S \cup T) = Cardinality(S) + Cardinality(T) - Cardinality(S \cap T)
    BY <2>1, FS_Union
  <2>3. Cardinality(S \cap T) = 0
    BY FS_EmptySet
  <2> QED BY <2>1, <2>2, <2>3
<1>3. L \cap H = {} /\ KeptOf(0 .. b, mod) = L \cup H
  BY <1>0 DEF KeptOf
<1>4. ASSUME NEW e \in H PROVE Place(Edges \ mod, e) = Cardinality(L) + Place(H, e)
  <2> DEFINE P == {f \in H : Before(f, e)}
  <2>1. e \in Edges /\ e[1] >= a /\ e[1] \in Nat
    BY <1>0 DEF KeptOf
  <2>2. {f \in Edges \ mod : Before(f, e)} = L \cup P
    <3>1. ASSUME NEW f \in L PROVE f \in Edges \ mod /\ Before(f, e)
      <4>1. f \in Edges \ mod /\ f[1] < a /\ f[1] \in Nat
        BY <1>0 DEF KeptOf
      <4> QED BY <2>1, <4>1, BeforeIsOrder
    <3>2. ASSUME NEW f \in Edges \ mod, Before(f, e) PROVE f \in L \cup P
      <4>1. f[1] <= e[1] /\ f[1] \in Nat /\ e[1] <= b
        BY <1>0, <2>1, <3>2, BeforeIsOrder DEF KeptOf
      <4>2. f[1] \in 0 .. a - 1 \/ f[1] \in a .. b
        BY <2>1, <4>1
      <4> QED BY <3>2, <4>2 DEF KeptOf
    <3> QED BY <1>1, <3>1, <3>2
  <2>3. P \in SUBSET Edges /\ L \cap P = {}
    BY <1>1, <1>3
  <2> QED BY <1>1, <1>2, <2>2, <2>3 DEF Place
<1>5. Cardinality(L \cup H) = Cardinality(L) + Cardinality(H)
  <2> HIDE DEF L, H
  <2> QED BY <1>1, <1>2, <1>3
<1> QED BY <1>1, <1>3, <1>4, <1>5 DEF Consecutive

-----------------------------------------------------------------------------
(* Chunks                                                                  *)

LEMMA Division ==
    ASSUME NEW a \in Nat, NEW p \in Nat \ {0}
    PROVE  a \div p \in Nat /\ p * (a \div p) <= a /\ a < p * (a \div p) + p
OBVIOUS

LEMMA ProductsGrow ==
    ASSUME NEW p \in Nat, NEW i \in Nat, NEW j \in Nat, i <= j
    PROVE  p * i \in Nat /\ p * j \in Nat /\ p * i <= p * j /\ p * (i + 1) = p * i + p
<1>1. PICK d \in Nat : j = i + d
  <2>1. j - i \in Nat /\ j = i + (j - i)
    OBVIOUS
  <2> QED BY <2>1
<1>2. p * j = p * i + p * d /\ p * d \in Nat /\ p * i \in Nat
  BY <1>1
<1> QED BY <1>2

(* Chunks have enough edges for all, and all but the last one are full.    *)
LEMMA ChunkSizes ==
    ASSUME NEW k \in Nat \ {0}, M > 0
    PROVE  LET p == PerChunk(k)
           IN  /\ p \in Nat \ {0} /\ p * k <= M + k - 1 /\ M <= p * k
               /\ DOMAIN FirstNodes(k) = 0 .. (M + p - 1) \div p
               /\ k \in DOMAIN FirstNodes(k) <=> p * (k - 1) < M
<1> DEFINE p == PerChunk(k)
           n == (M + p - 1) \div p
<1>1. M \in Nat
  BY EdgesAreFinite
<1>2. p = (M + k - 1) \div k /\ M + k - 1 \in Nat
  BY <1>1 DEF PerChunk
<1>3. p \in Nat /\ k * p <= M + k - 1 /\ M + k - 1 < k * p + k
  BY <1>2, Division
<1>4. DOMAIN FirstNodes(k) = 0 .. n
  BY DEF FirstNodes
<1> HIDE DEF p
<1>5. k * p = p * k
  BY <1>3
<1>6. p # 0
  BY <1>1, <1>3
<1>7. n \in Nat /\ p * n <= M + p - 1 /\ M + p - 1 < p * n + p
  BY <1>1, <1>3, <1>6, Division
<1> HIDE DEF n
<1>8. ASSUME k <= n PROVE p * (k - 1) < M
  <2>1. p * k <= p * n /\ p * k = p * (k - 1) + p /\ p * k \in Nat /\ p * n \in Nat /\ p * (k - 1) \in Nat
    <3>1. k - 1 \in Nat /\ k - 1 <= k - 1 /\ (k - 1) + 1 = k
      OBVIOUS
    <3>2. p * ((k - 1) + 1) = p * (k - 1) + p /\ p * (k - 1) \in Nat
      BY <1>3, <3>1, ProductsGrow
    <3>3. p * k \in Nat /\ p * n \in Nat /\ p * k <= p * n
      BY <1>3, <1>7, <1>8, ProductsGrow
    <3> QED BY <3>1, <3>2, <3>3
  <2> QED BY <1>1, <1>3, <1>7, <2>1
<1>9. ASSUME n < k PROVE M <= p * (k - 1)
  <2>1. n <= k - 1 /\ k - 1 \in Nat
    BY <1>7, <1>9
  <2>2. p * n <= p * (k - 1) /\ p * n \in Nat /\ p * (k - 1) \in Nat
    BY <1>3, <1>7, <2>1, ProductsGrow
  <2> QED BY <1>1, <1>3, <1>7, <2>2
<1>10. p * (k - 1) \in Nat
  BY <1>3
<1> QED BY <1>1, <1>3, <1>4, <1>5, <1>6, <1>7, <1>8, <1>9, <1>10 DEF p, n

(* More than (k - 1)^2 edges make k chunks, so that the parallel           *)
(* construction of the reduced graph panics on small graphs only.          *)
LEMMA FewEdges ==
    ASSUME NEW k \in Nat \ {0}, ~(M > 0 /\ k \in DOMAIN FirstNodes(k))
    PROVE  M <= (k - 1) * (k - 1)
<1>1. M \in Nat
  BY EdgesAreFinite
<1>2. (k - 1) * (k - 1) \in Nat
  OBVIOUS
<1>3. CASE M = 0
  BY <1>2, <1>3
<1>4. CASE M > 0
  <2> DEFINE p == PerChunk(k)
  <2>1. p \in Nat /\ p * k <= M + k - 1 /\ M <= p * (k - 1)
    <3>1. p \in Nat \ {0} /\ p * k <= M + k - 1 /\ ~(p * (k - 1) < M)
      BY <1>4, ChunkSizes
    <3> HIDE DEF p
    <3>2. p * (k - 1) \in Nat
      BY <3>1
    <3> QED BY <1>1, <3>1, <3>2
  <2> HIDE DEF p
  <2>2. p * k = p * (k - 1) + p /\ p * (k - 1) \in Nat
    BY <2>1
  <2>3. p <= k - 1
    BY <1>1, <2>1, <2>2
  <2>4. (k - 1) * p <= (k - 1) * (k - 1) /\ (k - 1) * p = p * (k - 1)
    <3>1. k - 1 \in Nat
      OBVIOUS
    <3>2. (k - 1) * p <= (k - 1) * (k - 1)
      BY <2>1, <2>3, <3>1, ProductsGrow
    <3> QED BY <2>1, <3>1, <3>2
  <2> QED BY <1>1, <1>2, <2>1, <2>2, <2>4
<1> QED BY <1>1, <1>3, <1>4

(* The parallel construction panics only if there are at most (k - 1)^2    *)
(* edges.                                                                  *)
THEOREM EnoughEdges == SpecFull => []EnoughChunks
<1>1. InitFull => EnoughChunks
  BY DEF InitFull, InitRebuild, EnoughChunks
<1>2. EnoughChunks /\ [NextFull]_allVars => EnoughChunks'
  <2> SUFFICES ASSUME EnoughChunks, [NextFull]_allVars, step' = "panicked"
               PROVE  M <= (chunks' - 1) * (chunks' - 1)
    BY DEF EnoughChunks
  <2>1. CASE step' = step /\ chunks' = chunks
    BY <2>1 DEF EnoughChunks
  <2>2. ASSUME NEW k \in ChunkCounts, StartParallel(k) PROVE M <= (chunks' - 1) * (chunks' - 1)
    <3>1. chunks' = k /\ ~(M > 0 /\ k \in DOMAIN FirstNodes(k)) /\ k \in Nat \ {0}
      BY <2>2, ChunkCountsAssumption DEF StartParallel
    <3> QED BY <3>1, FewEdges
  <2>3. CASE StartSequential
    BY <2>3 DEF StartSequential
  <2>4. CASE Rebuild
    BY <2>1, <2>4 DEF Rebuild, AppendNode, CountChunk, CopyChunk, PrefixSums, Close
  <2> QED BY <2>1, <2>2, <2>3, <2>4 DEF NextFull, allVars, rebuildVars, ThreadStep, Caller, StartPerfect, StartRebuild, RebuildStep
<1> QED BY <1>1, <1>2, PTL DEF SpecFull

LEMMA EdgesInOrder ==
    ASSUME NEW a \in Ids, NEW b \in Ids, a <= b
    PROVE  Edge[a] \in Edges /\ Edge[b] \in Edges /\ Edge[a][1] \in Nodes /\ Edge[a][1] <= Edge[b][1]
<1>1. PICK e \in Edges, f \in Edges : e = Edge[a] /\ f = Edge[b] /\ Place(Edges, e) = a /\ Place(Edges, f) = b
  BY IdFacts
<1>2. e[1] \in Nodes /\ f[1] \in Nodes /\ Nodes \subseteq Nat
  BY NodesAreNat DEF Edges
<1>3. a \in Nat /\ b \in Nat
  BY EdgesAreFinite DEF Ids
<1>4. ~Before(f, e)
  <2>1. Before(f, e) => Place(Edges, f) < Place(Edges, e)
    BY PlaceFacts
  <2> QED BY <1>1, <1>3, <2>1
<1>5. e[1] <= f[1]
  <2>1. e = f \/ Before(e, f)
    BY <1>4, BeforeIsOrder
  <2>2. Before(e, f) => e[1] <= f[1]
    BY BeforeIsOrder
  <2>3. e[1] \in Nat
    BY <1>2
  <2> QED BY <2>1, <2>2, <2>3
<1> QED BY <1>1, <1>2, <1>5

(* There are k chunks.                                                     *)
Chunked(k) == k \in Nat \ {0} /\ M > 0 /\ k \in DOMAIN FirstNodes(k)

(* They begin at the lowest node with an edge and follow one another.      *)
LEMMA ChunkFacts ==
    ASSUME NEW k, Chunked(k)
    PROVE  /\ FirstNodes(k)[k] = N /\ \A i \in 0 .. k : FirstNodes(k)[i] \in Nat /\ FirstNodes(k)[i] <= N
           /\ \A i \in 0 .. k - 1 : FirstNodes(k)[i] <= FirstNodes(k)[i + 1]
           /\ \A e \in Edges : FirstNodes(k)[0] <= e[1]
           /\ Graph[0] # {} => FirstNodes(k)[0] = 0
<1> DEFINE p == PerChunk(k)
           F == FirstNodes(k)
<1>0. k \in Nat \ {0} /\ M > 0 /\ k \in DOMAIN FirstNodes(k) /\ M \in Nat
  BY EdgesAreFinite DEF Chunked
<1>1. p \in Nat \ {0} /\ M <= p * k /\ DOMAIN F = 0 .. (M + p - 1) \div p /\ p * (k - 1) < M
  BY <1>0, ChunkSizes
<1>2. \A i \in DOMAIN F : F[i] = IF i * p < M THEN Edge[i * p][1] ELSE N
  BY DEF FirstNodes
<1>3. N \in Nat /\ \A x \in Nodes : x \in Nat /\ x <= N
  BY NAssumption DEF Nodes
<1> HIDE DEF p, F
<1>4. 0 .. k \subseteq DOMAIN F
  <2>1. (M + p - 1) \div p \in Nat
    BY <1>0, <1>1, Division
  <2> QED BY <1>0, <1>1, <2>1 DEF F
<1>5. ASSUME NEW i \in 0 .. k - 1 PROVE p * i \in Ids /\ F[i] = Edge[p * i][1] /\ F[i] \in Nodes
  <2>1. i \in Nat /\ k - 1 \in Nat /\ i <= k - 1 /\ i \in 0 .. k
    BY <1>0
  <2>2. p * i <= p * (k - 1) /\ p * i \in Nat /\ p * (k - 1) \in Nat
    BY <1>1, <2>1, ProductsGrow
  <2>3. p * i < M /\ p * i = i * p
    BY <1>0, <1>1, <2>1, <2>2
  <2>4. p * i \in Ids
    BY <1>0, <2>2, <2>3 DEF Ids
  <2>5. F[i] = Edge[p * i][1]
    BY <1>2, <1>4, <2>1, <2>3
  <2>6. p * i <= p * i
    BY <2>2
  <2> QED BY <2>4, <2>5, <2>6, EdgesInOrder
<1>6. F[k] = N
  <2>1. p * k = k * p /\ k * p \in Nat
    BY <1>0, <1>1
  <2> QED BY <1>0, <1>1, <1>2, <1>4, <2>1
<1>7. \A i \in 0 .. k : F[i] \in Nat /\ F[i] <= N
  BY <1>0, <1>3, <1>5, <1>6
<1>8. ASSUME NEW i \in 0 .. k - 1 PROVE F[i] <= F[i + 1]
  <2>1. CASE i = k - 1
    <3>1. i + 1 = k
      BY <1>0, <2>1
    <3> QED BY <1>3, <1>5, <1>6, <3>1
  <2>2. CASE i # k - 1
    <3>1. i \in Nat /\ i + 1 \in 0 .. k - 1 /\ i <= i + 1
      BY <1>0, <2>2
    <3>2. p * i <= p * (i + 1)
      BY <1>1, <3>1, ProductsGrow
    <3>3. PICK a \in Ids, b \in Ids : a = p * i /\ b = p * (i + 1)
      BY <1>5, <3>1
    <3>4. Edge[a][1] <= Edge[b][1]
      BY <3>2, <3>3, EdgesInOrder
    <3> QED BY <1>5, <3>1, <3>3, <3>4
  <2> QED BY <2>1, <2>2
<1>9. F[0] = Edge[0][1] /\ 0 \in Ids
  <2>1. 0 \in 0 .. k - 1 /\ p * 0 = 0
    BY <1>0, <1>1
  <2> QED BY <1>5, <2>1
<1>10. ASSUME NEW e \in Edges PROVE F[0] <= e[1]
  <2>1. PICK id \in Ids : Edge[id] = e
    BY IdFacts
  <2>2. 0 <= id
    BY DEF Ids
  <2>3. Edge[0][1] <= Edge[id][1]
    BY <1>9, <2>2, EdgesInOrder
  <2> QED BY <1>9, <2>1, <2>3
<1>11. ASSUME Graph[0] # {} PROVE F[0] = 0
  <2>1. 0 \in Nodes
    <3>1. PICK id \in Ids : id = 0
      BY <1>9
    <3>2. Edge[id] \in Edges
      BY IdFacts
    <3>3. Nodes # {}
      BY <3>2 DEF Edges
    <3> QED BY <1>3, <3>3 DEF Nodes
  <2>2. PICK y \in Graph[0] : y \in Nodes
    BY <1>11, <2>1, GraphAssumption DEF Graphs
  <2>3. <<0, y>> \in Edges
    BY <2>1, <2>2 DEF Edges
  <2>4. F[0] <= 0
    <3>1. \A e : e = <<0, y>> => e[1] = 0
      OBVIOUS
    <3> QED BY <1>10, <2>3, <3>1
  <2>5. F[0] \in Nat
    BY <1>0, <1>7
  <2> QED BY <2>4, <2>5
<1> QED BY <1>6, <1>7, <1>8, <1>10, <1>11 DEF F

(* Each node from the first one on lies in a chunk.                        *)
LEMMA ChunksCover ==
    ASSUME Chunked(chunks), NEW x \in Nodes, FirstNodes(chunks)[0] <= x
    PROVE  \E i \in 0 .. chunks - 1 : x \in ChunkNodes(i)
<1> DEFINE F == FirstNodes(chunks)
           S == {i \in 0 .. chunks : F[i] <= x}
<1>1. chunks \in Nat \ {0} /\ x \in Nat /\ x < N /\ N \in Nat
  BY NAssumption DEF Chunked, Nodes
<1>2. F[chunks] = N /\ \A i \in 0 .. chunks : F[i] \in Nat
  BY ChunkFacts
<1>3. chunks \notin S
  BY <1>1, <1>2
<1>4. PICK i \in 0 .. chunks : 0 .. i - 1 \subseteq S /\ i \notin S
  <2> HIDE DEF S
  <2>1. chunks \in 0 .. chunks
    BY <1>1
  <2> QED BY <1>1, <1>3, <2>1, InductionUpTo
<1>5. i # 0
  <2>1. 0 \in S
    BY <1>1
  <2> QED BY <1>4, <2>1
<1>6. i - 1 \in 0 .. chunks - 1 /\ i - 1 \in S /\ F[i] > x
  BY <1>1, <1>2, <1>4, <1>5
<1> HIDE DEF F
<1>7. x \in F[i - 1] .. F[i] - 1
  BY <1>1, <1>2, <1>6
<1>8. (i - 1) + 1 = i
  OBVIOUS
<1>9. x \in ChunkNodes(i - 1)
  BY <1>7, <1>8 DEF ChunkNodes, F
<1> QED BY <1>6, <1>9

(* The kept edges of the chunks before chunk i.                            *)
KeptBefore(i, mod) == Cardinality(KeptOf(0 .. FirstNodes(chunks)[i] - 1, mod))

(* The edges of a chunk are kept behind those of all chunks before.        *)
LEMMA ChunkPlaces ==
    ASSUME Chunked(chunks), NEW i \in 0 .. chunks - 1, NEW mod
    PROVE  /\ KeptOf(ChunkNodes(i), mod) \in SUBSET (Edges \ mod)
           /\ KeptBefore(i + 1, mod) = KeptBefore(i, mod) + Cardinality(KeptOf(ChunkNodes(i), mod))
           /\ \A e \in KeptOf(ChunkNodes(i), mod) :
                  Place(Edges \ mod, e) = KeptBefore(i, mod) + Place(KeptOf(ChunkNodes(i), mod), e)
<1>1. PICK a \in Nat, c \in Nat : a = FirstNodes(chunks)[i] /\ c = FirstNodes(chunks)[i + 1] /\ a <= c
  <2>1. i \in 0 .. chunks /\ i + 1 \in 0 .. chunks
    BY DEF Chunked
  <2> QED BY <2>1, ChunkFacts
<1>2. PICK b \in Int : b = c - 1 /\ a <= b + 1
  <2>1. c - 1 \in Int /\ a <= (c - 1) + 1
    BY <1>1
  <2> QED BY <2>1
<1>3. ChunkNodes(i) = a .. b
  BY <1>1, <1>2 DEF ChunkNodes
<1>4. KeptBefore(i, mod) = Cardinality(KeptOf(0 .. a - 1, mod)) /\ KeptBefore(i + 1, mod) = Cardinality(KeptOf(0 .. b, mod))
  BY <1>1, <1>2 DEF KeptBefore
<1>5. Consecutive(a, b, mod)
  BY <1>2, KeptFacts
<1> QED BY <1>3, <1>4, <1>5 DEF Consecutive

LEMMA NothingBefore ==
    ASSUME Chunked(chunks), NEW mod
    PROVE  KeptBefore(0, mod) = 0
<1>1. KeptOf(0 .. FirstNodes(chunks)[0] - 1, mod) = {}
  <2> SUFFICES ASSUME NEW e \in Edges, e[1] \in 0 .. FirstNodes(chunks)[0] - 1 PROVE FALSE
    BY DEF KeptOf
  <2>1. FirstNodes(chunks)[0] <= e[1] /\ FirstNodes(chunks)[0] \in Nat
    <3>1. 0 \in 0 .. chunks
      BY DEF Chunked
    <3> QED BY <3>1, ChunkFacts
  <2> QED BY <2>1
<1> QED BY <1>1, FS_EmptySet DEF KeptBefore

(* Prefix sums of the counts are where the slices of the chunks start.     *)
LEMMA PrefixSumsAreStarts ==
    ASSUME Chunked(chunks), kept[0] = <<0, 0>>,
           \A i \in 0 .. chunks - 1 : kept[i + 1] = <<Cardinality(KeptOf(ChunkNodes(i), upMod)), Cardinality(KeptOf(ChunkNodes(i), downMod))>>
    PROVE  KeptUpTo = [i \in 0 .. chunks |-> <<KeptBefore(i, upMod), KeptBefore(i, downMod)>>]
<1> DEFINE Step(f) == [i \in 0 .. chunks |->
               IF i = 0 THEN kept[0] ELSE <<f[i - 1][1] + kept[i][1], f[i - 1][2] + kept[i][2]>>]
           r == CHOOSE f : f = Step(f)
           s == [i \in 0 .. chunks |-> <<KeptBefore(i, upMod), KeptBefore(i, downMod)>>]
<1>1. KeptUpTo = r
  BY DEF KeptUpTo
<1>2. chunks \in Nat \ {0}
  BY DEF Chunked
<1>3. \A i \in 1 .. chunks : s[i] = <<s[i - 1][1] + kept[i][1], s[i - 1][2] + kept[i][2]>>
  <2> SUFFICES ASSUME NEW i \in 1 .. chunks PROVE s[i] = <<s[i - 1][1] + kept[i][1], s[i - 1][2] + kept[i][2]>>
    OBVIOUS
  <2>1. PICK j \in 0 .. chunks - 1 : j = i - 1 /\ i = j + 1 /\ j \in 0 .. chunks /\ i \in 0 .. chunks
    <3>1. i - 1 \in 0 .. chunks - 1 /\ i = (i - 1) + 1 /\ i - 1 \in 0 .. chunks /\ i \in 0 .. chunks
      BY <1>2
    <3> QED BY <3>1
  <2>2. /\ KeptBefore(j + 1, upMod) = KeptBefore(j, upMod) + Cardinality(KeptOf(ChunkNodes(j), upMod))
        /\ KeptBefore(j + 1, downMod) = KeptBefore(j, downMod) + Cardinality(KeptOf(ChunkNodes(j), downMod))
    BY ChunkPlaces
  <2>3. kept[i] = <<Cardinality(KeptOf(ChunkNodes(j), upMod)), Cardinality(KeptOf(ChunkNodes(j), downMod))>>
    BY <2>1
  <2> QED BY <2>1, <2>2, <2>3
<1>4. s[0] = <<0, 0>>
  <2>1. 0 \in 0 .. chunks
    BY <1>2
  <2>2. KeptBefore(0, upMod) = 0 /\ KeptBefore(0, downMod) = 0
    BY NothingBefore
  <2> QED BY <2>1, <2>2
<1> HIDE DEF s
<1>5. s = Step(s)
  <2>1. \A i \in 0 .. chunks : s[i] = Step(s)[i]
    BY <1>2, <1>3, <1>4
  <2> QED BY <2>1 DEF s
<1>6. r = Step(r)
  <2> HIDE DEF Step
  <2> QED BY <1>5
<1>7. \A i \in 0 .. chunks : r[i] = IF i = 0 THEN kept[0] ELSE <<r[i - 1][1] + kept[i][1], r[i - 1][2] + kept[i][2]>>
  <2> HIDE DEF r
  <2> QED BY <1>6
<1>8. r = [i \in 0 .. chunks |-> r[i]]
  <2> HIDE DEF r
  <2> QED BY <1>6
<1> HIDE DEF r, Step
<1> DEFINE S == {i \in 0 .. chunks : r[i] = s[i]}
<1>9. ASSUME NEW i \in 0 .. chunks, 0 .. i - 1 \subseteq S PROVE i \in S
  <2>1. CASE i = 0
    BY <1>4, <1>7, <2>1
  <2>2. CASE i # 0
    <3>1. i \in 1 .. chunks /\ i - 1 \in S
      BY <1>9, <2>2
    <3> QED BY <1>3, <1>7, <2>2, <3>1
  <2> QED BY <2>1, <2>2
<1>10. 0 .. chunks \subseteq S
  <2> HIDE DEF S
  <2> QED BY <1>2, <1>9, InductionUpTo
<1>11. s = [i \in 0 .. chunks |-> s[i]]
  BY DEF s
<1>12. r = s
  BY <1>8, <1>10, <1>11
<1> QED BY <1>1, <1>12 DEF s

-----------------------------------------------------------------------------
(* Copying edges                                                           *)

LEMMA EdgeEnds ==
    ASSUME NEW e \in Edges
    PROVE  e = <<e[1], e[2]>> /\ e[1] \in Nodes /\ e[2] \in Nodes /\ e[1] \in Nat /\ e[2] \in Nat /\ e[1] < e[2]
<1>1. e = <<e[1], e[2]>> /\ e[1] \in Nodes /\ e[2] \in Nodes /\ e[2] \in Graph[e[1]]
  BY DEF Edges
<1> QED BY <1>1, NodesAreNat, GraphAssumption

IsGraph(g) ==
    /\ g = [firstOut |-> g.firstOut, edges |-> g.edges, newId |-> g.newId]
    /\ DOMAIN g.firstOut = 0 .. N /\ DOMAIN g.edges = Ids /\ DOMAIN g.newId = Ids

(* A graph has an edge at its place among those that are kept, and knows   *)
(* that.                                                                   *)
Has(g, mod, e, edge) == g.edges[Place(Edges \ mod, e)] = edge /\ g.newId[IdOf[e]] = Place(Edges \ mod, e)

LEMMA BlankIsGraph == IsGraph(Blank)
BY DEF IsGraph, Blank

(* h differs from g in some edges that it has.                             *)
CopiedTo(h, g, mod, copied, edge) ==
    /\ IsGraph(h)
    /\ \A e \in copied : Has(h, mod, e, edge[e])
    /\ \A e \in (Edges \ mod) \ copied : \A c : Has(g, mod, e, c) => Has(h, mod, e, c)

LEMMA PlaceIsId ==
    ASSUME NEW mod, NEW e \in Edges \ mod
    PROVE  Place(Edges \ mod, e) \in Ids /\ Place(Edges \ mod, e) < Cardinality(Edges \ mod)
<1> DEFINE S == Edges \ mod
<1>1. S \in SUBSET Edges
  OBVIOUS
<1>2. Cardinality(S) \in Nat /\ Cardinality(S) <= M /\ M \in Nat
  BY <1>1, EdgesAreFinite
<1>3. Place(S, e) \in 0 .. Cardinality(S) - 1
  BY <1>1, PlaceFacts
<1> HIDE DEF S
<1>4. Place(S, e) \in Ids /\ Place(S, e) < Cardinality(S)
  BY <1>2, <1>3 DEF Ids
<1> QED BY <1>4 DEF S

LEMMA WithEdgesFacts ==
    ASSUME NEW g, IsGraph(g), NEW mod, NEW copied \in SUBSET (Edges \ mod), NEW start, NEW edge,
           \A e \in copied : Place(Edges \ mod, e) = start + Place(copied, e)
    PROVE  /\ CopiedTo(WithEdges(g, copied, start, edge), g, mod, copied, edge)
           /\ WithEdges(g, copied, start, edge).firstOut = g.firstOut
<1> DEFINE h == WithEdges(g, copied, start, edge)
           place(e) == start + Place(copied, e)
           stay == Edges \ mod
<1>1. /\ h.firstOut = g.firstOut
      /\ h.edges = [p \in Ids |-> IF \E e \in copied : place(e) = p
                                  THEN edge[CHOOSE e \in copied : place(e) = p] ELSE g.edges[p]]
      /\ h.newId = [id \in Ids |-> IF Edge[id] \in copied THEN place(Edge[id]) ELSE g.newId[id]]
      /\ h = [firstOut |-> h.firstOut, edges |-> h.edges, newId |-> h.newId]
  <2> DEFINE edges == [p \in Ids |-> IF \E e \in copied : place(e) = p
                                     THEN edge[CHOOSE e \in copied : place(e) = p] ELSE g.edges[p]]
             newId == [id \in Ids |-> IF Edge[id] \in copied THEN place(Edge[id]) ELSE g.newId[id]]
  <2>1. g = [firstOut |-> g.firstOut, edges |-> g.edges, newId |-> g.newId]
    BY DEF IsGraph
  <2>2. h = [g EXCEPT !.edges = edges, !.newId = newId]
    BY DEF WithEdges, Place
  <2> HIDE DEF h, edges, newId
  <2>3. /\ h.firstOut = g.firstOut /\ h.edges = edges /\ h.newId = newId
        /\ h = [firstOut |-> h.firstOut, edges |-> h.edges, newId |-> h.newId]
    BY <2>1, <2>2
  <2> QED BY <2>3 DEF edges, newId
<1>2. stay \in SUBSET Edges /\ copied \subseteq stay /\ \A e \in copied : place(e) = Place(stay, e)
  OBVIOUS
<1>3. \A e \in stay : Place(stay, e) \in Ids
  BY PlaceIsId
<1> HIDE DEF h, place, stay
<1>4. ASSUME NEW e \in copied PROVE Has(h, mod, e, edge[e])
  <2>1. \A f \in copied : place(f) = Place(stay, e) => f = e
    BY <1>2, PlacesDiffer
  <2>2. (CHOOSE f \in copied : place(f) = Place(stay, e)) = e
    BY <1>2, <2>1
  <2>3. h.edges[Place(stay, e)] = edge[e]
    BY <1>1, <1>2, <1>3, <2>2
  <2>4. IdOf[e] \in Ids /\ Edge[IdOf[e]] = e
    BY <1>2, IdFacts
  <2>5. h.newId[IdOf[e]] = Place(stay, e)
    BY <1>1, <1>2, <2>4
  <2> QED BY <2>3, <2>5 DEF Has, stay
<1>5. ASSUME NEW e \in stay \ copied, NEW c, Has(g, mod, e, c) PROVE Has(h, mod, e, c)
  <2>1. \A f \in copied : place(f) # Place(stay, e)
    BY <1>2, PlacesDiffer
  <2>2. h.edges[Place(stay, e)] = g.edges[Place(stay, e)]
    BY <1>1, <1>3, <2>1
  <2>3. IdOf[e] \in Ids /\ Edge[IdOf[e]] = e
    BY <1>2, IdFacts
  <2>4. h.newId[IdOf[e]] = g.newId[IdOf[e]]
    BY <1>1, <2>3
  <2> QED BY <1>5, <2>2, <2>4 DEF Has, stay
<1>6. IsGraph(h)
  BY <1>1 DEF IsGraph
<1>7. CopiedTo(h, g, mod, copied, edge)
  BY <1>4, <1>5, <1>6 DEF CopiedTo, stay
<1> QED BY <1>1, <1>7 DEF h

(* first_out up to a node.                                                 *)
StartsUpTo(g, mod, x) == \A y \in 0 .. x : g.firstOut[y] = Cardinality(KeptOf(0 .. y - 1, mod))

LEMMA AppendedFacts ==
    ASSUME NEW g, IsGraph(g), NEW mod, NEW x \in Nodes, StartsUpTo(g, mod, x), NEW edge
    PROVE  /\ CopiedTo(Appended(g, x, mod, edge), g, mod, KeptOf({x}, mod), [e \in Edges |-> Translated(edge[e])])
           /\ StartsUpTo(Appended(g, x, mod, edge), mod, x + 1)
<1> DEFINE S == KeptOf({x}, mod)
           start == g.firstOut[x]
           copy == [e \in Edges |-> Translated(edge[e])]
           w == WithEdges(g, S, start, copy)
           h == Appended(g, x, mod, edge)
<1>1. x \in Nat /\ x <= N - 1 /\ N \in Nat
  BY NAssumption DEF Nodes
<1>2. start = Cardinality(KeptOf(0 .. x - 1, mod))
  BY <1>1 DEF StartsUpTo
<1>3. Consecutive(x, x, mod) /\ x .. x = {x}
  BY <1>1, KeptFacts
<1>4. S \in SUBSET (Edges \ mod) /\ \A e \in S : Place(Edges \ mod, e) = start + Place(S, e)
  BY <1>2, <1>3 DEF Consecutive
<1> HIDE DEF S, copy
<1>5. CopiedTo(w, g, mod, S, copy) /\ w.firstOut = g.firstOut
  <2>1. PICK T, s, c : T = S /\ s = start /\ c = copy
    OBVIOUS
  <2>2. T \in SUBSET (Edges \ mod) /\ \A e \in T : Place(Edges \ mod, e) = s + Place(T, e)
    BY <1>4, <2>1
  <2> HIDE DEF w, start
  <2>3. CopiedTo(WithEdges(g, T, s, c), g, mod, T, c) /\ WithEdges(g, T, s, c).firstOut = g.firstOut
    BY <2>2, WithEdgesFacts
  <2> QED BY <2>1, <2>3 DEF w
<1>6. h = [w EXCEPT !.firstOut[x + 1] = Cardinality(KeptOf(0 .. x, mod))]
  BY DEF Appended, S, copy
<1> HIDE DEF h, w, start
<1>7. IsGraph(w) /\ DOMAIN w.firstOut = 0 .. N
  BY <1>5 DEF CopiedTo, IsGraph
<1>8. /\ h.edges = w.edges /\ h.newId = w.newId
      /\ h.firstOut = [w.firstOut EXCEPT ![x + 1] = Cardinality(KeptOf(0 .. x, mod))]
      /\ h = [firstOut |-> h.firstOut, edges |-> h.edges, newId |-> h.newId]
  <2>1. w = [firstOut |-> w.firstOut, edges |-> w.edges, newId |-> w.newId]
    BY <1>7 DEF IsGraph
  <2> QED BY <1>6, <2>1
<1>9. \A e, c : Has(h, mod, e, c) <=> Has(w, mod, e, c)
  BY <1>8 DEF Has
<1>10. IsGraph(h)
  BY <1>7, <1>8 DEF IsGraph
<1>11. StartsUpTo(h, mod, x + 1)
  <2> SUFFICES ASSUME NEW y \in 0 .. x + 1 PROVE h.firstOut[y] = Cardinality(KeptOf(0 .. y - 1, mod))
    BY DEF StartsUpTo
  <2>1. CASE y = x + 1
    <3>1. x + 1 \in 0 .. N /\ y - 1 = x
      BY <1>1, <2>1
    <3> QED BY <1>7, <1>8, <2>1, <3>1
  <2>2. CASE y # x + 1
    <3>1. y \in 0 .. x /\ y \in 0 .. N
      BY <1>1, <2>2
    <3>2. g.firstOut[y] = Cardinality(KeptOf(0 .. y - 1, mod))
      BY <3>1 DEF StartsUpTo
    <3> QED BY <1>5, <1>7, <1>8, <2>2, <3>1, <3>2
  <2> QED BY <2>1, <2>2
<1>12. CopiedTo(h, g, mod, S, copy)
  BY <1>5, <1>9, <1>10 DEF CopiedTo
<1> QED BY <1>11, <1>12 DEF h, S, copy

LEMMA CopiedFacts ==
    ASSUME Chunked(chunks), NEW i \in 0 .. chunks - 1, NEW g, IsGraph(g), NEW mod, NEW edge
    PROVE  LET h == Copied(g, i, KeptBefore(i, mod), mod, edge)
           IN  /\ CopiedTo(h, g, mod, KeptOf(ChunkNodes(i), mod), edge)
               /\ FirstNodes(chunks)[0] = 0 => \A p \in 0 .. N :
                      h.firstOut[p] = IF p \in ChunkNodes(i) THEN Cardinality(KeptOf(0 .. p - 1, mod)) ELSE g.firstOut[p]
<1> DEFINE start == KeptBefore(i, mod)
           here == ChunkNodes(i)
           S == KeptOf(here, mod)
           w == WithEdges(g, S, start, edge)
           first == FirstNodes(chunks)[0]
           h == Copied(g, i, start, mod, edge)
           offset(p) == start + Cardinality({e \in S : e[1] < p + first})
<1>1. S \in SUBSET (Edges \ mod) /\ \A e \in S : Place(Edges \ mod, e) = start + Place(S, e)
  BY ChunkPlaces
<1>2. CopiedTo(w, g, mod, S, edge) /\ w.firstOut = g.firstOut
  <2> HIDE DEF start, S
  <2> QED BY <1>1, WithEdgesFacts
<1>3. h = [w EXCEPT !.firstOut = [p \in 0 .. N |-> IF p + first \in here THEN offset(p) ELSE w.firstOut[p]]]
  BY DEF Copied
<1> HIDE DEF h, w, offset
<1>4. /\ h.edges = w.edges /\ h.newId = w.newId
      /\ h.firstOut = [p \in 0 .. N |-> IF p + first \in here THEN offset(p) ELSE w.firstOut[p]]
      /\ h = [firstOut |-> h.firstOut, edges |-> h.edges, newId |-> h.newId]
  <2>1. w = [firstOut |-> w.firstOut, edges |-> w.edges, newId |-> w.newId]
    BY <1>2 DEF CopiedTo, IsGraph
  <2> HIDE DEF first, here
  <2> QED BY <1>3, <2>1
<1>5. \A e, c : Has(h, mod, e, c) <=> Has(w, mod, e, c)
  BY <1>4 DEF Has
<1>6. IsGraph(h)
  BY <1>2, <1>4 DEF CopiedTo, IsGraph
<1>7. CopiedTo(h, g, mod, S, edge)
  BY <1>2, <1>5, <1>6 DEF CopiedTo
<1>8. ASSUME first = 0, NEW p \in 0 .. N
      PROVE  h.firstOut[p] = IF p \in here THEN Cardinality(KeptOf(0 .. p - 1, mod)) ELSE g.firstOut[p]
  <2>1. p \in Nat /\ p + first = p
    BY <1>8, NAssumption
  <2>2. ASSUME p \in here PROVE offset(p) = Cardinality(KeptOf(0 .. p - 1, mod))
    <3>1. PICK a \in Nat, c \in Nat : a = FirstNodes(chunks)[i] /\ c = FirstNodes(chunks)[i + 1]
      <4>1. i \in 0 .. chunks /\ i + 1 \in 0 .. chunks
        BY DEF Chunked
      <4> QED BY <4>1, ChunkFacts
    <3>2. here = a .. c - 1 /\ a <= p /\ p <= c - 1
      BY <2>2, <3>1 DEF ChunkNodes
    <3>3. \A e \in Edges : e[1] \in Nat
      BY EdgeEnds
    <3>4. {e \in S : e[1] < p} = KeptOf(a .. p - 1, mod)
      BY <2>1, <3>2, <3>3 DEF KeptOf
    <3>5. start = Cardinality(KeptOf(0 .. a - 1, mod))
      BY <3>1 DEF KeptBefore
    <3>6. PICK b \in Int : b = p - 1 /\ a <= b + 1
      <4>1. p - 1 \in Int /\ a <= (p - 1) + 1
        BY <2>1, <3>2
      <4> QED BY <4>1
    <3>7. Consecutive(a, b, mod)
      BY <3>6, KeptFacts
    <3> QED BY <2>1, <3>4, <3>5, <3>6, <3>7 DEF Consecutive, offset
  <2> QED BY <1>2, <1>4, <2>1, <2>2
<1> QED BY <1>7, <1>8 DEF h

-----------------------------------------------------------------------------
(* The reduced graph                                                       *)

(* The edges as they are in the new graph.                                 *)
NewForward == [e \in Edges |->
    [head |-> e[2], tail |-> e[1], weight |-> up[e],
     unpack |-> IF upVia[e] = None THEN <<None, None>>
                ELSE <<Place(Edges \ downMod, <<upVia[e], e[1]>>), Place(Edges \ upMod, <<upVia[e], e[2]>>)>>]]

NewBackward == [e \in Edges |->
    [head |-> e[2], tail |-> e[1], weight |-> down[e],
     unpack |-> IF downVia[e] = None THEN <<None, None>>
                ELSE <<Place(Edges \ downMod, <<downVia[e], e[2]>>), Place(Edges \ upMod, <<downVia[e], e[1]>>)>>]]

(* Both edges of a way from x to y over z are kept.                        *)
KeptTriangle(z, x, y, length) ==
    /\ <<z, x>> \in Edges \ downMod /\ <<z, y>> \in Edges \ upMod
    /\ length = down[<<z, x>>] + up[<<z, y>>]

KeptTriangles ==
    /\ \A e \in Edges \ upMod : upVia[e] # None => KeptTriangle(upVia[e], e[1], e[2], up[e])
    /\ \A e \in Edges \ downMod : downVia[e] # None => KeptTriangle(downVia[e], e[2], e[1], down[e])

Knows(g, mod, e) == g.newId[IdOf[e]] = Place(Edges \ mod, e)

LEMMA TranslatedFacts ==
    ASSUME NEW e \in Edges, NEW edge, NEW a \in Edges, NEW b \in Edges, edge.unpack = <<IdOf[a], IdOf[b]>>,
           Knows(bw, downMod, a), Knows(fw, upMod, b)
    PROVE  Translated(edge) = [edge EXCEPT !.unpack = <<Place(Edges \ downMod, a), Place(Edges \ upMod, b)>>]
<1>1. IdOf[a] \in Nat /\ IdOf[b] \in Nat
  BY IdFacts, EdgesAreFinite DEF Ids
<1>2. IdOf[a] # None /\ IdOf[b] # None
  BY <1>1 DEF None
<1> QED BY <1>2 DEF Translated, NewId, Knows

LEMMA NewForwardFacts ==
    ASSUME KeptTriangles, NEW e \in Edges \ upMod,
           \A a \in Edges \ downMod : a[1] < e[1] => Knows(bw, downMod, a),
           \A a \in Edges \ upMod : a[1] < e[1] => Knows(fw, upMod, a)
    PROVE  Translated(Forward[e]) = NewForward[e]
<1>1. CASE upVia[e] = None
  BY <1>1 DEF Forward, NewForward, Translated, NewId
<1>2. CASE upVia[e] # None
  <2> DEFINE z == upVia[e]
  <2>1. PICK a \in Edges, b \in Edges : a = <<z, e[1]>> /\ b = <<z, e[2]>> /\ a \notin downMod /\ b \notin upMod
    BY <1>2 DEF KeptTriangles, KeptTriangle
  <2>2. a[1] < e[1] /\ b[1] < e[1]
    BY <2>1, EdgeEnds
  <2>3. Knows(bw, downMod, a) /\ Knows(fw, upMod, b)
    BY <2>1, <2>2
  <2>4. Forward[e] = [head |-> e[2], tail |-> e[1], weight |-> up[e], unpack |-> <<IdOf[a], IdOf[b]>>]
    BY <1>2, <2>1 DEF Forward
  <2>5. PICK edge : edge = Forward[e]
    OBVIOUS
  <2>6. edge.unpack = <<IdOf[a], IdOf[b]>>
    BY <2>4, <2>5
  <2>7. Translated(edge) = [edge EXCEPT !.unpack = <<Place(Edges \ downMod, a), Place(Edges \ upMod, b)>>]
    BY <2>3, <2>6, TranslatedFacts
  <2>8. NewForward[e] = [head |-> e[2], tail |-> e[1], weight |-> up[e],
                         unpack |-> <<Place(Edges \ downMod, a), Place(Edges \ upMod, b)>>]
    BY <1>2, <2>1 DEF NewForward
  <2> QED BY <2>4, <2>5, <2>7, <2>8
<1> QED BY <1>1, <1>2

LEMMA NewBackwardFacts ==
    ASSUME KeptTriangles, NEW e \in Edges \ downMod,
           \A a \in Edges \ downMod : a[1] < e[1] => Knows(bw, downMod, a),
           \A a \in Edges \ upMod : a[1] < e[1] => Knows(fw, upMod, a)
    PROVE  Translated(Backward[e]) = NewBackward[e]
<1>1. CASE downVia[e] = None
  BY <1>1 DEF Backward, NewBackward, Translated, NewId
<1>2. CASE downVia[e] # None
  <2> DEFINE z == downVia[e]
  <2>1. PICK a \in Edges, b \in Edges : a = <<z, e[2]>> /\ b = <<z, e[1]>> /\ a \notin downMod /\ b \notin upMod
    BY <1>2 DEF KeptTriangles, KeptTriangle
  <2>2. a[1] < e[1] /\ b[1] < e[1]
    BY <2>1, EdgeEnds
  <2>3. Knows(bw, downMod, a) /\ Knows(fw, upMod, b)
    BY <2>1, <2>2
  <2>4. Backward[e] = [head |-> e[2], tail |-> e[1], weight |-> down[e], unpack |-> <<IdOf[a], IdOf[b]>>]
    BY <1>2, <2>1 DEF Backward
  <2>5. PICK edge : edge = Backward[e]
    OBVIOUS
  <2>6. edge.unpack = <<IdOf[a], IdOf[b]>>
    BY <2>4, <2>5
  <2>7. Translated(edge) = [edge EXCEPT !.unpack = <<Place(Edges \ downMod, a), Place(Edges \ upMod, b)>>]
    BY <2>3, <2>6, TranslatedFacts
  <2>8. NewBackward[e] = [head |-> e[2], tail |-> e[1], weight |-> down[e],
                          unpack |-> <<Place(Edges \ downMod, a), Place(Edges \ upMod, b)>>]
    BY <1>2, <2>1 DEF NewBackward
  <2> QED BY <2>4, <2>5, <2>7, <2>8
<1> QED BY <1>1, <1>2

(* The graph has the edges of the nodes below x.                           *)
GraphUpTo(g, mod, x, edge) ==
    /\ IsGraph(g) /\ StartsUpTo(g, mod, x)
    /\ \A e \in Edges \ mod : e[1] < x => Has(g, mod, e, edge[e])

Appending ==
    \E x \in 0 .. N :
        /\ pending = x .. N - 1 /\ chunks = 0
        /\ GraphUpTo(fw, upMod, x, NewForward) /\ GraphUpTo(bw, downMod, x, NewBackward)

(* The graph has the edges of the chunks that are done.                    *)
ChunkDone(g, mod, edge, i) ==
    /\ \A e \in KeptOf(ChunkNodes(i), mod) : Has(g, mod, e, edge[e])
    /\ FirstNodes(chunks)[0] = 0 =>
           \A p \in ChunkNodes(i) : p \in 0 .. N => g.firstOut[p] = Cardinality(KeptOf(0 .. p - 1, mod))

ChunksDone(g, mod, edge) == IsGraph(g) /\ \A i \in (0 .. chunks - 1) \ pending : ChunkDone(g, mod, edge, i)

Counting ==
    /\ Chunked(chunks) /\ pending \subseteq 0 .. chunks - 1
    /\ fw = Blank /\ bw = Blank
    /\ DOMAIN kept = 0 .. chunks /\ kept = [i \in 0 .. chunks |-> kept[i]] /\ kept[0] = <<0, 0>>
    /\ \A i \in (0 .. chunks - 1) \ pending :
           kept[i + 1] = <<Cardinality(KeptOf(ChunkNodes(i), upMod)), Cardinality(KeptOf(ChunkNodes(i), downMod))>>

Copying ==
    /\ Chunked(chunks) /\ pending \subseteq 0 .. chunks - 1
    /\ kept = [i \in 0 .. chunks |-> <<KeptBefore(i, upMod), KeptBefore(i, downMod)>>]
    /\ ChunksDone(fw, upMod, Forward) /\ ChunksDone(bw, downMod, Backward)

(* The reduced graph in one direction.                                     *)
ReducedTo(g, mod, edge) ==
    /\ g.firstOut[N] = Cardinality(Edges \ mod)
    /\ chunks = 0 \/ Graph[0] # {} => \A x \in 0 .. N : g.firstOut[x] = Cardinality(KeptOf(0 .. x - 1, mod))
    /\ \A e \in Edges \ mod : g.edges[Place(Edges \ mod, e)] = edge[e]

RebuildInv ==
    /\ step \in {"waiting", "appending", "counting", "copying", "rebuilt", "panicked"}
    /\ step = "waiting" => fw = Blank /\ bw = Blank /\ chunks = 0
    /\ step = "appending" => Appending
    /\ step = "counting" => Counting
    /\ step = "copying" => Copying
    /\ step = "rebuilt" => ReducedTo(fw, upMod, NewForward) /\ ReducedTo(bw, downMod, NewBackward)

LEMMA AllKept == \A mod : KeptOf(0 .. N - 1, mod) = Edges \ mod
BY DEF KeptOf, Edges, Nodes

LEMMA StartRebuildData ==
    ASSUME RebuildInv, step = "waiting", StartSequential \/ \E k \in ChunkCounts : StartParallel(k)
    PROVE  RebuildInv'
<1>1. CASE StartSequential
  <2>1. step' = "appending" /\ pending' = Nodes /\ fw' = Blank /\ bw' = Blank /\ chunks' = 0
    BY <1>1 DEF StartSequential, RebuildInv
  <2>2. 0 \in 0 .. N /\ Nodes = 0 .. N - 1
    BY NAssumption DEF Nodes
  <2>3. \A mod, edge : GraphUpTo(Blank, mod, 0, edge)
    <3> SUFFICES ASSUME NEW mod, NEW edge PROVE GraphUpTo(Blank, mod, 0, edge)
      OBVIOUS
    <3>1. \A e \in Edges : ~(e[1] < 0)
      BY EdgeEnds
    <3>2. KeptOf(0 .. 0 - 1, mod) = {}
      BY DEF KeptOf
    <3>3. Cardinality(KeptOf(0 .. 0 - 1, mod)) = 0
      BY <3>2, FS_EmptySet
    <3>4. Blank.firstOut[0] = 0
      BY <2>2 DEF Blank
    <3>5. StartsUpTo(Blank, mod, 0)
      <4> SUFFICES ASSUME NEW y \in 0 .. 0 PROVE Blank.firstOut[y] = Cardinality(KeptOf(0 .. y - 1, mod))
        BY DEF StartsUpTo
      <4>1. y = 0
        OBVIOUS
      <4> QED BY <3>3, <3>4, <4>1
    <3> QED BY <3>1, <3>5, BlankIsGraph DEF GraphUpTo
  <2>4. Appending'
    BY <2>1, <2>2, <2>3 DEF Appending
  <2> QED BY <2>1, <2>4 DEF RebuildInv
<1>2. ASSUME NEW k \in ChunkCounts, StartParallel(k) PROVE RebuildInv'
  <2>1. /\ k \in Nat \ {0} /\ chunks' = k /\ fw' = Blank /\ bw' = Blank /\ pending' = 0 .. k - 1
        /\ kept' = [i \in 0 .. k |-> <<0, 0>>]
        /\ step' = IF M > 0 /\ k \in DOMAIN FirstNodes(k) THEN "counting" ELSE "panicked"
    BY <1>2, ChunkCountsAssumption DEF StartParallel, RebuildInv
  <2>2. step' = "counting" => Chunked(k)
    BY <2>1 DEF Chunked
  <2>3. 0 \in 0 .. k
    BY <2>1
  <2>4. step' = "counting" => Counting'
    BY <2>1, <2>2, <2>3 DEF Counting
  <2> QED BY <2>1, <2>4 DEF RebuildInv
<1> QED BY <1>1, <1>2

LEMMA AppendData ==
    ASSUME RebuildInv, KeptTriangles, AppendNode
    PROVE  RebuildInv'
<1>1. step = "appending" /\ pending # {} /\ chunks' = chunks
      /\ up' = up /\ down' = down /\ upMod' = upMod /\ downMod' = downMod /\ upVia' = upVia /\ downVia' = downVia
  BY DEF AppendNode, inputs
<1>2. PICK x \in 0 .. N : /\ pending = x .. N - 1 /\ chunks = 0
                          /\ GraphUpTo(fw, upMod, x, NewForward) /\ GraphUpTo(bw, downMod, x, NewBackward)
  BY <1>1 DEF RebuildInv, Appending
<1>3. x \in Nodes /\ x \in Nat /\ Lowest(pending) = x /\ N \in Nat /\ x + 1 \in 0 .. N
  <2>1. x \in Nat /\ x <= N - 1 /\ N \in Nat
    BY <1>1, <1>2, NAssumption
  <2>2. pending \in SUBSET Nat /\ x \in pending /\ \A y \in pending : x <= y
    BY <1>2, <2>1
  <2>3. Lowest(pending) \in pending /\ \A y \in pending : Lowest(pending) <= y
    BY <2>2, LowestIsLeast
  <2>4. Lowest(pending) \in Nat /\ Lowest(pending) <= x /\ x <= Lowest(pending)
    BY <2>2, <2>3
  <2> QED BY <2>1, <2>4 DEF Nodes
<1>4. /\ fw' = Appended(fw, x, upMod, Forward) /\ bw' = Appended(bw, x, downMod, Backward)
      /\ pending' = pending \ {x} /\ step' = IF pending' = {} THEN "rebuilt" ELSE step
  BY <1>3 DEF AppendNode
<1>5. pending' = x + 1 .. N - 1
  BY <1>2, <1>3, <1>4
<1>6. NewForward' = NewForward /\ NewBackward' = NewBackward
  BY <1>1 DEF NewForward, NewBackward
<1>7. /\ \A e \in Edges \ upMod : e[1] < x => Knows(fw, upMod, e)
      /\ \A e \in Edges \ downMod : e[1] < x => Knows(bw, downMod, e)
  BY <1>2 DEF GraphUpTo, Has, Knows
<1>8. \A e \in Edges : e[1] \in Nat
  BY EdgeEnds
<1>9. ASSUME NEW g, NEW h, NEW mod, NEW edge, NEW new, GraphUpTo(g, mod, x, new), h = Appended(g, x, mod, edge),
             \A e \in Edges \ mod : e[1] = x => Translated(edge[e]) = new[e]
      PROVE  GraphUpTo(h, mod, x + 1, new)
  <2> DEFINE S == KeptOf({x}, mod)
             copy == [e \in Edges |-> Translated(edge[e])]
  <2>1. CopiedTo(h, g, mod, S, copy) /\ StartsUpTo(h, mod, x + 1)
    BY <1>3, <1>9, AppendedFacts DEF GraphUpTo
  <2>2. \A e \in Edges \ mod : e \in S <=> e[1] = x
    BY DEF KeptOf
  <2>3. \A e \in S : e \in Edges \ mod /\ copy[e] = new[e]
    BY <1>9, <2>2 DEF KeptOf
  <2> HIDE DEF S, copy
  <2>4. ASSUME NEW e \in Edges \ mod, e[1] < x + 1 PROVE Has(h, mod, e, new[e])
    <3>1. CASE e[1] = x
      BY <2>1, <2>2, <2>3, <3>1 DEF CopiedTo
    <3>2. CASE e[1] # x
      <4>1. e[1] < x
        BY <1>3, <1>8, <2>4, <3>2
      <4> QED BY <1>9, <2>1, <2>2, <3>2, <4>1 DEF CopiedTo, GraphUpTo
    <3> QED BY <3>1, <3>2
  <2> QED BY <2>1, <2>4 DEF GraphUpTo, CopiedTo
<1>10. GraphUpTo(fw', upMod, x + 1, NewForward)
  <2>1. \A e \in Edges \ upMod : e[1] = x => Translated(Forward[e]) = NewForward[e]
    BY <1>7, NewForwardFacts
  <2> QED BY <1>2, <1>4, <1>9, <2>1
<1>11. GraphUpTo(bw', downMod, x + 1, NewBackward)
  <2>1. \A e \in Edges \ downMod : e[1] = x => Translated(Backward[e]) = NewBackward[e]
    BY <1>7, NewBackwardFacts
  <2> QED BY <1>2, <1>4, <1>9, <2>1
<1>12. CASE pending' = {}
  <2>1. x + 1 = N
    BY <1>3, <1>5, <1>12
  <2>2. ASSUME NEW g, NEW mod, NEW new, GraphUpTo(g, mod, N, new)
        PROVE  ReducedTo(g, mod, new)
    <3>1. N \in 0 .. N /\ \A e \in Edges : e[1] < N
      <4>1. \A e \in Edges : e[1] \in Nodes
        BY EdgeEnds
      <4> QED BY <1>3, <4>1 DEF Nodes
    <3> QED BY <2>2, <3>1, AllKept DEF ReducedTo, GraphUpTo, StartsUpTo, Has
  <2>3. ReducedTo(fw', upMod, NewForward) /\ ReducedTo(bw', downMod, NewBackward)
    BY <1>10, <1>11, <2>1, <2>2
  <2>4. (ReducedTo(fw, upMod, NewForward) /\ ReducedTo(bw, downMod, NewBackward))'
    BY <1>1, <1>6, <2>3 DEF ReducedTo
  <2> QED BY <1>4, <1>12, <2>4 DEF RebuildInv
<1>13. CASE pending' # {}
  <2>1. Appending'
    BY <1>1, <1>2, <1>3, <1>5, <1>6, <1>10, <1>11 DEF Appending
  <2> QED BY <1>1, <1>4, <1>13, <2>1 DEF RebuildInv
<1> QED BY <1>12, <1>13

LEMMA CountData ==
    ASSUME RebuildInv, NEW i \in pending, CountChunk(i)
    PROVE  RebuildInv'
<1>1. /\ step = "counting" /\ step' = step /\ chunks' = chunks /\ pending' = pending \ {i}
      /\ fw' = fw /\ bw' = bw /\ upMod' = upMod /\ downMod' = downMod
      /\ kept' = [kept EXCEPT ![i + 1] = <<Cardinality(KeptOf(ChunkNodes(i), upMod)), Cardinality(KeptOf(ChunkNodes(i), downMod))>>]
  BY DEF CountChunk, inputs
<1>2. Counting
  BY <1>1 DEF RebuildInv
<1>3. i \in 0 .. chunks - 1 /\ i + 1 \in 0 .. chunks /\ i + 1 # 0 /\ chunks \in Nat
  BY <1>2 DEF Counting, Chunked
<1>4. \A j \in 0 .. chunks - 1 : ChunkNodes(j)' = ChunkNodes(j)
  BY <1>1 DEF ChunkNodes
<1>5. DOMAIN kept' = 0 .. chunks /\ kept' = [j \in 0 .. chunks |-> kept'[j]] /\ kept'[0] = <<0, 0>>
  <2>1. DOMAIN kept = 0 .. chunks /\ kept = [j \in 0 .. chunks |-> kept[j]] /\ kept[0] = <<0, 0>>
    BY <1>2 DEF Counting
  <2>2. PICK v : kept' = [kept EXCEPT ![i + 1] = v]
    BY <1>1
  <2> QED BY <1>3, <2>1, <2>2
<1>6. ASSUME NEW j \in (0 .. chunks - 1) \ pending'
      PROVE  kept'[j + 1] = <<Cardinality(KeptOf(ChunkNodes(j), upMod)), Cardinality(KeptOf(ChunkNodes(j), downMod))>>
  <2>1. DOMAIN kept = 0 .. chunks /\ j + 1 \in 0 .. chunks
    BY <1>2, <1>3 DEF Counting
  <2>2. CASE j = i
    BY <1>1, <2>1, <2>2
  <2>3. CASE j # i
    <3>1. kept'[j + 1] = kept[j + 1] /\ j \in (0 .. chunks - 1) \ pending
      BY <1>1, <1>3, <2>1, <2>3
    <3> QED BY <1>2, <3>1 DEF Counting
  <2> QED BY <2>2, <2>3
<1>7. pending' \subseteq 0 .. chunks - 1 /\ Chunked(chunks)
  BY <1>1, <1>2 DEF Counting
<1>8. fw' = Blank /\ bw' = Blank
  BY <1>1, <1>2 DEF Counting
<1>9. Counting'
  BY <1>1, <1>4, <1>5, <1>6, <1>7, <1>8 DEF Counting
<1> QED BY <1>1, <1>9 DEF RebuildInv

LEMMA PrefixSumsData ==
    ASSUME RebuildInv, PrefixSums
    PROVE  RebuildInv'
<1>1. /\ step = "counting" /\ step' = "copying" /\ chunks' = chunks /\ pending = {} /\ pending' = 0 .. chunks - 1
      /\ fw' = fw /\ bw' = bw /\ upMod' = upMod /\ downMod' = downMod /\ kept' = KeptUpTo
  BY DEF PrefixSums, inputs
<1>2. Counting
  BY <1>1 DEF RebuildInv
<1>3. kept' = [i \in 0 .. chunks |-> <<KeptBefore(i, upMod), KeptBefore(i, downMod)>>]
  <2>1. /\ Chunked(chunks) /\ kept[0] = <<0, 0>>
        /\ \A i \in 0 .. chunks - 1 :
               kept[i + 1] = <<Cardinality(KeptOf(ChunkNodes(i), upMod)), Cardinality(KeptOf(ChunkNodes(i), downMod))>>
    BY <1>1, <1>2 DEF Counting
  <2> QED BY <1>1, <2>1, PrefixSumsAreStarts
<1>4. fw' = Blank /\ bw' = Blank /\ Chunked(chunks)
  BY <1>1, <1>2 DEF Counting
<1>5. (0 .. chunks - 1) \ pending' = {}
  BY <1>1
<1>6. ChunksDone(fw, upMod, Forward)' /\ ChunksDone(bw, downMod, Backward)'
  BY <1>1, <1>4, <1>5, BlankIsGraph DEF ChunksDone
<1>7. \A i, mod : KeptBefore(i, mod)' = KeptBefore(i, mod')
  BY <1>1 DEF KeptBefore
<1>8. kept' = [i \in 0 .. chunks' |-> <<KeptBefore(i, upMod)', KeptBefore(i, downMod)'>>]
  BY <1>1, <1>3, <1>7
<1>9. Copying'
  BY <1>1, <1>4, <1>6, <1>8 DEF Copying
<1> QED BY <1>1, <1>9 DEF RebuildInv

LEMMA CopyData ==
    ASSUME RebuildInv, NEW i \in pending, CopyChunk(i)
    PROVE  RebuildInv'
<1>1. /\ step = "copying" /\ step' = step /\ chunks' = chunks /\ pending' = pending \ {i} /\ kept' = kept
      /\ fw' = Copied(fw, i, kept[i][1], upMod, Forward) /\ bw' = Copied(bw, i, kept[i][2], downMod, Backward)
      /\ up' = up /\ down' = down /\ upMod' = upMod /\ downMod' = downMod /\ upVia' = upVia /\ downVia' = downVia
  BY DEF CopyChunk, inputs
<1>2. Copying
  BY <1>1 DEF RebuildInv
<1>3. i \in 0 .. chunks - 1 /\ i \in 0 .. chunks /\ Chunked(chunks) /\ pending \subseteq 0 .. chunks - 1
  BY <1>2 DEF Copying, Chunked
<1>4. kept[i][1] = KeptBefore(i, upMod) /\ kept[i][2] = KeptBefore(i, downMod)
  BY <1>2, <1>3 DEF Copying
<1>5. Forward' = Forward /\ Backward' = Backward
  BY <1>1 DEF Forward, Backward
<1>6. ASSUME NEW g, NEW h, NEW mod, NEW edge, ChunksDone(g, mod, edge), h = Copied(g, i, KeptBefore(i, mod), mod, edge),
             NEW j \in (0 .. chunks - 1) \ pending'
      PROVE  IsGraph(h) /\ ChunkDone(h, mod, edge, j)
  <2>1. /\ CopiedTo(h, g, mod, KeptOf(ChunkNodes(i), mod), edge)
        /\ FirstNodes(chunks)[0] = 0 => \A p \in 0 .. N :
               h.firstOut[p] = IF p \in ChunkNodes(i) THEN Cardinality(KeptOf(0 .. p - 1, mod)) ELSE g.firstOut[p]
    BY <1>3, <1>6, CopiedFacts DEF ChunksDone
  <2>2. CASE j = i
    BY <2>1, <2>2 DEF CopiedTo, ChunkDone
  <2>3. CASE j # i
    <3>1. j \in (0 .. chunks - 1) \ pending
      BY <1>1, <2>3
    <3>2. /\ \A e \in KeptOf(ChunkNodes(j), mod) : Has(g, mod, e, edge[e])
          /\ FirstNodes(chunks)[0] = 0 =>
                 \A p \in ChunkNodes(j) : p \in 0 .. N => g.firstOut[p] = Cardinality(KeptOf(0 .. p - 1, mod))
      BY <1>6, <3>1 DEF ChunksDone, ChunkDone
    <3>3. \A e \in KeptOf(ChunkNodes(j), mod) : e \in Edges \ mod
      BY DEF KeptOf
    <3>4. \A e \in KeptOf(ChunkNodes(j), mod) : Has(h, mod, e, edge[e])
      BY <2>1, <3>2, <3>3 DEF CopiedTo
    <3> QED BY <2>1, <3>2, <3>4 DEF CopiedTo, ChunkDone
  <2> QED BY <2>2, <2>3
<1>7. \A j \in 0 .. chunks - 1 : ChunkNodes(j)' = ChunkNodes(j)
  BY <1>1 DEF ChunkNodes
<1>8. IsGraph(fw') /\ IsGraph(bw')
  <2>1. i \in (0 .. chunks - 1) \ pending'
    BY <1>1, <1>3
  <2> QED BY <1>1, <1>2, <1>4, <1>6, <2>1 DEF Copying
<1>9. ChunksDone(fw, upMod, Forward)'
  <2>1. ChunksDone(fw, upMod, Forward) /\ fw' = Copied(fw, i, KeptBefore(i, upMod), upMod, Forward)
    BY <1>1, <1>2, <1>4 DEF Copying
  <2>2. \A j \in (0 .. chunks - 1) \ pending' : ChunkDone(fw', upMod, Forward, j)
    <3>1. PICK g, h, edge : g = fw /\ h = fw' /\ edge = Forward
      OBVIOUS
    <3> QED BY <1>6, <2>1, <3>1
  <2> QED BY <1>1, <1>5, <1>7, <1>8, <2>2 DEF ChunksDone, ChunkDone
<1>10. ChunksDone(bw, downMod, Backward)'
  <2>1. ChunksDone(bw, downMod, Backward) /\ bw' = Copied(bw, i, KeptBefore(i, downMod), downMod, Backward)
    BY <1>1, <1>2, <1>4 DEF Copying
  <2>2. \A j \in (0 .. chunks - 1) \ pending' : ChunkDone(bw', downMod, Backward, j)
    <3>1. PICK g, h, edge : g = bw /\ h = bw' /\ edge = Backward
      OBVIOUS
    <3> QED BY <1>6, <2>1, <3>1
  <2> QED BY <1>1, <1>5, <1>7, <1>8, <2>2 DEF ChunksDone, ChunkDone
<1>11. \A j, mod : KeptBefore(j, mod)' = KeptBefore(j, mod')
  BY <1>1 DEF KeptBefore
<1>12. kept' = [j \in 0 .. chunks' |-> <<KeptBefore(j, upMod)', KeptBefore(j, downMod)'>>]
  BY <1>1, <1>2, <1>11 DEF Copying
<1>13. Copying'
  BY <1>1, <1>3, <1>9, <1>10, <1>12 DEF Copying
<1> QED BY <1>1, <1>13 DEF RebuildInv

LEMMA CloseData ==
    ASSUME RebuildInv, KeptTriangles, Close
    PROVE  RebuildInv'
<1>1. /\ step = "copying" /\ step' = "rebuilt" /\ chunks' = chunks /\ pending = {}
      /\ fw' = Closed(fw, kept[chunks][1]) /\ bw' = Closed(bw, kept[chunks][2])
      /\ up' = up /\ down' = down /\ upMod' = upMod /\ downMod' = downMod /\ upVia' = upVia /\ downVia' = downVia
  BY DEF Close, inputs
<1>2. Copying
  BY <1>1 DEF RebuildInv
<1>3. chunks \in Nat \ {0} /\ chunks \in 0 .. chunks /\ Chunked(chunks) /\ N \in Nat
  BY <1>2, NAssumption DEF Copying, Chunked
<1>4. kept[chunks][1] = Cardinality(Edges \ upMod) /\ kept[chunks][2] = Cardinality(Edges \ downMod)
  <2>1. FirstNodes(chunks)[chunks] = N
    BY <1>3, ChunkFacts
  <2>2. \A mod : KeptBefore(chunks, mod) = Cardinality(Edges \ mod)
    BY <2>1, AllKept DEF KeptBefore
  <2> QED BY <1>2, <1>3, <2>2 DEF Copying
<1>5. NewForward' = NewForward /\ NewBackward' = NewBackward
  BY <1>1 DEF NewForward, NewBackward
<1>6. ASSUME NEW e \in Edges PROVE \E i \in 0 .. chunks - 1 : e[1] \in ChunkNodes(i)
  BY <1>3, EdgeEnds, ChunkFacts, ChunksCover
<1>7. ASSUME NEW g, NEW mod, NEW edge, ChunksDone(g, mod, edge), NEW e \in Edges \ mod
      PROVE  Has(g, mod, e, edge[e])
  <2>1. PICK i \in 0 .. chunks - 1 : e[1] \in ChunkNodes(i)
    BY <1>6
  <2>2. e \in KeptOf(ChunkNodes(i), mod)
    BY <2>1 DEF KeptOf
  <2> QED BY <1>1, <1>7, <2>2 DEF ChunksDone, ChunkDone
<1>8. /\ \A e \in Edges \ upMod : Knows(fw, upMod, e)
      /\ \A e \in Edges \ downMod : Knows(bw, downMod, e)
  <2>1. ChunksDone(fw, upMod, Forward) /\ ChunksDone(bw, downMod, Backward)
    BY <1>2 DEF Copying
  <2>2. \A e \in Edges \ upMod : Has(fw, upMod, e, Forward[e])
    BY <1>7, <2>1
  <2>3. \A e \in Edges \ downMod : Has(bw, downMod, e, Backward[e])
    BY <1>7, <2>1
  <2> QED BY <2>2, <2>3 DEF Has, Knows
<1>9. ASSUME NEW g, NEW mod, NEW edge, NEW new, ChunksDone(g, mod, edge), NEW count, count = Cardinality(Edges \ mod),
             \A e \in Edges \ mod : Translated(edge[e]) = new[e]
      PROVE  ReducedTo(Closed(g, count), mod, new)
  <2> DEFINE h == Closed(g, count)
             edges == [p \in Ids |-> IF p < count THEN Translated(g.edges[p]) ELSE NoEdge]
  <2>1. IsGraph(g)
    BY <1>9 DEF ChunksDone
  <2>2. h = [g EXCEPT !.firstOut[N] = count, !.edges = edges]
    BY DEF Closed
  <2>3. h.edges = edges /\ h.firstOut = [g.firstOut EXCEPT ![N] = count]
    <3> HIDE DEF h, edges
    <3>1. g = [firstOut |-> g.firstOut, edges |-> g.edges, newId |-> g.newId]
      BY <2>1 DEF IsGraph
    <3> QED BY <2>2, <3>1
  <2> HIDE DEF h
  <2>4. DOMAIN g.firstOut = 0 .. N /\ N \in 0 .. N
    BY <1>3, <2>1 DEF IsGraph
  <2>5. h.firstOut[N] = count
    BY <2>3, <2>4
  <2>6. ASSUME NEW e \in Edges \ mod PROVE h.edges[Place(Edges \ mod, e)] = new[e]
    <3>1. PICK p \in Ids : p = Place(Edges \ mod, e) /\ p < count
      BY <1>9, PlaceIsId
    <3>2. Has(g, mod, e, edge[e])
      BY <1>7, <1>9
    <3>3. g.edges[p] = edge[e]
      BY <3>1, <3>2 DEF Has
    <3> QED BY <1>9, <2>3, <3>1, <3>3
  <2>7. ASSUME chunks = 0 \/ Graph[0] # {}, NEW x \in 0 .. N
        PROVE  h.firstOut[x] = Cardinality(KeptOf(0 .. x - 1, mod))
    <3>1. CASE x = N
      BY <1>9, <2>5, <3>1, AllKept
    <3>2. CASE x # N
      <4>1. FirstNodes(chunks)[0] = 0
        BY <1>3, <2>7, ChunkFacts
      <4>2. x \in Nodes /\ 0 <= x
        BY <1>3, <3>2 DEF Nodes
      <4>3. PICK i \in 0 .. chunks - 1 : x \in ChunkNodes(i)
        BY <1>3, <4>1, <4>2, ChunksCover
      <4>4. g.firstOut[x] = Cardinality(KeptOf(0 .. x - 1, mod))
        BY <1>1, <1>9, <4>1, <4>3 DEF ChunksDone, ChunkDone
      <4> QED BY <2>3, <2>4, <3>2, <4>4
    <3> QED BY <3>1, <3>2
  <2>8. ReducedTo(h, mod, new)
    BY <1>9, <2>5, <2>6, <2>7 DEF ReducedTo
  <2> QED BY <2>8 DEF h
<1>10. \A e \in Edges \ upMod : Translated(Forward[e]) = NewForward[e]
  BY <1>8, NewForwardFacts
<1>11. \A e \in Edges \ downMod : Translated(Backward[e]) = NewBackward[e]
  BY <1>8, NewBackwardFacts
<1>12. ReducedTo(fw', upMod, NewForward) /\ ReducedTo(bw', downMod, NewBackward)
  BY <1>1, <1>2, <1>4, <1>9, <1>10, <1>11 DEF Copying
<1>13. (ReducedTo(fw, upMod, NewForward) /\ ReducedTo(bw, downMod, NewBackward))'
  BY <1>1, <1>5, <1>12 DEF ReducedTo
<1> QED BY <1>1, <1>13 DEF RebuildInv

-----------------------------------------------------------------------------
(* Triangles that basic customization remembers                            *)

UpTriangle(e) ==
    upVia[e] # None =>
        /\ upVia[e] \in Triangles(e)
        /\ BasicUp(metric)[e] = BasicDown(metric)[<<upVia[e], e[1]>>] + BasicUp(metric)[<<upVia[e], e[2]>>]

DownTriangle(e) ==
    downVia[e] # None =>
        /\ downVia[e] \in Triangles(e)
        /\ BasicDown(metric)[e] = BasicDown(metric)[<<downVia[e], e[2]>>] + BasicUp(metric)[<<downVia[e], e[1]>>]

(* A step on a node remembers triangles that are as long as its edges.     *)
LEMMA BasicTrianglesStep ==
    ASSUME BasicWeights, DataTypes, Basic!Sequential!Next,
           \A e \in Edges : e[1] \in customized => UpTriangle(e) /\ DownTriangle(e)
    PROVE  \A e \in Edges : e[1] \in customized' => UpTriangle(e)' /\ DownTriangle(e)'
<1>1. PICK x \in Nodes : Basic!Sequential!CustomizeNode(x)
  BY SameSequentialNames DEF Basic!Sequential!Next
<1>2. /\ x \notin customized /\ Below(x) \subseteq customized /\ customized' = customized \cup {x} /\ metric' = metric
      /\ upVia' = [e \in Edges |-> IF e[1] = x THEN Basic!Sequential!UpVia(e) ELSE upVia[e]]
      /\ downVia' = [e \in Edges |-> IF e[1] = x THEN Basic!Sequential!DownVia(e) ELSE downVia[e]]
  BY <1>1, SameSequentialNames DEF Basic!Sequential!CustomizeNode
<1>3. ASSUME NEW e \in Edges, e[1] # x, e[1] \in customized' PROVE UpTriangle(e)' /\ DownTriangle(e)'
  BY <1>2, <1>3 DEF UpTriangle, DownTriangle
<1>4. ASSUME NEW e \in Edges, e[1] = x PROVE UpTriangle(e)' /\ DownTriangle(e)'
  <2>1. /\ Basic!Sequential!UpRelaxed(e) = BasicUp(metric)[e] /\ Basic!Sequential!DownRelaxed(e) = BasicDown(metric)[e]
        /\ \A z \in Triangles(e) :
               /\ Basic!Sequential!UpOver(e, z) = BasicDown(metric)[<<z, e[1]>>] + BasicUp(metric)[<<z, e[2]>>]
               /\ Basic!Sequential!DownOver(e, z) = BasicDown(metric)[<<z, e[2]>>] + BasicUp(metric)[<<z, e[1]>>]
               /\ Basic!Sequential!UpOver(e, z) \in Nat /\ Basic!Sequential!DownOver(e, z) \in Nat
    BY <1>2, <1>4, RelaxedAreBasic, OverAreBasic
  <2>2. up[e] \in Nat /\ down[e] \in Nat /\ Triangles(e) \subseteq Nodes /\ Nodes \subseteq Nat
    BY EdgeFacts, NodesAreNat DEF DataTypes, Triangles
  <2>3. ASSUME Basic!Sequential!UpVia(e) # None
        PROVE  /\ Basic!Sequential!UpVia(e) \in Triangles(e)
               /\ Basic!Sequential!UpOver(e, Basic!Sequential!UpVia(e)) = Basic!Sequential!UpRelaxed(e)
    <3> DEFINE all == {up[e]} \cup {Basic!Sequential!UpOver(e, z) : z \in Triangles(e)}
               best == {z \in Triangles(e) : Basic!Sequential!UpOver(e, z) = Basic!Sequential!UpRelaxed(e)}
    <3>1. /\ Basic!Sequential!UpRelaxed(e) = Lowest(all)
          /\ Basic!Sequential!UpVia(e) = IF Basic!Sequential!UpRelaxed(e) = up[e] THEN None ELSE Lowest(best)
      BY SameSequentialNames DEF Basic!Sequential!UpRelaxed, Basic!Sequential!UpVia
    <3>2. all \in SUBSET Nat /\ all # {}
      BY <2>1, <2>2
    <3>3. Lowest(all) \in all
      <4> HIDE DEF all
      <4> QED BY <3>2, LowestIsLeast
    <3>4. best # {} /\ best \in SUBSET Nat
      BY <2>2, <2>3, <3>1, <3>3
    <3>5. Lowest(best) \in best
      <4> HIDE DEF best
      <4> QED BY <3>4, LowestIsLeast
    <3> QED BY <2>3, <3>1, <3>5
  <2>4. ASSUME Basic!Sequential!DownVia(e) # None
        PROVE  /\ Basic!Sequential!DownVia(e) \in Triangles(e)
               /\ Basic!Sequential!DownOver(e, Basic!Sequential!DownVia(e)) = Basic!Sequential!DownRelaxed(e)
    <3> DEFINE all == {down[e]} \cup {Basic!Sequential!DownOver(e, z) : z \in Triangles(e)}
               best == {z \in Triangles(e) : Basic!Sequential!DownOver(e, z) = Basic!Sequential!DownRelaxed(e)}
    <3>1. /\ Basic!Sequential!DownRelaxed(e) = Lowest(all)
          /\ Basic!Sequential!DownVia(e) = IF Basic!Sequential!DownRelaxed(e) = down[e] THEN None ELSE Lowest(best)
      BY SameSequentialNames DEF Basic!Sequential!DownRelaxed, Basic!Sequential!DownVia
    <3>2. all \in SUBSET Nat /\ all # {}
      BY <2>1, <2>2
    <3>3. Lowest(all) \in all
      <4> HIDE DEF all
      <4> QED BY <3>2, LowestIsLeast
    <3>4. best # {} /\ best \in SUBSET Nat
      BY <2>2, <2>4, <3>1, <3>3
    <3>5. Lowest(best) \in best
      <4> HIDE DEF best
      <4> QED BY <3>4, LowestIsLeast
    <3> QED BY <2>4, <3>1, <3>5
  <2>5. upVia'[e] = Basic!Sequential!UpVia(e) /\ downVia'[e] = Basic!Sequential!DownVia(e)
    BY <1>2, <1>4
  <2> QED BY <1>2, <2>1, <2>3, <2>4, <2>5 DEF UpTriangle, DownTriangle
<1> QED BY <1>3, <1>4

(* If an edge has the distance of its ends so do the edges of a triangle   *)
(* that is as long.                                                        *)
LEMMA TriangleIsKept ==
    ASSUME DistancesInv, phase = "perfect", state[Root] = "done",
           NEW z \in Nodes, NEW a \in Edges, NEW b \in Edges, a[1] = z, b[1] = z,
           BasicDown(metric)[a] + BasicUp(metric)[b] = Distances(metric)[<<a[2], b[2]>>]
    PROVE  /\ a \notin downMod /\ b \notin upMod
           /\ down[a] = BasicDown(metric)[a] /\ up[b] = BasicUp(metric)[b]
<1> DEFINE d == Distances(metric)
<1>1. metric \in Metrics
  BY DEF DistancesInv, PerfectData
<1>2. Exact(d, BasicUp(metric), Edges) /\ Exact(Back(d), BasicDown(metric), Edges)
  BY <1>1, UpIsExact, DownIsExact
<1>3. /\ down[a] = d[<<a[2], a[1]>>] /\ up[b] = d[b]
      /\ a \in downMod <=> BasicDown(metric)[a] > d[<<a[2], a[1]>>]
      /\ b \in upMod <=> BasicUp(metric)[b] > d[b]
  BY FinallyExact
<1>4. a[2] \in Nodes /\ b[2] \in Nodes /\ b = <<z, b[2]>> /\ a = <<z, a[2]>>
  BY EdgeFacts DEF Edges
<1>5. Back(d)[a] = d[<<a[2], z>>]
  BY <1>4 DEF Back
<1> HIDE DEF d
<1>6. /\ BasicUp(metric)[b] \in Nat /\ BasicDown(metric)[a] \in Nat
      /\ d[b] <= BasicUp(metric)[b] /\ d[<<a[2], z>>] <= BasicDown(metric)[a]
  BY <1>2, <1>5 DEF Exact
<1>7. ASSUME NEW v \in Nodes, NEW w \in Nodes PROVE d[<<v, w>>] \in Nat
  <2>1. d[<<v, w>>] \in Weight
    BY <1>2 DEF Exact
  <2> QED BY <2>1, InfAssumption DEF Weight
<1>8. d[<<a[2], b[2]>>] <= d[<<a[2], z>>] + d[<<z, b[2]>>]
  BY <1>2, <1>4 DEF Exact
<1>9. BasicUp(metric)[b] = d[b] /\ BasicDown(metric)[a] = d[<<a[2], z>>]
  <2>1. d[<<a[2], z>>] \in Nat /\ d[<<z, b[2]>>] \in Nat /\ d[b] = d[<<z, b[2]>>]
    BY <1>4, <1>7
  <2>2. BasicDown(metric)[a] + BasicUp(metric)[b] = d[<<a[2], b[2]>>]
    BY DEF d
  <2> QED BY <1>6, <1>8, <2>1, <2>2
<1>10. /\ down[a] = d[<<a[2], z>>] /\ up[b] = d[b]
       /\ a \in downMod => BasicDown(metric)[a] > d[<<a[2], z>>]
       /\ b \in upMod => BasicUp(metric)[b] > d[b]
  BY <1>3, <1>4
<1>11. ~(BasicDown(metric)[a] > d[<<a[2], z>>]) /\ ~(BasicUp(metric)[b] > d[b])
  BY <1>6, <1>9
<1> QED BY <1>9, <1>10, <1>11

LEMMA TrianglesAreKept ==
    ASSUME DistancesInv, phase = "perfect", state[Root] = "done",
           \A e \in Edges : UpTriangle(e) /\ DownTriangle(e)
    PROVE  KeptTriangles
<1>1. /\ metric \in Metrics
      /\ Exact(Distances(metric), BasicUp(metric), Edges) /\ Exact(Back(Distances(metric)), BasicDown(metric), Edges)
  BY UpIsExact, DownIsExact DEF DistancesInv, PerfectData
<1>2. ASSUME NEW e \in Edges \ upMod, upVia[e] # None PROVE KeptTriangle(upVia[e], e[1], e[2], up[e])
  <2> DEFINE z == upVia[e]
  <2>1. z \in Triangles(e) /\ BasicUp(metric)[e] = BasicDown(metric)[<<z, e[1]>>] + BasicUp(metric)[<<z, e[2]>>]
    BY <1>2 DEF UpTriangle
  <2> HIDE DEF z
  <2>2. z \in Nodes /\ <<z, e[1]>> \in Edges /\ <<z, e[2]>> \in Edges
    BY <2>1, EdgeFacts DEF Triangles
  <2>3. up[e] = Distances(metric)[e] /\ ~(BasicUp(metric)[e] > Distances(metric)[e]) /\ e = <<e[1], e[2]>>
    BY FinallyExact, EdgeFacts
  <2>4. Distances(metric)[e] \in Nat /\ BasicUp(metric)[e] \in Nat /\ Distances(metric)[e] <= BasicUp(metric)[e]
    <3>1. Distances(metric)[e] \in Weight
      BY <1>1, EdgeFacts DEF Exact, Edges
    <3> QED BY <1>1, <3>1, InfAssumption DEF Exact, Weight
  <2>5. PICK a \in Edges, b \in Edges : a = <<z, e[1]>> /\ b = <<z, e[2]>> /\ a[1] = z /\ b[1] = z /\ <<a[2], b[2]>> = e
    BY <2>2, <2>3
  <2>6. BasicDown(metric)[a] + BasicUp(metric)[b] = Distances(metric)[<<a[2], b[2]>>] /\ BasicUp(metric)[e] = up[e]
    BY <2>1, <2>3, <2>4, <2>5
  <2>7. /\ a \notin downMod /\ b \notin upMod
        /\ down[a] = BasicDown(metric)[a] /\ up[b] = BasicUp(metric)[b]
    BY <2>2, <2>5, <2>6, TriangleIsKept
  <2> QED BY <2>1, <2>2, <2>5, <2>6, <2>7 DEF KeptTriangle, z
<1>3. ASSUME NEW e \in Edges \ downMod, downVia[e] # None PROVE KeptTriangle(downVia[e], e[2], e[1], down[e])
  <2> DEFINE z == downVia[e]
             back == <<e[2], e[1]>>
  <2>1. z \in Triangles(e) /\ BasicDown(metric)[e] = BasicDown(metric)[<<z, e[2]>>] + BasicUp(metric)[<<z, e[1]>>]
    BY <1>3 DEF DownTriangle
  <2> HIDE DEF z
  <2>2. z \in Nodes /\ <<z, e[1]>> \in Edges /\ <<z, e[2]>> \in Edges /\ e[1] \in Nodes /\ e[2] \in Nodes
    BY <2>1, EdgeFacts DEF Triangles, Edges
  <2>3. down[e] = Distances(metric)[back] /\ ~(BasicDown(metric)[e] > Distances(metric)[back])
    BY FinallyExact
  <2>4. /\ Distances(metric)[back] \in Nat /\ BasicDown(metric)[e] \in Nat /\ Distances(metric)[back] <= BasicDown(metric)[e]
    <3>1. Distances(metric)[back] \in Weight
      BY <1>1, <2>2 DEF Exact
    <3>2. Back(Distances(metric))[e] = Distances(metric)[back]
      BY DEF Back, Edges
    <3> QED BY <1>1, <3>1, <3>2, InfAssumption DEF Exact, Weight
  <2>5. PICK a \in Edges, b \in Edges : a = <<z, e[2]>> /\ b = <<z, e[1]>> /\ a[1] = z /\ b[1] = z /\ <<a[2], b[2]>> = back
    BY <2>2
  <2> HIDE DEF back
  <2>6. BasicDown(metric)[a] + BasicUp(metric)[b] = Distances(metric)[<<a[2], b[2]>>] /\ BasicDown(metric)[e] = down[e]
    BY <2>1, <2>3, <2>4, <2>5
  <2>7. /\ a \notin downMod /\ b \notin upMod
        /\ down[a] = BasicDown(metric)[a] /\ up[b] = BasicUp(metric)[b]
    BY <2>2, <2>5, <2>6, TriangleIsKept
  <2> QED BY <2>1, <2>2, <2>5, <2>6, <2>7 DEF KeptTriangle, z
<1> QED BY <1>2, <1>3 DEF KeptTriangles

-----------------------------------------------------------------------------
(* The rebuild, of what perfect customization left                         *)

ReducedInv ==
    /\ DistancesInv /\ RebuildInv
    /\ phase \in {"basic", "perfect", "rebuild"}
    /\ phase # "rebuild" => step = "waiting"
    /\ phase = "basic" => \A e \in Edges : e[1] \in customized => UpTriangle(e) /\ DownTriangle(e)
    /\ phase = "perfect" => \A e \in Edges : UpTriangle(e) /\ DownTriangle(e)
    /\ phase = "rebuild" => KeptTriangles

(* Threads do not touch what belongs to the rebuild.                       *)
LEMMA WaitingStays ==
    ASSUME RebuildInv, step = "waiting", UNCHANGED rebuildVars
    PROVE  RebuildInv' /\ step' = "waiting"
BY DEF RebuildInv, rebuildVars

LEMMA SameTriangles ==
    ASSUME metric' = metric, upVia' = upVia, downVia' = downVia, NEW e
    PROVE  /\ UpTriangle(e) => UpTriangle(e)'
           /\ DownTriangle(e) => DownTriangle(e)'
BY DEF UpTriangle, DownTriangle

LEMMA BasicReduced ==
    ASSUME ReducedInv, DistancesInv', NEW t \in Threads, ThreadStep(t), phase = "basic"
    PROVE  ReducedInv'
<1>1. /\ phase' = "basic" /\ Basic!Step(t) /\ UNCHANGED rebuildVars /\ BasicWeights /\ DataTypes /\ TreeInv /\ DataInv
      /\ RebuildInv /\ step = "waiting"
      /\ \A e \in Edges : e[1] \in customized => UpTriangle(e) /\ DownTriangle(e)
  BY DEF ThreadStep, ReducedInv, DistancesInv, FullInv, FullTreeInv, DataInv
<1>2. RebuildInv' /\ step' = "waiting"
  BY <1>1, WaitingStays
<1>3. Basic!Sequential!Next \/ UNCHANGED Basic!weightVars
  BY <1>1, BasicDataStep
<1>4. \A e \in Edges : e[1] \in customized' => UpTriangle(e)' /\ DownTriangle(e)'
  <2>1. CASE Basic!Sequential!Next
    BY <1>1, <2>1, BasicTrianglesStep
  <2>2. CASE UNCHANGED Basic!weightVars
    <3>1. metric' = metric /\ upVia' = upVia /\ downVia' = downVia /\ customized' = customized
      BY <2>2 DEF Basic!weightVars
    <3> QED BY <1>1, <3>1, SameTriangles
  <2> QED BY <1>3, <2>1, <2>2
<1> QED BY <1>1, <1>2, <1>4 DEF ReducedInv

LEMMA PerfectReduced ==
    ASSUME ReducedInv, DistancesInv', NEW t \in Threads, ThreadStep(t), phase = "perfect"
    PROVE  ReducedInv'
<1>1. /\ phase' = "perfect" /\ Perfect!Step(t) /\ UNCHANGED basicOnly /\ UNCHANGED rebuildVars
      /\ RebuildInv /\ step = "waiting"
      /\ \A e \in Edges : UpTriangle(e) /\ DownTriangle(e)
  BY DEF ThreadStep, ReducedInv
<1>2. RebuildInv' /\ step' = "waiting"
  BY <1>1, WaitingStays
<1>3. metric' = metric
  BY <1>1 DEF Perfect!Step, Perfect!Take, Perfect!SpawnSubs, Perfect!Return, Perfect!Load, Perfect!RelaxTriangle,
              Perfect!Unload, Perfect!weightVars
<1>4. upVia' = upVia /\ downVia' = downVia
  BY <1>1 DEF basicOnly
<1>5. \A e \in Edges : UpTriangle(e)' /\ DownTriangle(e)'
  BY <1>1, <1>3, <1>4, SameTriangles
<1> QED BY <1>1, <1>2, <1>5 DEF ReducedInv

LEMMA StartPerfectReduced ==
    ASSUME ReducedInv, DistancesInv', StartPerfect
    PROVE  ReducedInv'
<1>1. /\ phase = "basic" /\ phase' = "perfect" /\ state[Root] = "done" /\ UNCHANGED rebuildVars
      /\ metric' = metric /\ upVia' = upVia /\ downVia' = downVia
  BY DEF StartPerfect
<1>2. /\ TreeInv /\ RebuildInv /\ step = "waiting"
      /\ \A e \in Edges : e[1] \in customized => UpTriangle(e) /\ DownTriangle(e)
  BY <1>1 DEF ReducedInv, DistancesInv, FullInv, FullTreeInv
<1>3. RebuildInv' /\ step' = "waiting"
  BY <1>1, <1>2, WaitingStays
<1>4. Nodes \subseteq customized
  BY <1>1, <1>2, CellsAssumption DEF TreeInv, Progress
<1>5. \A e \in Edges : UpTriangle(e) /\ DownTriangle(e)
  BY <1>2, <1>4, EdgeFacts
<1>6. \A e \in Edges : UpTriangle(e)' /\ DownTriangle(e)'
  BY <1>1, <1>5, SameTriangles
<1> QED BY <1>1, <1>3, <1>6 DEF ReducedInv

LEMMA StartRebuildReduced ==
    ASSUME ReducedInv, DistancesInv', StartRebuild
    PROVE  ReducedInv'
<1>1. /\ phase = "perfect" /\ phase' = "rebuild" /\ state[Root] = "done"
      /\ StartSequential \/ \E k \in ChunkCounts : StartParallel(k)
      /\ UNCHANGED basicOnly /\ UNCHANGED perfectOnly /\ UNCHANGED threadVars
  BY DEF StartRebuild
<1>2. up' = up /\ down' = down /\ upMod' = upMod /\ downMod' = downMod /\ upVia' = upVia /\ downVia' = downVia
  BY <1>1 DEF basicOnly, perfectOnly, threadVars
<1>3. /\ DistancesInv /\ RebuildInv /\ step = "waiting"
      /\ \A e \in Edges : UpTriangle(e) /\ DownTriangle(e)
  BY <1>1 DEF ReducedInv
<1>4. KeptTriangles
  BY <1>1, <1>3, TrianglesAreKept
<1>5. KeptTriangles'
  BY <1>2, <1>4 DEF KeptTriangles, KeptTriangle
<1>6. RebuildInv'
  BY <1>1, <1>3, StartRebuildData
<1> QED BY <1>1, <1>5, <1>6 DEF ReducedInv

LEMMA RebuildReduced ==
    ASSUME ReducedInv, DistancesInv', RebuildStep
    PROVE  ReducedInv'
<1>1. /\ phase = "rebuild" /\ phase' = "rebuild" /\ Rebuild /\ UNCHANGED basicOnly /\ UNCHANGED perfectOnly /\ UNCHANGED threadVars
  BY DEF RebuildStep
<1>2. up' = up /\ down' = down /\ upMod' = upMod /\ downMod' = downMod /\ upVia' = upVia /\ downVia' = downVia
  BY <1>1 DEF basicOnly, perfectOnly, threadVars
<1>3. RebuildInv /\ KeptTriangles
  BY <1>1 DEF ReducedInv
<1>4. KeptTriangles'
  BY <1>2, <1>3 DEF KeptTriangles, KeptTriangle
<1>5. RebuildInv'
  BY <1>1, <1>3, AppendData, CountData, PrefixSumsData, CopyData, CloseData DEF Rebuild
<1> QED BY <1>1, <1>4, <1>5 DEF ReducedInv

LEMMA StutteringReduced ==
    ASSUME ReducedInv, DistancesInv', UNCHANGED allVars
    PROVE  ReducedInv'
<1>1. /\ phase' = phase /\ metric' = metric /\ customized' = customized /\ UNCHANGED rebuildVars
      /\ up' = up /\ down' = down /\ upMod' = upMod /\ downMod' = downMod /\ upVia' = upVia /\ downVia' = downVia
  BY DEF allVars, basicOnly, perfectOnly, threadVars
<1>2. step' = step /\ chunks' = chunks /\ pending' = pending /\ kept' = kept /\ fw' = fw /\ bw' = bw
  BY <1>1 DEF rebuildVars
<1>3. /\ Forward' = Forward /\ Backward' = Backward /\ NewForward' = NewForward /\ NewBackward' = NewBackward
      /\ \A i : ChunkNodes(i)' = ChunkNodes(i)
  BY <1>1, <1>2 DEF Forward, Backward, NewForward, NewBackward, ChunkNodes
<1>4. Appending => Appending'
  BY <1>1, <1>2, <1>3 DEF Appending
<1>5. Counting => Counting'
  BY <1>1, <1>2, <1>3 DEF Counting
<1>6. Copying => Copying'
  <2>1. /\ ChunksDone(fw, upMod, Forward) => ChunksDone(fw, upMod, Forward)'
        /\ ChunksDone(bw, downMod, Backward) => ChunksDone(bw, downMod, Backward)'
    BY <1>1, <1>2, <1>3 DEF ChunksDone, ChunkDone
  <2>2. \A i, mod : KeptBefore(i, mod)' = KeptBefore(i, mod')
    BY <1>2 DEF KeptBefore
  <2> QED BY <1>1, <1>2, <2>1, <2>2 DEF Copying
<1>7. /\ ReducedTo(fw, upMod, NewForward) => ReducedTo(fw, upMod, NewForward)'
      /\ ReducedTo(bw, downMod, NewBackward) => ReducedTo(bw, downMod, NewBackward)'
  BY <1>1, <1>2, <1>3 DEF ReducedTo
<1>8. RebuildInv'
  BY <1>2, <1>4, <1>5, <1>6, <1>7 DEF ReducedInv, RebuildInv
<1>9. KeptTriangles => KeptTriangles'
  BY <1>1 DEF KeptTriangles, KeptTriangle
<1>10. \A e : (UpTriangle(e) => UpTriangle(e)') /\ (DownTriangle(e) => DownTriangle(e)')
  BY <1>1, SameTriangles
<1> QED BY <1>1, <1>2, <1>8, <1>9, <1>10 DEF ReducedInv

LEMMA ReducedInductive == SpecFull => []ReducedInv
<1>1. InitFull => ReducedInv
  <2> SUFFICES ASSUME InitFull PROVE ReducedInv
    OBVIOUS
  <2>1. phase = "basic" /\ customized = {} /\ step = "waiting" /\ fw = Blank /\ bw = Blank /\ chunks = 0
    BY DEF InitFull, Basic!Init, InitRebuild
  <2> QED BY <2>1, DistancesInitially DEF ReducedInv, RebuildInv
<1>2. ReducedInv /\ [NextFull]_allVars => ReducedInv'
  <2> SUFFICES ASSUME ReducedInv, [NextFull]_allVars PROVE ReducedInv'
    OBVIOUS
  <2>1. DistancesInv'
    BY DistancesStep DEF ReducedInv
  <2>2. ASSUME NEW t \in Threads, ThreadStep(t) PROVE ReducedInv'
    <3>1. phase = "basic" \/ phase = "perfect"
      BY <2>2 DEF ThreadStep
    <3> QED BY <2>1, <2>2, <3>1, BasicReduced, PerfectReduced
  <2>3. CASE Caller
    BY <2>1, <2>3, StartPerfectReduced, StartRebuildReduced, RebuildReduced DEF Caller
  <2>4. CASE UNCHANGED allVars
    BY <2>1, <2>4, StutteringReduced
  <2> QED BY <2>2, <2>3, <2>4 DEF NextFull
<1> QED BY <1>1, <1>2, PTL DEF SpecFull

(* The records of edges have their tails, heads and weights.               *)
Describes(edge, weight) ==
    \A e \in Edges : edge[e].tail = e[1] /\ edge[e].head = e[2] /\ edge[e].weight = weight[e]

(* What is kept in one direction has its place, tail, head and weight.     *)
LEMMA PlacesExact ==
    ASSUME NEW g, NEW mod, NEW edge, NEW weight, ReducedTo(g, mod, edge),
           Describes(edge, weight), chunks = 0 \/ Graph[0] # {}
    PROVE  IsReduced(g, mod, weight)
<1>1. \A x \in 0 .. N : g.firstOut[x] = Cardinality(KeptOf(0 .. x - 1, mod))
  BY DEF ReducedTo
<1>2. ASSUME NEW e \in Edges \ mod
      PROVE  LET found == g.edges[Cardinality({f \in Edges \ mod : Before(f, e)})]
             IN  <<found.tail, found.head>> = e /\ found.weight = weight[e]
  <2>1. g.edges[Cardinality({f \in Edges \ mod : Before(f, e)})] = edge[e]
    BY DEF ReducedTo, Place
  <2>2. edge[e].tail = e[1] /\ edge[e].head = e[2] /\ edge[e].weight = weight[e] /\ <<e[1], e[2]>> = e
    BY EdgeEnds DEF Describes
  <2> QED BY <2>1, <2>2
<1> QED BY <1>1, <1>2 DEF IsReduced

LEMMA NewEdges == Describes(NewForward, up) /\ Describes(NewBackward, down)
BY DEF Describes, NewForward, NewBackward

(* Node by node, or in chunks whatever their number and the order in which *)
(* their tasks come to an end, the reduced graph has the edges that are    *)
(* not removed, each at its place and with its weight.  In chunks this     *)
(* needs an edge of the lowest node.                                       *)
THEOREM RebuildIsExact == SpecFull => []ReducedIsExact
<1>1. ASSUME ReducedInv, step = "rebuilt", chunks = 0 \/ Graph[0] # {}
      PROVE  IsReduced(fw, upMod, up) /\ IsReduced(bw, downMod, down)
  <2>1. ReducedTo(fw, upMod, NewForward) /\ ReducedTo(bw, downMod, NewBackward)
    BY <1>1 DEF ReducedInv, RebuildInv
  <2>2. Describes(NewForward, up) /\ Describes(NewBackward, down)
    BY NewEdges
  <2>3. IsReduced(fw, upMod, up)
    BY <1>1, <2>1, <2>2, PlacesExact
  <2>4. IsReduced(bw, downMod, down)
    BY <1>1, <2>1, <2>2, PlacesExact
  <2> QED BY <2>3, <2>4
<1>2. ReducedInv => ReducedIsExact
  BY <1>1 DEF ReducedIsExact
<1> QED BY <1>2, ReducedInductive, PTL

(* An edge whose triangle is kept, in the reduced graph.                   *)
LEMMA PartsAreKept ==
    ASSUME ReducedTo(fw, upMod, NewForward), ReducedTo(bw, downMod, NewBackward),
           NEW z, NEW x, NEW y, NEW edge, KeptTriangle(z, x, y, edge.weight),
           edge.unpack = <<Place(Edges \ downMod, <<z, x>>), Place(Edges \ upMod, <<z, y>>)>>
    PROVE  UnpacksExactly(edge, x, y)
<1>1. PICK e, f : /\ e = <<z, x>> /\ f = <<z, y>> /\ e \in Edges \ downMod /\ f \in Edges \ upMod
                  /\ edge.weight = down[e] + up[f]
  BY DEF KeptTriangle
<1>2. PICK a, b : a = Place(Edges \ downMod, e) /\ b = Place(Edges \ upMod, f)
  OBVIOUS
<1>3. /\ a < bw.firstOut[N] /\ bw.edges[a] = NewBackward[e]
      /\ b < fw.firstOut[N] /\ fw.edges[b] = NewForward[f]
  BY <1>1, <1>2, PlaceIsId DEF ReducedTo
<1>4. /\ NewBackward[e].tail = z /\ NewBackward[e].head = x /\ NewBackward[e].weight = down[e]
      /\ NewForward[f].tail = z /\ NewForward[f].head = y /\ NewForward[f].weight = up[f]
  BY <1>1, NewEdges DEF Describes
<1>5. edge.unpack[1] = a /\ edge.unpack[2] = b
  BY <1>1, <1>2
<1> QED BY <1>1, <1>3, <1>4, <1>5 DEF UnpacksExactly

WasKept(g, mod, edge, p) == \E e \in Edges \ mod : g.edges[p] = edge[e]

(* The edges of the reduced graph are those that were kept.                *)
LEMMA EdgesWereKept ==
    ASSUME NEW g, NEW mod, NEW edge, ReducedTo(g, mod, edge), NEW p \in 0 .. g.firstOut[N] - 1
    PROVE  WasKept(g, mod, edge, p)
<1>1. p \in 0 .. Cardinality(Edges \ mod) - 1 /\ Edges \ mod \in SUBSET Edges
  BY DEF ReducedTo
<1>2. \E e \in Edges \ mod : Place(Edges \ mod, e) = p
  BY <1>1, PlacesAreTaken
<1> QED BY <1>2 DEF ReducedTo, WasKept

(* An edge of the reduced graph that is a shortcut unpacks to two edges of *)
(* it that form a triangle with it and are together as long: what the      *)
(* rebuild removes is part of none of the triangles that basic             *)
(* customization remembered for the edges that stay.                       *)
THEOREM UnpackingSurvives == SpecFull => []ReducedUnpacks
<1>1. ASSUME ReducedInv, step = "rebuilt" PROVE ReducedUnpacks
  <2>1. ReducedTo(fw, upMod, NewForward) /\ ReducedTo(bw, downMod, NewBackward) /\ KeptTriangles
    BY <1>1 DEF ReducedInv, RebuildInv
  <2>2. ASSUME NEW p \in 0 .. fw.firstOut[N] - 1
        PROVE  UnpacksExactly(fw.edges[p], fw.edges[p].tail, fw.edges[p].head)
    <3>1. PICK e \in Edges \ upMod : fw.edges[p] = NewForward[e]
      <4>1. WasKept(fw, upMod, NewForward, p)
        BY <2>1, EdgesWereKept
      <4> QED BY <4>1 DEF WasKept
    <3>2. NewForward[e].tail = e[1] /\ NewForward[e].head = e[2] /\ NewForward[e].weight = up[e]
      BY NewEdges DEF Describes
    <3>3. CASE upVia[e] = None
      BY <3>1, <3>3 DEF NewForward, UnpacksExactly
    <3>4. CASE upVia[e] # None
      <4>1. PICK z, x, y, edge : z = upVia[e] /\ x = e[1] /\ y = e[2] /\ edge = fw.edges[p]
        OBVIOUS
      <4>2. KeptTriangle(z, x, y, up[e])
        BY <2>1, <3>4, <4>1 DEF KeptTriangles
      <4>3. edge.unpack = <<Place(Edges \ downMod, <<z, x>>), Place(Edges \ upMod, <<z, y>>)>> /\ edge.weight = up[e]
        BY <3>1, <3>2, <3>4, <4>1 DEF NewForward
      <4>4. UnpacksExactly(edge, x, y)
        BY <2>1, <4>2, <4>3, PartsAreKept
      <4> QED BY <3>1, <3>2, <4>1, <4>4
    <3> QED BY <3>3, <3>4
  <2>3. ASSUME NEW p \in 0 .. bw.firstOut[N] - 1
        PROVE  UnpacksExactly(bw.edges[p], bw.edges[p].head, bw.edges[p].tail)
    <3>1. PICK e \in Edges \ downMod : bw.edges[p] = NewBackward[e]
      <4>1. WasKept(bw, downMod, NewBackward, p)
        BY <2>1, EdgesWereKept
      <4> QED BY <4>1 DEF WasKept
    <3>2. NewBackward[e].tail = e[1] /\ NewBackward[e].head = e[2] /\ NewBackward[e].weight = down[e]
      BY NewEdges DEF Describes
    <3>3. CASE downVia[e] = None
      BY <3>1, <3>3 DEF NewBackward, UnpacksExactly
    <3>4. CASE downVia[e] # None
      <4>1. PICK z, x, y, edge : z = downVia[e] /\ x = e[2] /\ y = e[1] /\ edge = bw.edges[p]
        OBVIOUS
      <4>2. KeptTriangle(z, x, y, down[e])
        BY <2>1, <3>4, <4>1 DEF KeptTriangles
      <4>3. edge.unpack = <<Place(Edges \ downMod, <<z, x>>), Place(Edges \ upMod, <<z, y>>)>> /\ edge.weight = down[e]
        BY <3>1, <3>2, <3>4, <4>1 DEF NewBackward
      <4>4. UnpacksExactly(edge, x, y)
        BY <2>1, <4>2, <4>3, PartsAreKept
      <4> QED BY <3>1, <3>2, <4>1, <4>4
    <3> QED BY <3>3, <3>4
  <2> QED BY <2>2, <2>3 DEF ReducedUnpacks
<1>2. ReducedInv => ReducedUnpacks
  BY <1>1 DEF ReducedUnpacks
<1> QED BY <1>2, ReducedInductive, PTL
=============================================================================

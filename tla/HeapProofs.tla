----------------------------- MODULE HeapProofs ------------------------------
(***************************************************************************)
(* The heap finds its elements, for every set of ids, all keys and every   *)
(* arity.                                                                  *)
(***************************************************************************)
EXTENDS IndexedHeap, NaturalsInduction, WellFoundedInduction, TLAPS

(* Between two operations, the positions say where the elements are, and   *)
(* which there are: what contains_index, get and update_key rely on.       *)
PositionsAgree ==
    sift = "ready" =>
        /\ \A p \in 0 .. Len(data) - 1 : positions[At(p).id] = p
        /\ \A i \in Ids : positions[i] # None =>
               positions[i] \in 0 .. Len(data) - 1 /\ At(positions[i]).id = i

(* In the middle of an operation, this is true of all but the hole and the *)
(* element held aside, which is nowhere else.                              *)
Filled == {p \in 0 .. Len(data) - 1 : sift = "down" => p # at}

Elsewhere == {i \in Ids : sift = "down" => i # held.id}

IInv ==
    /\ TypeOK
    /\ sift # "ready" => at < Len(data)
    /\ sift = "down" => held \in Element
    /\ \A p \in Filled : positions[At(p).id] = p /\ At(p).id \in Elsewhere
    /\ \A i \in Elsewhere : positions[i] # None => positions[i] \in Filled /\ At(positions[i]).id = i

(* The places that MoveUp and MoveDown exchange differ.                    *)
LEMMA ParentIsBefore ==
    ASSUME Arity \in Nat \ {0}, NEW p \in Nat, p > 0
    PROVE  ParentOf(p) \in Nat /\ ParentOf(p) < p
  BY DEF ParentOf

LEMMA ChildIsBehind ==
    ASSUME Arity \in Nat \ {0}, NEW p \in Nat, NEW c \in Children(p), data \in Seq(Element)
    PROVE  c \in Nat /\ c > p /\ c < Len(data)
<1>1. Arity * p >= p
  OBVIOUS
<1>2. Arity * p \in Nat
  OBVIOUS
<1> QED BY <1>1, <1>2 DEF Children

(* Elements have ids, and no two places have an element of the same id.    *)
LEMMA Apart ==
    ASSUME IInv
    PROVE  /\ \A p \in 0 .. Len(data) - 1 : At(p) \in Element /\ At(p).id \in Ids
           /\ \A p, q \in Filled : At(p).id = At(q).id => p = q
<1>1. \A p \in 0 .. Len(data) - 1 : At(p) \in Element
  BY DEF IInv, TypeOK, At
<1>2. \A e \in Element : e.id \in Ids
  BY DEF Element
<1> QED BY <1>1, <1>2 DEF IInv, At

LEMMA PushPositions ==
    ASSUME IInv, NEW i \in Ids, NEW k \in Keys, Push(i, k)
    PROVE  IInv'
<1> DEFINE After(p) == data'[p + 1]
           element == [id |-> i, key |-> k]
<1>1. /\ sift = "ready" /\ positions[i] = None
      /\ data' = Append(data, element) /\ positions' = [positions EXCEPT ![i] = Len(data)]
      /\ sift' = "up" /\ at' = Len(data) /\ held' = held
  BY DEF Push
<1>2. element \in Element /\ element.id = i
  BY DEF Element
<1>3. /\ data' \in Seq(Element) /\ Len(data') = Len(data) + 1 /\ Len(data) \in Nat
      /\ After(Len(data)) = element
      /\ \A p \in 0 .. Len(data) - 1 : After(p) = At(p)
  BY <1>1, <1>2 DEF IInv, TypeOK, At
<1>4. TypeOK'
  BY <1>1, <1>3 DEF IInv, TypeOK
<1>5. Filled = 0 .. Len(data) - 1 /\ Elsewhere = Ids /\ Filled' = 0 .. Len(data) /\ Elsewhere' = Ids
  BY <1>1, <1>3 DEF Filled, Elsewhere
<1>6. ASSUME NEW p \in Filled' PROVE positions'[After(p).id] = p /\ After(p).id \in Elsewhere'
  <2>1. CASE p = Len(data)
    BY <1>1, <1>2, <1>3, <1>5, <2>1 DEF IInv, TypeOK
  <2>2. CASE p \in Filled
    <3>1. At(p).id # i
      BY <1>1, <1>5, <2>2 DEF IInv, None
    <3> QED BY <1>1, <1>3, <1>5, <2>2, <3>1, Apart DEF IInv, TypeOK
  <2> QED BY <1>3, <1>5, <1>6, <2>1, <2>2
<1>7. ASSUME NEW j \in Elsewhere', positions'[j] # None
      PROVE  positions'[j] \in Filled' /\ After(positions'[j]).id = j
  BY <1>1, <1>2, <1>3, <1>5, <1>7 DEF IInv, TypeOK
<1>8. at' < Len(data') /\ sift' = "up"
  BY <1>1, <1>3
<1> QED BY <1>4, <1>6, <1>7, <1>8 DEF IInv, At

LEMMA PopRootPositions ==
    ASSUME IInv, PopRoot
    PROVE  IInv'
<1> DEFINE After(p) == data'[p + 1]
           n == Len(data) - 1
           last == At(n)
<1>1. /\ sift = "ready" /\ Len(data) > 1
      /\ data' = SubSeq([data EXCEPT ![1] = last], 1, n)
      /\ positions' = [positions EXCEPT ![last.id] = 0, ![At(0).id] = None]
      /\ sift' = "down" /\ at' = 0 /\ held' = last
  BY DEF PopRoot
<1>2. n \in Nat /\ n > 0 /\ last \in Element
  BY <1>1, Apart DEF IInv, TypeOK
<1>3. /\ data' \in Seq(Element) /\ Len(data') = n
      /\ \A p \in 1 .. n - 1 : After(p) = At(p)
  BY <1>1, <1>2 DEF IInv, TypeOK, At
<1>4. Filled = 0 .. n /\ Elsewhere = Ids /\ Filled' = 1 .. n - 1 /\ Elsewhere' = Ids \ {last.id}
  BY <1>1, <1>2, <1>3 DEF Filled, Elsewhere, IInv, TypeOK
<1>5. TypeOK'
  BY <1>1, <1>2, <1>3 DEF IInv, TypeOK, None
<1>6. ASSUME NEW p \in Filled' PROVE positions'[After(p).id] = p /\ After(p).id \in Elsewhere'
  <2>1. p \in Filled /\ p # 0 /\ p # n /\ After(p) = At(p)
    BY <1>2, <1>3, <1>4
  <2>2. At(p).id # last.id /\ At(p).id # At(0).id
    BY <1>2, <1>4, <2>1, Apart
  <2> QED BY <1>1, <1>4, <2>1, <2>2, Apart DEF IInv, TypeOK
<1>7. ASSUME NEW j \in Elsewhere', positions'[j] # None
      PROVE  positions'[j] \in Filled' /\ After(positions'[j]).id = j
  <2>1. j # last.id /\ j # At(0).id /\ positions'[j] = positions[j]
    BY <1>1, <1>4, <1>7 DEF IInv, TypeOK
  <2>2. positions[j] \in Filled /\ At(positions[j]).id = j
    BY <1>4, <1>7, <2>1 DEF IInv
  <2>3. positions[j] # n /\ positions[j] # 0
    BY <2>1, <2>2
  <2> QED BY <1>2, <1>3, <1>4, <2>1, <2>2, <2>3
<1> QED BY <1>1, <1>2, <1>3, <1>5, <1>6, <1>7 DEF IInv, At

(* A new key for an element in its place: to move up, or to be held aside. *)
LEMMA UpdatePositions ==
    ASSUME IInv, NEW i \in Ids, NEW k \in Keys, DecreaseKey(i, k) \/ IncreaseKey(i, k)
    PROVE  IInv'
<1> DEFINE After(p) == data'[p + 1]
           element == [id |-> i, key |-> k]
<1>1. /\ sift = "ready" /\ positions[i] # None
      /\ data' = [data EXCEPT ![positions[i] + 1] = element]
      /\ at' = positions[i] /\ positions' = positions
      /\ \/ sift' = "up" /\ held' = held
         \/ sift' = "down" /\ held' = element
  BY DEF DecreaseKey, IncreaseKey
<1>2. element \in Element /\ element.id = i
  BY DEF Element
<1>3. Filled = 0 .. Len(data) - 1 /\ Elsewhere = Ids
  BY <1>1 DEF Filled, Elsewhere
<1>4. positions[i] \in Filled /\ At(positions[i]).id = i
  BY <1>1, <1>3 DEF IInv
<1>5. /\ data' \in Seq(Element) /\ Len(data') = Len(data)
      /\ \A p \in Filled : After(p).id = At(p).id
  BY <1>1, <1>2, <1>3, <1>4 DEF IInv, TypeOK, At
<1>6. TypeOK'
  BY <1>1, <1>2, <1>3, <1>4, <1>5 DEF IInv, TypeOK
<1>7. /\ Filled' \subseteq Filled /\ Elsewhere' \subseteq Elsewhere
      /\ sift' = "up" => Filled' = Filled /\ Elsewhere' = Elsewhere
      /\ sift' = "down" => Filled' = Filled \ {positions[i]} /\ Elsewhere' = Ids \ {i}
  BY <1>1, <1>2, <1>3, <1>5 DEF Filled, Elsewhere
<1>8. ASSUME NEW p \in Filled' PROVE positions'[After(p).id] = p /\ After(p).id \in Elsewhere'
  BY <1>1, <1>3, <1>4, <1>5, <1>7, Apart DEF IInv
<1>9. ASSUME NEW j \in Elsewhere', positions'[j] # None
      PROVE  positions'[j] \in Filled' /\ After(positions'[j]).id = j
  BY <1>1, <1>3, <1>4, <1>5, <1>7, <1>9 DEF IInv
<1> QED BY <1>1, <1>2, <1>3, <1>4, <1>5, <1>6, <1>8, <1>9 DEF IInv, At

LEMMA MoveUpPositions ==
    ASSUME Arity \in Nat \ {0}, IInv, MoveUp
    PROVE  IInv'
<1> DEFINE After(p) == data'[p + 1]
           above == ParentOf(at)
<1>1. /\ sift = "up" /\ at > 0
      /\ data' = [data EXCEPT ![at + 1] = At(above), ![above + 1] = At(at)]
      /\ positions' = [positions EXCEPT ![At(above).id] = positions[At(at).id],
                                        ![At(at).id] = positions[At(above).id]]
      /\ at' = above /\ sift' = sift /\ held' = held
  BY DEF MoveUp
<1>2. at \in Nat /\ at < Len(data) /\ above \in Nat /\ above < at
  BY <1>1, ParentIsBefore DEF IInv, TypeOK
<1> HIDE DEF above
<1>3. Filled = 0 .. Len(data) - 1 /\ Elsewhere = Ids
  BY <1>1 DEF Filled, Elsewhere
<1>4. at \in Filled /\ above \in Filled /\ At(at).id # At(above).id
  BY <1>2, <1>3, Apart DEF IInv, TypeOK
<1>5. /\ data' \in Seq(Element) /\ Len(data') = Len(data)
      /\ After(at) = At(above) /\ After(above) = At(at)
      /\ \A p \in Filled \ {at, above} : After(p) = At(p)
  BY <1>1, <1>2, <1>3 DEF IInv, TypeOK, At
<1>6. positions[At(at).id] = at /\ positions[At(above).id] = above
  BY <1>4 DEF IInv
<1>7. /\ positions'[At(at).id] = above /\ positions'[At(above).id] = at
      /\ \A j \in Ids \ {At(at).id, At(above).id} : positions'[j] = positions[j]
  BY <1>1, <1>3, <1>4, <1>6, Apart DEF IInv, TypeOK
<1>8. TypeOK'
  BY <1>1, <1>2, <1>5, <1>6 DEF IInv, TypeOK
<1>9. Filled' = Filled /\ Elsewhere' = Elsewhere
  BY <1>1, <1>5 DEF Filled, Elsewhere
<1>10. ASSUME NEW p \in Filled' PROVE positions'[After(p).id] = p /\ After(p).id \in Elsewhere'
  <2>1. CASE p \in {at, above}
    BY <1>3, <1>4, <1>5, <1>7, <1>9, <2>1, Apart
  <2>2. CASE p \notin {at, above}
    <3>1. p \in Filled /\ After(p) = At(p) /\ positions[At(p).id] = p /\ At(p).id \in Ids
      BY <1>3, <1>5, <1>9, <2>2 DEF IInv
    <3>2. At(p).id \notin {At(at).id, At(above).id}
      BY <1>6, <2>2, <3>1
    <3> QED BY <1>3, <1>7, <1>9, <3>1, <3>2
  <2> QED BY <2>1, <2>2
<1>11. ASSUME NEW j \in Elsewhere', positions'[j] # None
       PROVE  positions'[j] \in Filled' /\ After(positions'[j]).id = j
  <2>1. CASE j \in {At(at).id, At(above).id}
    BY <1>4, <1>5, <1>7, <1>9, <2>1
  <2>2. CASE j \notin {At(at).id, At(above).id}
    <3>1. positions'[j] = positions[j] /\ positions[j] \in Filled /\ At(positions[j]).id = j
      BY <1>3, <1>7, <1>9, <1>11, <2>2 DEF IInv
    <3>2. positions[j] \notin {at, above}
      BY <2>2, <3>1
    <3> QED BY <1>5, <1>9, <3>1, <3>2
  <2> QED BY <2>1, <2>2
<1>12. at' < Len(data') /\ sift' = "up"
  BY <1>1, <1>2, <1>5
<1> QED BY <1>8, <1>10, <1>11, <1>12 DEF IInv, At

LEMMA MoveDownPositions ==
    ASSUME Arity \in Nat \ {0}, IInv, MoveDown
    PROVE  IInv'
<1> DEFINE After(p) == data'[p + 1]
<1>1. PICK c \in Children(at) :
        /\ positions' = [positions EXCEPT ![At(c).id] = at]
        /\ data' = [data EXCEPT ![at + 1] = At(c)]
        /\ at' = c
  BY DEF MoveDown
<1>2. sift = "down" /\ sift' = "down" /\ held' = held
  BY DEF MoveDown
<1>3. at \in Nat /\ at < Len(data) /\ c \in Nat /\ c > at /\ c < Len(data)
  BY <1>2, ChildIsBehind DEF IInv, TypeOK
<1>4. Filled = (0 .. Len(data) - 1) \ {at} /\ Elsewhere = Ids \ {held.id}
  BY <1>2 DEF Filled, Elsewhere
<1>5. /\ data' \in Seq(Element) /\ Len(data') = Len(data)
      /\ After(at) = At(c)
      /\ \A p \in Filled : After(p) = At(p)
  BY <1>1, <1>3, <1>4 DEF IInv, TypeOK, At
<1>6. c \in Filled /\ Filled' = (Filled \ {c}) \cup {at} /\ Elsewhere' = Elsewhere
  BY <1>1, <1>2, <1>3, <1>4, <1>5 DEF Filled, Elsewhere, IInv, TypeOK
<1>7. At(c).id \in Elsewhere /\ positions[At(c).id] = c
  BY <1>6 DEF IInv
<1>8. /\ positions'[At(c).id] = at
      /\ \A j \in Ids \ {At(c).id} : positions'[j] = positions[j]
  BY <1>1, <1>4, <1>7 DEF IInv, TypeOK
<1>9. TypeOK'
  BY <1>1, <1>2, <1>3, <1>5 DEF IInv, TypeOK
<1>10. ASSUME NEW p \in Filled' PROVE positions'[After(p).id] = p /\ After(p).id \in Elsewhere'
  <2>1. CASE p = at
    BY <1>5, <1>6, <1>7, <1>8, <2>1
  <2>2. CASE p # at
    <3>1. p \in Filled /\ p # c /\ After(p) = At(p) /\ At(p).id \in Elsewhere /\ positions[At(p).id] = p
      BY <1>5, <1>6, <2>2 DEF IInv
    <3>2. At(p).id # At(c).id
      BY <1>6, <3>1, Apart
    <3> QED BY <1>4, <1>6, <1>8, <3>1, <3>2
  <2> QED BY <2>1, <2>2
<1>11. ASSUME NEW j \in Elsewhere', positions'[j] # None
       PROVE  positions'[j] \in Filled' /\ After(positions'[j]).id = j
  <2>1. CASE j = At(c).id
    BY <1>5, <1>6, <1>8, <2>1
  <2>2. CASE j # At(c).id
    <3>1. positions'[j] = positions[j] /\ positions[j] \in Filled /\ At(positions[j]).id = j
      BY <1>4, <1>6, <1>8, <1>11, <2>2 DEF IInv
    <3> QED BY <1>5, <1>6, <2>2, <3>1
  <2> QED BY <2>1, <2>2
<1> QED BY <1>1, <1>2, <1>3, <1>5, <1>9, <1>10, <1>11 DEF IInv, At

LEMMA StopDownPositions ==
    ASSUME IInv, StopDown
    PROVE  IInv'
<1> DEFINE After(p) == data'[p + 1]
<1>1. /\ sift = "down" /\ sift' = "ready" /\ at' = 0 /\ held' = Nothing
      /\ positions' = [positions EXCEPT ![held.id] = at]
      /\ data' = [data EXCEPT ![at + 1] = held]
  BY DEF StopDown
<1>2. at \in Nat /\ at < Len(data) /\ held \in Element /\ held.id \in Ids
  BY <1>1 DEF IInv, TypeOK, Element
<1>3. /\ Filled = (0 .. Len(data) - 1) \ {at} /\ Elsewhere = Ids \ {held.id}
  BY <1>1 DEF Filled, Elsewhere
<1>4. /\ data' \in Seq(Element) /\ Len(data') = Len(data)
      /\ After(at) = held
      /\ \A p \in Filled : After(p) = At(p)
  BY <1>1, <1>2, <1>3 DEF IInv, TypeOK, At
<1>5. Filled' = Filled \cup {at} /\ Elsewhere' = Ids
  BY <1>1, <1>2, <1>3, <1>4 DEF Filled, Elsewhere, IInv, TypeOK
<1>6. /\ positions'[held.id] = at
      /\ \A j \in Elsewhere : positions'[j] = positions[j]
  BY <1>1, <1>2, <1>3 DEF IInv, TypeOK
<1>7. TypeOK'
  BY <1>1, <1>2, <1>4 DEF IInv, TypeOK
<1>8. ASSUME NEW p \in Filled' PROVE positions'[After(p).id] = p /\ After(p).id \in Elsewhere'
  <2>1. CASE p = at
    BY <1>2, <1>4, <1>5, <1>6, <2>1
  <2>2. CASE p \in Filled
    BY <1>3, <1>4, <1>5, <1>6, <2>2 DEF IInv
  <2> QED BY <1>5, <2>1, <2>2
<1>9. ASSUME NEW j \in Elsewhere', positions'[j] # None
      PROVE  positions'[j] \in Filled' /\ After(positions'[j]).id = j
  BY <1>3, <1>4, <1>5, <1>6, <1>9 DEF IInv
<1> QED BY <1>1, <1>4, <1>7, <1>8, <1>9 DEF IInv, At

(* The operations that empty the heap or leave the elements in place.      *)
LEMMA OtherPositions ==
    ASSUME IInv, PopEmpty \/ PopOnly \/ Clear \/ StopUp \/ UNCHANGED vars
           \/ \E i \in Ids, k \in Keys : KeepKey(i, k)
    PROVE  IInv'
<1>1. CASE PopEmpty \/ UNCHANGED vars \/ \E i \in Ids, k \in Keys : KeepKey(i, k)
  BY <1>1 DEF PopEmpty, KeepKey, vars, IInv, TypeOK, Filled, Elsewhere, At
<1>2. CASE StopUp
  BY <1>2 DEF StopUp, IInv, TypeOK, Filled, Elsewhere, At
<1>3. CASE PopOnly
  <2>1. /\ sift = "ready" /\ sift' = "ready" /\ Len(data) = 1 /\ data' = <<>>
        /\ positions' = [positions EXCEPT ![At(0).id] = None] /\ at' = at /\ held' = held
    BY <1>3 DEF PopOnly
  <2>2. Filled = {0} /\ Filled' = {} /\ Elsewhere = Ids /\ Elsewhere' = Ids
    BY <2>1 DEF Filled, Elsewhere
  <2>3. \A j \in Ids : positions'[j] = None
    BY <2>1, <2>2 DEF IInv, TypeOK
  <2>4. positions' \in [Ids -> Nat \cup {None}]
    BY <2>1 DEF IInv, TypeOK
  <2>5. TypeOK'
    BY <2>1, <2>4 DEF IInv, TypeOK
  <2> QED BY <2>1, <2>2, <2>3, <2>5 DEF IInv
<1>4. CASE Clear
  <2>1. /\ sift = "ready" /\ sift' = "ready" /\ data' = <<>> /\ at' = at /\ held' = held
        /\ positions' = [i \in Ids |-> IF \E p \in DOMAIN data : data[p].id = i THEN None ELSE positions[i]]
    BY <1>4 DEF Clear
  <2>2. Filled = 0 .. Len(data) - 1 /\ Filled' = {} /\ Elsewhere = Ids /\ Elsewhere' = Ids
    BY <2>1 DEF Filled, Elsewhere
  <2>3. ASSUME NEW j \in Ids PROVE positions'[j] = None
    <3>1. CASE positions[j] = None
      BY <2>1, <3>1
    <3>2. CASE positions[j] # None
      <4>1. positions[j] \in 0 .. Len(data) - 1 /\ data[positions[j] + 1].id = j
        BY <2>2, <3>2 DEF IInv, At
      <4>2. positions[j] + 1 \in DOMAIN data
        BY <4>1 DEF IInv, TypeOK
      <4> QED BY <2>1, <4>1, <4>2
    <3> QED BY <3>1, <3>2
  <2>4. TypeOK'
    BY <2>1 DEF IInv, TypeOK
  <2> QED BY <2>1, <2>2, <2>3, <2>4 DEF IInv
<1> QED BY <1>1, <1>2, <1>3, <1>4

-----------------------------------------------------------------------------
(* Order.  At(at) has moved on while an element is held aside: then that   *)
(* one counts.                                                             *)
Elt(p) == IF sift = "down" /\ p = at THEN held ELSE At(p)

Places == 0 .. Len(data) - 1

(* No element is less than its parent.  While one moves up, this need not  *)
(* hold of itself, while one moves down, it need not hold of its children; *)
(* but what is below the moving element is not less than what is above it. *)
Ordered ==
    /\ \A p \in Places \ {0} :
           \/ Less(Elt(ParentOf(p)), Elt(p))
           \/ sift = "up" /\ p = at
           \/ sift = "down" /\ ParentOf(p) = at
    /\ sift # "ready" /\ at > 0 =>
           \A p \in Places \ {0} : ParentOf(p) = at => Less(Elt(ParentOf(at)), Elt(p))

HeapInv == IInv /\ Ordered

(* Elements with different ids are ordered.                                *)
LEMMA LessIsTotal ==
    ASSUME Keys \subseteq Int, Ids \subseteq Int
    PROVE  /\ \A a, b, c \in Element : Less(a, b) /\ Less(b, c) => Less(a, c)
           /\ \A a, b \in Element : a.id # b.id => Less(a, b) \/ Less(b, a)
           /\ \A a, b \in Element : Less(a, b) => ~Less(b, a)
<1>1. \A a \in Element : a.key \in Int /\ a.id \in Int
  BY DEF Element
<1>2. \A a, b, c \in Element : Less(a, b) /\ Less(b, c) => Less(a, c)
  BY <1>1 DEF Less
<1>3. \A a, b \in Element : a.id # b.id => Less(a, b) \/ Less(b, a)
  BY <1>1 DEF Less
<1>4. \A a, b \in Element : Less(a, b) => ~Less(b, a)
  BY <1>1 DEF Less
<1> QED BY <1>2, <1>3, <1>4

(* The children of a place are those whose parent it is.                   *)
LEMMA ChildrenHaveParent ==
    ASSUME Arity \in Nat \ {0}, data \in Seq(Element), NEW p \in Nat, NEW c \in Int
    PROVE  c \in Children(p) <=> c \in Places /\ c # 0 /\ ParentOf(c) = p
<1>1. Len(data) \in Nat
  OBVIOUS
<1>2. ASSUME NEW q \in Nat PROVE (Arity * p <= q /\ q < Arity * p + Arity) <=> q \div Arity = p
  <2> DEFINE d == q \div Arity
  <2>1. d \in Nat /\ Arity * d <= q /\ q < Arity * d + Arity
    OBVIOUS
  <2> HIDE DEF d
  <2>2. CASE d = p
    BY <2>1, <2>2 DEF d
  <2>3. CASE d < p
    <3>1. Arity * d + Arity <= Arity * p
      BY <2>1, <2>3
    <3> QED BY <2>1, <2>3, <3>1 DEF d
  <2>4. CASE d > p
    <3>1. Arity * p + Arity <= Arity * d
      BY <2>1, <2>4
    <3> QED BY <2>1, <2>4, <3>1 DEF d
  <2> QED BY <2>1, <2>2, <2>3, <2>4
<1>3. Arity * p \in Nat
  OBVIOUS
<1>4. CASE c <= 0
  BY <1>1, <1>3, <1>4 DEF Children, Places
<1>5. CASE c > 0
  <2>1. c - 1 \in Nat
    BY <1>5
  <2> QED BY <1>1, <1>2, <1>3, <1>5, <2>1 DEF Children, Places, ParentOf
<1> QED BY <1>4, <1>5

(* What counts at different places has different ids.                      *)
LEMMA EltFacts ==
    ASSUME IInv
    PROVE  /\ Places \subseteq Nat /\ Len(data) \in Nat
           /\ sift # "ready" => at \in Places
           /\ \A p \in Places : Elt(p) \in Element /\ Elt(p).id \in Ids
           /\ \A p, q \in Places : p # q => Elt(p).id # Elt(q).id
<1>1. Places \subseteq Nat /\ Len(data) \in Nat /\ (sift # "ready" => at \in Places)
  BY DEF IInv, TypeOK, Places
<1>2. \A p \in Places : Elt(p) \in Element /\ Elt(p).id \in Ids
  BY Apart DEF Places, Elt, IInv, Element
<1>3. ASSUME NEW p \in Places, NEW q \in Places, p # q PROVE Elt(p).id # Elt(q).id
  <2>1. CASE p \in Filled /\ q \in Filled
    BY <1>3, <2>1, Apart DEF Filled, Elt, Places
  <2>2. CASE p \notin Filled
    <3>1. sift = "down" /\ p = at /\ Elt(p) = held /\ q \in Filled /\ Elt(q) = At(q)
      BY <1>3, <2>2 DEF Filled, Elt, Places
    <3> QED BY <3>1 DEF IInv, Elsewhere
  <2>3. CASE q \notin Filled
    <3>1. sift = "down" /\ q = at /\ Elt(q) = held /\ p \in Filled /\ Elt(p) = At(p)
      BY <1>3, <2>3 DEF Filled, Elt, Places
    <3> QED BY <3>1 DEF IInv, Elsewhere
  <2> QED BY <2>1, <2>2, <2>3
<1> QED BY <1>1, <1>2, <1>3

(* The parent of a place is a place.                                       *)
LEMMA ParentIsPlace ==
    ASSUME Arity \in Nat \ {0}, IInv, NEW p \in Places \ {0}
    PROVE  ParentOf(p) \in Places /\ ParentOf(p) < p
BY EltFacts, ParentIsBefore DEF Places

(* What counts at a place after a step.                                    *)
EltAfter(p) == IF sift' = "down" /\ p = at' THEN held' ELSE data'[p + 1]

(* One round, upwards or downwards, exchanges two elements.                *)
Exchanged(q, r) ==
    \A p \in Places : EltAfter(p) = IF p = q THEN Elt(r) ELSE IF p = r THEN Elt(q) ELSE Elt(p)

LEMMA MoveUpOrder ==
    ASSUME Arity \in Nat \ {0}, Keys \subseteq Int, Ids \subseteq Int, HeapInv, MoveUp
    PROVE  /\ Ordered' /\ Places' = Places
           /\ \E q, r \in Places : Exchanged(q, r)
<1> DEFINE above == ParentOf(at)
<1>1. /\ sift = "up" /\ sift' = "up" /\ at > 0 /\ at' = above
      /\ data' = [data EXCEPT ![at + 1] = At(above), ![above + 1] = At(at)]
      /\ ~Less(At(above), At(at))
  BY DEF MoveUp
<1>2. IInv /\ Ordered
  BY DEF HeapInv
<1>3. at \in Places /\ above \in Places /\ above < at /\ above \in Nat
  BY <1>1, <1>2, EltFacts, ParentIsPlace
<1>4. \A p \in Places : p \in Nat /\ Elt(p) \in Element /\ Elt(p) = At(p)
  BY <1>1, <1>2, EltFacts DEF Elt
<1>5. Less(Elt(at), Elt(above))
  BY <1>1, <1>2, <1>3, <1>4, LessIsTotal, EltFacts
<1> HIDE DEF above
<1>6. Places' = Places /\ \A p \in Places :
        EltAfter(p) = IF p = at THEN Elt(above) ELSE IF p = above THEN Elt(at) ELSE Elt(p)
  BY <1>1, <1>2, <1>3, <1>4 DEF IInv, TypeOK, At, EltAfter, Places
<1>7. ASSUME NEW p \in Places \ {0}, p # above
      PROVE  Less(EltAfter(ParentOf(p)), EltAfter(p))
  <2>1. ParentOf(p) \in Places /\ ParentOf(p) < p
    BY <1>2, ParentIsPlace
  <2>2. CASE p = at
    BY <1>3, <1>5, <1>6, <2>2 DEF above
  <2>3. CASE p # at /\ ParentOf(p) = at
    <3>1. Less(Elt(above), Elt(p))
      BY <1>1, <1>2, <2>3 DEF Ordered, above
    <3> QED BY <1>3, <1>6, <1>7, <2>3, <3>1
  <2>4. CASE p # at /\ ParentOf(p) = above
    <3>1. Less(Elt(above), Elt(p))
      BY <1>1, <1>2, <2>4 DEF Ordered
    <3>2. Less(Elt(at), Elt(p))
      BY <1>3, <1>4, <1>5, <3>1, LessIsTotal
    <3> QED BY <1>3, <1>6, <1>7, <2>4, <3>2
  <2>5. CASE p # at /\ ParentOf(p) # at /\ ParentOf(p) # above
    <3>1. Less(Elt(ParentOf(p)), Elt(p))
      BY <1>1, <1>2, <2>5 DEF Ordered
    <3> QED BY <1>6, <1>7, <2>1, <2>5, <3>1
  <2> QED BY <2>2, <2>3, <2>4, <2>5
<1>8. ASSUME above > 0, NEW p \in Places \ {0}, ParentOf(p) = above
      PROVE  Less(EltAfter(ParentOf(above)), EltAfter(p))
  <2>1. ParentOf(above) \in Places /\ ParentOf(above) < above
    BY <1>2, <1>3, <1>8, ParentIsPlace
  <2>2. EltAfter(ParentOf(above)) = Elt(ParentOf(above))
    <3>1. ParentOf(above) # at /\ ParentOf(above) # above
      BY <1>3, <1>4, <2>1
    <3> QED BY <1>6, <2>1, <3>1
  <2>3. Less(Elt(ParentOf(above)), Elt(above))
    BY <1>1, <1>2, <1>3, <1>8 DEF Ordered
  <2>4. CASE p = at
    BY <1>6, <2>2, <2>3, <2>4
  <2>5. CASE p # at
    <3>1. Less(Elt(above), Elt(p))
      BY <1>1, <1>2, <1>8, <2>5 DEF Ordered
    <3>2. p # above
      BY <1>2, <1>8, ParentIsPlace, <1>4
    <3> QED BY <1>3, <1>4, <1>6, <2>1, <2>2, <2>3, <2>5, <3>1, <3>2, LessIsTotal
  <2> QED BY <2>4, <2>5
<1>9. Ordered'
  BY <1>1, <1>6, <1>7, <1>8 DEF Ordered, Elt, EltAfter, At
<1> QED BY <1>3, <1>6, <1>9 DEF Exchanged

LEMMA MoveDownOrder ==
    ASSUME Arity \in Nat \ {0}, Keys \subseteq Int, Ids \subseteq Int, HeapInv, MoveDown
    PROVE  /\ Ordered' /\ Places' = Places
           /\ \E q, r \in Places : Exchanged(q, r)
<1>1. PICK c \in Children(at) :
        Rises(c) /\ data' = [data EXCEPT ![at + 1] = At(c)] /\ at' = c
  BY DEF MoveDown
<1>2. sift = "down" /\ sift' = "down" /\ held' = held
  BY DEF MoveDown
<1>3. IInv /\ Ordered /\ at \in Nat /\ data \in Seq(Element)
  BY DEF HeapInv, IInv, TypeOK
<1>4. at \in Places /\ c \in Places /\ c > at /\ c # 0 /\ ParentOf(c) = at
  BY <1>2, <1>3, ChildrenHaveParent, ChildIsBehind, EltFacts DEF Children
<1>5. \A p \in Places : p \in Nat /\ Elt(p) \in Element /\ (p # at => Elt(p) = At(p))
  BY <1>3, EltFacts DEF Elt
<1>6. Less(Elt(c), held) /\ Elt(at) = held
  BY <1>1, <1>2, <1>4, <1>5 DEF Rises, Elt
<1>7. \A p \in Places \ {0, c} : ParentOf(p) = at => Less(Elt(c), Elt(p))
  <2>1. \A p \in Places \ {0, c} : ParentOf(p) = at => p \in Children(at) \ {c} /\ p # at
    BY <1>3, <1>5, ChildrenHaveParent, ParentIsPlace
  <2> QED BY <1>1, <1>4, <1>5, <2>1 DEF Rises
<1>8. Places' = Places /\ \A p \in Places :
        EltAfter(p) = IF p = at THEN Elt(c) ELSE IF p = c THEN held ELSE Elt(p)
  BY <1>1, <1>2, <1>3, <1>4, <1>5 DEF IInv, TypeOK, At, EltAfter, Places
<1>9. ASSUME NEW p \in Places \ {0}, ParentOf(p) # c
      PROVE  Less(EltAfter(ParentOf(p)), EltAfter(p))
  <2>1. ParentOf(p) \in Places /\ ParentOf(p) < p
    BY <1>3, ParentIsPlace
  <2>2. CASE p = c
    BY <1>4, <1>6, <1>8, <2>2
  <2>3. CASE p = at
    <3>1. Less(Elt(ParentOf(at)), Elt(c))
      BY <1>2, <1>3, <1>4, <1>5, <1>9, <2>3 DEF Ordered
    <3>2. ParentOf(at) # at /\ ParentOf(at) # c
      BY <1>4, <1>5, <2>1, <2>3
    <3> QED BY <1>4, <1>8, <2>1, <2>3, <3>1, <3>2
  <2>4. CASE p # c /\ p # at /\ ParentOf(p) = at
    BY <1>7, <1>8, <1>9, <2>4, <1>4
  <2>5. CASE p # c /\ p # at /\ ParentOf(p) # at
    <3>1. Less(Elt(ParentOf(p)), Elt(p))
      BY <1>2, <1>3, <2>5 DEF Ordered
    <3> QED BY <1>8, <1>9, <2>1, <2>5, <3>1
  <2> QED BY <2>2, <2>3, <2>4, <2>5
<1>10. ASSUME NEW p \in Places \ {0}, ParentOf(p) = c
       PROVE  Less(EltAfter(ParentOf(c)), EltAfter(p))
  <2>1. p > c /\ p \in Places
    BY <1>3, <1>5, <1>10, ParentIsPlace
  <2>2. Less(Elt(c), Elt(p))
    BY <1>2, <1>3, <1>4, <1>5, <1>10 DEF Ordered
  <2> QED BY <1>4, <1>5, <1>8, <2>1, <2>2
<1>11. Ordered'
  BY <1>1, <1>2, <1>8, <1>9, <1>10 DEF Ordered, Elt, EltAfter, At
<1> QED BY <1>4, <1>6, <1>8, <1>11 DEF Exchanged

LEMMA PushOrder ==
    ASSUME Arity \in Nat \ {0}, HeapInv, NEW i \in Ids, NEW k \in Keys, Push(i, k)
    PROVE  /\ Ordered' /\ Places' = Places \cup {Len(data)}
           /\ \A p \in Places' : EltAfter(p) = IF p = Len(data) THEN [id |-> i, key |-> k] ELSE Elt(p)
<1>1. /\ sift = "ready" /\ sift' = "up" /\ at' = Len(data)
      /\ data' = Append(data, [id |-> i, key |-> k])
  BY DEF Push
<1>2. IInv /\ Ordered /\ data \in Seq(Element) /\ Len(data) \in Nat
  BY DEF HeapInv, IInv, TypeOK
<1>3. [id |-> i, key |-> k] \in Element
  BY DEF Element
<1>4. /\ Places' = Places \cup {Len(data)} /\ Len(data) \notin Places /\ Places \subseteq Nat
      /\ \A p \in Places' : EltAfter(p) = IF p = Len(data) THEN [id |-> i, key |-> k] ELSE Elt(p)
  BY <1>1, <1>2, <1>3 DEF Places, EltAfter, Elt, At
<1>5. ASSUME NEW p \in Places \ {0} PROVE Less(EltAfter(ParentOf(p)), EltAfter(p))
  <2>1. ParentOf(p) \in Places
    BY <1>2, ParentIsPlace
  <2>2. Less(Elt(ParentOf(p)), Elt(p))
    BY <1>1, <1>2 DEF Ordered
  <2> QED BY <1>4, <2>1, <2>2
<1>6. ASSUME NEW p \in Places' \ {0} PROVE ParentOf(p) # Len(data)
  <2>1. p \in Nat /\ p <= Len(data) /\ p > 0
    BY <1>2, <1>4 DEF Places
  <2> QED BY <1>2, <2>1, ParentIsBefore
<1> QED BY <1>1, <1>4, <1>5, <1>6 DEF Ordered, Elt, EltAfter, At

LEMMA PopRootOrder ==
    ASSUME Arity \in Nat \ {0}, HeapInv, PopRoot
    PROVE  /\ Ordered' /\ Len(data) \in Nat /\ Len(data) > 1 /\ Places' = Places \ {Len(data) - 1}
           /\ \A p \in Places' : EltAfter(p) = IF p = 0 THEN Elt(Len(data) - 1) ELSE Elt(p)
<1>1. /\ sift = "ready" /\ sift' = "down" /\ at' = 0 /\ held' = At(Len(data) - 1)
      /\ data' = SubSeq([data EXCEPT ![1] = At(Len(data) - 1)], 1, Len(data) - 1) /\ Len(data) > 1
  BY DEF PopRoot
<1>2. IInv /\ Ordered /\ data \in Seq(Element) /\ Len(data) \in Nat
  BY DEF HeapInv, IInv, TypeOK
<1>3. /\ Len(data') = Len(data) - 1
      /\ \A p \in 1 .. Len(data) - 2 : data'[p + 1] = data[p + 1]
  <2>1. [data EXCEPT ![1] = At(Len(data) - 1)] \in Seq(Element)
    BY <1>1, <1>2, EltFacts DEF Elt, Places
  <2> QED BY <1>1, <1>2, <2>1
<1>4. /\ Places' = Places \ {Len(data) - 1}
      /\ \A p \in Places' : EltAfter(p) = IF p = 0 THEN Elt(Len(data) - 1) ELSE Elt(p)
  BY <1>1, <1>2, <1>3 DEF Places, EltAfter, Elt, At
<1>5. ASSUME NEW p \in Places' \ {0}, ParentOf(p) # 0 PROVE Less(EltAfter(ParentOf(p)), EltAfter(p))
  <2>1. p \in Places \ {0} /\ ParentOf(p) \in Places' \ {0}
    <3>1. p \in Places \ {0} /\ p < Len(data) - 1
      <4>1. p \in Places /\ p # 0 /\ p # Len(data) - 1
        BY <1>4
      <4> QED BY <1>2, <4>1 DEF Places
    <3>2. ParentOf(p) \in Places /\ ParentOf(p) < p
      BY <1>2, <3>1, ParentIsPlace
    <3> QED BY <1>2, <1>4, <1>5, <3>1, <3>2 DEF Places
  <2>2. Less(Elt(ParentOf(p)), Elt(p))
    BY <1>1, <1>2, <2>1 DEF Ordered
  <2> QED BY <1>4, <1>5, <2>1, <2>2
<1>6. Ordered'
  <2>1. sift' = "down" /\ at' = 0
    BY <1>1
  <2> QED BY <1>5, <2>1 DEF Ordered, Elt, EltAfter, At
<1> QED BY <1>1, <1>2, <1>4, <1>6

(* A lower key may only be less than what is above, a higher one only more *)
(* than what is below.                                                     *)
LEMMA UpdateOrder ==
    ASSUME Arity \in Nat \ {0}, Keys \subseteq Int, Ids \subseteq Int, HeapInv,
           NEW i \in Ids, NEW k \in Keys, DecreaseKey(i, k) \/ IncreaseKey(i, k)
    PROVE  /\ Ordered' /\ Places' = Places /\ positions[i] \in Places
           /\ \A p \in Places : EltAfter(p) = IF p = positions[i] THEN [id |-> i, key |-> k] ELSE Elt(p)
<1> DEFINE element == [id |-> i, key |-> k]
           place == positions[i]
<1>1. /\ sift = "ready" /\ place # None /\ data' = [data EXCEPT ![place + 1] = element] /\ at' = place
      /\ \/ sift' = "up" /\ Less(element, At(place))
         \/ sift' = "down" /\ held' = element /\ Less(At(place), element)
  BY DEF DecreaseKey, IncreaseKey
<1>2. IInv /\ Ordered /\ data \in Seq(Element)
  BY DEF HeapInv, IInv, TypeOK
<1>3. element \in Element
  BY DEF Element
<1>4. place \in Places
  BY <1>1, <1>2 DEF IInv, Elsewhere, Filled, Places
<1> HIDE DEF element, place
<1>5. \A p \in Places : p \in Nat /\ Elt(p) \in Element /\ Elt(p) = At(p)
  BY <1>1, <1>2, EltFacts DEF Elt
<1>6. Places' = Places /\ \A p \in Places : EltAfter(p) = IF p = place THEN element ELSE Elt(p)
  BY <1>1, <1>2, <1>3, <1>4, <1>5 DEF Places, EltAfter, At
<1>7. \A p \in Places \ {0} : ParentOf(p) \in Places /\ ParentOf(p) < p /\ Less(Elt(ParentOf(p)), Elt(p))
  BY <1>1, <1>2, ParentIsPlace DEF Ordered
<1>8. ASSUME NEW p \in Places \ {0}
      PROVE  \/ Less(EltAfter(ParentOf(p)), EltAfter(p))
             \/ sift' = "up" /\ p = place
             \/ sift' = "down" /\ ParentOf(p) = place
  <2>1. CASE p # place /\ ParentOf(p) # place
    BY <1>6, <1>7, <2>1
  <2>2. CASE p = place
    <3>1. CASE sift' = "down"
      <4>1. ParentOf(p) # place
        BY <1>5, <1>7, <2>2
      <4>2. Less(Elt(ParentOf(p)), Elt(p)) /\ Less(Elt(p), element)
        BY <1>1, <1>4, <1>5, <1>7, <2>2, <3>1
      <4> QED BY <1>3, <1>4, <1>5, <1>6, <1>7, <2>2, <4>1, <4>2, LessIsTotal
    <3> QED BY <1>1, <2>2, <3>1
  <2>3. CASE p # place /\ ParentOf(p) = place
    <3>1. CASE sift' = "up"
      <4>1. Less(Elt(place), Elt(p)) /\ Less(element, Elt(place))
        BY <1>1, <1>4, <1>5, <1>7, <2>3, <3>1
      <4> QED BY <1>3, <1>4, <1>5, <1>6, <2>3, <4>1, LessIsTotal
    <3> QED BY <1>1, <2>3, <3>1
  <2> QED BY <2>1, <2>2, <2>3
<1>9. ASSUME place > 0, NEW p \in Places \ {0}, ParentOf(p) = place
      PROVE  Less(EltAfter(ParentOf(place)), EltAfter(p))
  <2>1. place \in Places \ {0} /\ ParentOf(place) # place /\ p # place /\ ParentOf(place) \in Places
    BY <1>4, <1>5, <1>7, <1>9
  <2>2. Less(Elt(ParentOf(place)), Elt(place)) /\ Less(Elt(place), Elt(p))
    BY <1>7, <1>9, <2>1
  <2> QED BY <1>4, <1>5, <1>6, <2>1, <2>2, LessIsTotal
<1> QED BY <1>1, <1>4, <1>6, <1>8, <1>9 DEF Ordered, Elt, EltAfter, At, element, place

LEMMA StopOrder ==
    ASSUME Arity \in Nat \ {0}, Keys \subseteq Int, Ids \subseteq Int, HeapInv, StopUp \/ StopDown
    PROVE  Ordered' /\ Places' = Places /\ \A p \in Places : EltAfter(p) = Elt(p)
<1>1. IInv /\ Ordered /\ data \in Seq(Element) /\ Len(data) \in Nat /\ at \in Nat
  BY DEF HeapInv, IInv, TypeOK
<1>2. sift \in {"up", "down"} /\ sift' = "ready" /\ at \in Places
  BY <1>1, EltFacts DEF StopUp, StopDown
<1>3. Places' = Places /\ \A p \in Places : EltAfter(p) = Elt(p)
  <2>1. CASE StopUp
    BY <2>1 DEF StopUp, Places, EltAfter, Elt, At
  <2>2. CASE StopDown
    BY <1>1, <1>2, <2>2, EltFacts DEF StopDown, Places, EltAfter, Elt, At
  <2> QED BY <2>1, <2>2
<1>4. ASSUME NEW p \in Places \ {0} PROVE Less(Elt(ParentOf(p)), Elt(p))
  <2>1. ParentOf(p) \in Places /\ ParentOf(p) < p /\ p \in Nat
    BY <1>1, ParentIsPlace, EltFacts
  <2>2. CASE StopUp /\ p = at
    BY <2>1, <2>2 DEF StopUp, Elt
  <2>3. CASE StopDown /\ ParentOf(p) = at
    <3>1. sift = "down" /\ held = Elt(at) /\ At(p) = Elt(p) /\ p \in Children(at)
      BY <1>1, <2>1, <2>3, ChildrenHaveParent DEF StopDown, Elt
    <3>2. ~Less(Elt(p), Elt(at))
      BY <2>3, <3>1 DEF StopDown
    <3>3. /\ Elt(p) \in Element /\ Elt(at) \in Element /\ Elt(p).id # Elt(at).id
      BY <1>1, <1>2, <2>1, <2>3, EltFacts
    <3> QED BY <2>3, <3>2, <3>3, LessIsTotal
  <2>4. CASE ~(StopUp /\ p = at) /\ ~(StopDown /\ ParentOf(p) = at)
    BY <1>1, <2>4 DEF Ordered, StopUp, StopDown
  <2> QED BY <2>2, <2>3, <2>4
<1>5. ASSUME NEW p \in Places \ {0} PROVE Less(EltAfter(ParentOf(p)), EltAfter(p))
  BY <1>1, <1>3, <1>4, ParentIsPlace
<1> QED BY <1>2, <1>3, <1>5 DEF Ordered, Elt, EltAfter, At

-----------------------------------------------------------------------------
(* The step of every action, from the lemmas above.                        *)
LEMMA HeapStep ==
    ASSUME Arity \in Nat \ {0}, Keys \subseteq Int, Ids \subseteq Int, HeapInv, [Next]_vars
    PROVE  HeapInv'
<1>1. IInv'
  BY PushPositions, PopRootPositions, UpdatePositions, MoveUpPositions, MoveDownPositions,
     StopDownPositions, OtherPositions DEF Next, HeapInv
<1>2. CASE UNCHANGED vars \/ PopEmpty \/ \E i \in Ids, k \in Keys : KeepKey(i, k)
  <2>1. data' = data /\ sift' = sift /\ at' = at /\ held' = held
    BY <1>2 DEF PopEmpty, KeepKey, vars
  <2>2. Ordered'
    BY <2>1 DEF HeapInv, Ordered, Places, Elt, At
  <2> QED BY <1>1, <2>2 DEF HeapInv
<1>3. CASE PopOnly \/ Clear
  <2>1. data' = <<>> /\ sift' = "ready"
    BY <1>3 DEF PopOnly, Clear
  <2> QED BY <1>1, <2>1 DEF HeapInv, Ordered, Places
<1>4. Ordered'
  BY <1>1, <1>2, <1>3, PushOrder, PopRootOrder, UpdateOrder, MoveUpOrder, MoveDownOrder, StopOrder
     DEF Next, HeapInv
<1> QED BY <1>1, <1>4 DEF HeapInv

(* A set of natural numbers that is not empty has a least element.         *)
LEMMA LeastElement ==
    ASSUME NEW S \in SUBSET Nat, S # {}
    PROVE  \E x \in S : \A y \in S : x <= y
<1> DEFINE Smaller == {pair \in Nat \X Nat : pair[1] < pair[2]}
<1>1. IsWellFoundedOn(Smaller, Nat)
  <2>1. OpToRel(<, Nat) = Smaller
    BY Zenon DEF OpToRel
  <2> QED BY <2>1, NatLessThanWellFounded, Zenon
<1>2. PICK x \in S : \A y \in S : ~(<<y, x>> \in Smaller)
  <2> HIDE DEF Smaller
  <2> QED BY <1>1, WFMin
<1>3. ASSUME NEW y \in S PROVE x <= y
  <2>1. ~(<<y, x>> \in Smaller) /\ x \in Nat /\ y \in Nat
    BY <1>2
  <2>2. <<y, x>> \in Nat \X Nat /\ <<y, x>>[1] = y /\ <<y, x>>[2] = x
    BY <2>1
  <2> QED BY <2>1, <2>2
<1> QED BY <1>3

(* Between operations no element is less than the root: the lowest of the  *)
(* places where one would be has a parent where one would be, too.         *)
LEMMA RootIsLeast ==
    ASSUME Arity \in Nat \ {0}, Keys \subseteq Int, Ids \subseteq Int, HeapInv, sift = "ready",
           NEW p \in Places, p # 0
    PROVE  Less(At(0), At(p))
<1> DEFINE S == {q \in Places \ {0} : ~Less(Elt(0), Elt(q))}
<1>1. IInv /\ Ordered /\ Places \subseteq Nat
  BY EltFacts DEF HeapInv
<1>2. CASE S = {}
  BY <1>2 DEF Elt
<1>3. CASE S # {}
  <2>1. PICK q \in S : \A r \in S : q <= r
    <3>1. S \in SUBSET Nat
      BY <1>1
    <3> HIDE DEF S
    <3> QED BY <1>3, <3>1, LeastElement
  <2>2. ParentOf(q) \in Places /\ ParentOf(q) < q /\ q \in Nat /\ Less(Elt(ParentOf(q)), Elt(q))
    BY <1>1, ParentIsPlace DEF Ordered
  <2>3. ParentOf(q) \notin S
    <3> HIDE DEF S
    <3>1. ParentOf(q) \in Nat /\ q \in Nat /\ ParentOf(q) < q
      BY <1>1, <2>2
    <3>2. ~(q <= ParentOf(q))
      BY <3>1
    <3> QED BY <2>1, <3>2
  <2>4. CASE ParentOf(q) = 0
    BY <2>1, <2>2, <2>4
  <2>5. CASE ParentOf(q) # 0
    <3>1. Less(Elt(0), Elt(ParentOf(q)))
      BY <2>2, <2>3, <2>5
    <3>2. 0 \in Places
      BY <1>1, EltFacts DEF Places
    <3> QED BY <1>1, <2>1, <2>2, <3>1, <3>2, EltFacts, LessIsTotal
  <2> QED BY <2>4, <2>5
<1> QED BY <1>2, <1>3

(***************************************************************************)
(* The refinement, one operation of the queue for each lemma.              *)
(***************************************************************************)

(* The elements of the queue are those that count somewhere.               *)
LEMMA ElementsAreElts ==
    ASSUME IInv
    PROVE  Elements = {Elt(p) : p \in Places}
BY EltFacts DEF Elements, Elt, Places

LEMMA ElementsAreEltsAfter ==
    ASSUME IInv'
    PROVE  Elements' = {EltAfter(p) : p \in Places'}
<1>1. sift' = "down" => at' \in Places'
  BY DEF IInv, TypeOK, Places
<1> QED BY <1>1 DEF Elements, EltAfter, Places, At

LEMMA PushRefines ==
    ASSUME Arity \in Nat \ {0}, HeapInv, IInv', NEW i \in Ids, NEW k \in Keys, Push(i, k)
    PROVE  Queue!Push(i, k)
<1>1. IInv /\ sift = "ready" /\ positions[i] = None /\ request' = <<"push", i, k>>
  BY DEF Push, HeapInv
<1>2. ~Queue!Contains(i)
  <2>1. \A p \in Places : Elt(p).id # i
    BY <1>1, EltFacts DEF IInv, Filled, Places, Elt, None
  <2> QED BY <1>1, <2>1, ElementsAreElts DEF Queue!Contains
<1>3. Len(data) \notin Places
  BY <1>1 DEF Places, IInv, TypeOK
<1>4. Elements' = Elements \cup {[id |-> i, key |-> k]}
  <2>1. \A p \in Places : EltAfter(p) = Elt(p)
    BY <1>3, PushOrder
  <2>2. EltAfter(Len(data)) = [id |-> i, key |-> k] /\ Places' = Places \cup {Len(data)}
    BY PushOrder
  <2> QED BY <1>1, <2>1, <2>2, ElementsAreElts, ElementsAreEltsAfter
<1> QED BY <1>1, <1>2, <1>4 DEF Queue!Push

LEMMA PopRefines ==
    ASSUME Arity \in Nat \ {0}, Keys \subseteq Int, Ids \subseteq Int, HeapInv, IInv',
           PopEmpty \/ PopOnly \/ PopRoot
    PROVE  Queue!Pop
<1>1. IInv /\ sift = "ready" /\ Len(data) \in Nat /\ data \in Seq(Element)
  BY DEF PopEmpty, PopOnly, PopRoot, HeapInv, IInv, TypeOK
<1>2. CASE PopEmpty
  <2>1. Places = {} /\ Elements' = Elements
    BY <1>1, <1>2 DEF PopEmpty, Places, Elements, At
  <2> QED BY <1>1, <1>2, <2>1, ElementsAreElts DEF PopEmpty, Queue!Pop, Queue!Nothing, Nothing, None
<1>3. CASE PopOnly \/ PopRoot
  <2>1. Len(data) > 0 /\ 0 \in Places /\ request' = <<"pop", Elt(0)>> /\ Elt(0) \in Elements
    <3>1. Len(data) > 0 /\ 0 \in Places /\ request' = <<"pop", Elt(0)>>
      BY <1>1, <1>3 DEF PopOnly, PopRoot, Places, Elt
    <3> QED BY <1>1, <3>1, ElementsAreElts
  <2>2. ASSUME NEW other \in Elements \ {Elt(0)} PROVE Less(Elt(0), other)
    <3>1. PICK p \in Places : other = Elt(p)
      BY <1>1, ElementsAreElts
    <3>2. Less(At(0), At(p))
      BY <1>1, <2>2, <3>1, RootIsLeast
    <3> QED BY <1>1, <3>1, <3>2 DEF Elt
  <2>3. Elements' = Elements \ {Elt(0)}
    <3>1. CASE PopOnly
      <4>1. Places = {0} /\ Places' = {}
        BY <1>1, <3>1 DEF PopOnly, Places
      <4> QED BY <1>1, <4>1, ElementsAreElts, ElementsAreEltsAfter
    <3>2. CASE PopRoot
      <4> DEFINE n == Len(data) - 1
      <4>1. /\ n > 0 /\ n \in Places /\ Places' = Places \ {n}
            /\ EltAfter(0) = Elt(n) /\ \A p \in Places \ {0, n} : EltAfter(p) = Elt(p)
        <5>1. n > 0 /\ n \in Places
          BY <1>1, <3>2 DEF PopRoot, Places
        <5>2. Places' = Places \ {n}
          BY <3>2, PopRootOrder
        <5>3. \A p \in Places \ {n} : EltAfter(p) = IF p = 0 THEN Elt(n) ELSE Elt(p)
          BY <3>2, <5>2, PopRootOrder
        <5> HIDE DEF n
        <5>4. 0 \in Places \ {n}
          BY <2>1, <5>1
        <5> QED BY <5>1, <5>2, <5>3, <5>4
      <4> HIDE DEF n
      <4>2. \A p \in Places \ {0} : Elt(p) # Elt(0)
        BY <1>1, <2>1, EltFacts
      <4>3. Elements' = {EltAfter(p) : p \in Places \ {n}}
        BY <4>1, ElementsAreEltsAfter
      <4>4. Elements = {Elt(p) : p \in Places}
        BY <1>1, ElementsAreElts
      <4>5. ASSUME NEW e \in Elements' PROVE e \in Elements \ {Elt(0)}
        <5>1. PICK p \in Places \ {n} : e = EltAfter(p)
          BY <4>3, <4>5
        <5>2. PICK q \in Places \ {0} : e = Elt(q)
          BY <4>1, <5>1
        <5> QED BY <4>2, <4>4, <5>2
      <4>6. ASSUME NEW e \in Elements \ {Elt(0)} PROVE e \in Elements'
        <5>1. PICK p \in Places \ {0} : e = Elt(p)
          BY <4>4, <4>6
        <5>2. CASE p = n
          BY <2>1, <4>1, <4>3, <5>1, <5>2
        <5>3. CASE p # n
          BY <4>1, <4>3, <5>1, <5>3
        <5> QED BY <5>2, <5>3
      <4> QED BY <4>5, <4>6
    <3> QED BY <1>3, <3>1, <3>2
  <2> QED BY <2>1, <2>2, <2>3 DEF Queue!Pop, Queue!Less, Less
<1> QED BY <1>2, <1>3

LEMMA UpdateRefines ==
    ASSUME Arity \in Nat \ {0}, Keys \subseteq Int, Ids \subseteq Int, HeapInv, IInv',
           NEW i \in Ids, NEW k \in Keys, DecreaseKey(i, k) \/ IncreaseKey(i, k) \/ KeepKey(i, k)
    PROVE  Queue!UpdateKey(i, k)
<1> DEFINE element == [id |-> i, key |-> k]
           place == positions[i]
<1>1. IInv /\ sift = "ready" /\ place # None /\ request' = <<"update", i, k>>
  BY DEF DecreaseKey, IncreaseKey, KeepKey, HeapInv
<1>2. place \in Places /\ Elt(place).id = i
  BY <1>1 DEF IInv, Filled, Elsewhere, Places, Elt
<1>3. Elements = {Elt(p) : p \in Places}
  BY <1>1, ElementsAreElts
<1>4. Elements' = {EltAfter(p) : p \in Places} /\ EltAfter(place) = element
      /\ \A p \in Places \ {place} : EltAfter(p) = Elt(p)
  <2>1. CASE KeepKey(i, k)
    <3>1. data' = data /\ sift' = "ready" /\ At(place) = element
      BY <1>1, <2>1 DEF KeepKey
    <3> QED BY <1>1, <1>2, <3>1, ElementsAreEltsAfter DEF Places, EltAfter, Elt, At
  <2>2. CASE DecreaseKey(i, k) \/ IncreaseKey(i, k)
    BY <2>2, UpdateOrder, ElementsAreEltsAfter
  <2> QED BY <2>1, <2>2
<1> HIDE DEF place
<1>5. \A p \in Places : Elt(p).id = i <=> p = place
  BY <1>1, <1>2, EltFacts
<1>6. Elements' = {e \in Elements : e.id # i} \cup {element}
  <2> HIDE DEF element
  <2>1. ASSUME NEW e \in Elements' PROVE e \in {d \in Elements : d.id # i} \cup {element}
    BY <1>3, <1>4, <1>5, <2>1
  <2>2. ASSUME NEW e \in Elements, e.id # i PROVE e \in Elements'
    BY <1>3, <1>4, <1>5, <2>2, <1>2
  <2>3. element \in Elements'
    BY <1>2, <1>4
  <2> QED BY <2>1, <2>2, <2>3
<1>7. Queue!Contains(i)
  BY <1>2, <1>3 DEF Queue!Contains
<1> QED BY <1>1, <1>6, <1>7 DEF Queue!UpdateKey

(* A round of a loop exchanges two elements, and its end moves none.       *)
LEMMA SiftRefines ==
    ASSUME Arity \in Nat \ {0}, Keys \subseteq Int, Ids \subseteq Int, HeapInv, IInv',
           MoveUp \/ StopUp \/ MoveDown \/ StopDown
    PROVE  UNCHANGED Queue!vars
<1>1. IInv /\ request' = request
  BY DEF MoveUp, StopUp, MoveDown, StopDown, HeapInv
<1>2. Elements = {Elt(p) : p \in Places}
  BY <1>1, ElementsAreElts
<1>3. Elements' = Elements
  <2>1. CASE MoveUp \/ MoveDown
    <3>1. Places' = Places /\ \E q, r \in Places : Exchanged(q, r)
      BY <2>1, MoveUpOrder, MoveDownOrder
    <3>2. PICK q \in Places, r \in Places : Exchanged(q, r)
      BY <3>1
    <3>3. Elements' = {EltAfter(p) : p \in Places}
      BY <3>1, ElementsAreEltsAfter
    <3> QED BY <1>2, <3>2, <3>3 DEF Exchanged
  <2>2. CASE StopUp \/ StopDown
    <3>1. Places' = Places /\ \A p \in Places : EltAfter(p) = Elt(p)
      BY <2>2, StopOrder
    <3> QED BY <1>2, <3>1, ElementsAreEltsAfter
  <2> QED BY <2>1, <2>2
<1> QED BY <1>1, <1>3 DEF Queue!vars

LEMMA StepRefines ==
    ASSUME Arity \in Nat \ {0}, Keys \subseteq Int, Ids \subseteq Int, HeapInv, [Next]_vars
    PROVE  [Queue!Next]_(Queue!vars)
<1>1. IInv'
  BY HeapStep DEF HeapInv
<1>2. ASSUME NEW i \in Ids, NEW k \in Keys, Push(i, k) PROVE Queue!Next
  BY <1>1, <1>2, PushRefines DEF Queue!Next
<1>3. ASSUME NEW i \in Ids, NEW k \in Keys, DecreaseKey(i, k) \/ IncreaseKey(i, k) \/ KeepKey(i, k)
      PROVE  Queue!Next
  BY <1>1, <1>3, UpdateRefines DEF Queue!Next
<1>4. CASE PopEmpty \/ PopOnly \/ PopRoot
  BY <1>1, <1>4, PopRefines DEF Queue!Next
<1>5. CASE Clear
  BY <1>5 DEF Clear, Elements, Queue!Clear, Queue!Next
<1>6. CASE MoveUp \/ StopUp \/ MoveDown \/ StopDown
  BY <1>1, <1>6, SiftRefines
<1>7. CASE UNCHANGED vars
  BY <1>7 DEF vars, Queue!vars, Elements, At
<1> QED BY <1>2, <1>3, <1>4, <1>5, <1>6, <1>7 DEF Next

LEMMA HeapInitially ==
    ASSUME Init
    PROVE  HeapInv /\ Queue!Init
<1>1. IInv
  BY DEF Init, IInv, TypeOK, Filled, Elsewhere, None, Nothing
<1>2. Ordered
  BY DEF Init, Ordered, Places
<1>3. Queue!Init
  BY DEF Init, Queue!Init, Elements
<1> QED BY <1>1, <1>2, <1>3 DEF HeapInv

(* Whatever operations come one after the other, in trees of any arity.    *)
THEOREM PositionsInvariant ==
    ASSUME Arity \in Nat \ {0}
    PROVE  Spec => []PositionsAgree
<1>1. Init => IInv
  BY HeapInitially DEF HeapInv
<1>2. IInv /\ [Next]_vars => IInv'
  BY PushPositions, PopRootPositions, UpdatePositions, MoveUpPositions, MoveDownPositions,
     StopDownPositions, OtherPositions DEF Next
<1>3. IInv => PositionsAgree
  BY DEF IInv, PositionsAgree, Filled, Elsewhere
<1> QED BY <1>1, <1>2, <1>3, PTL DEF Spec

(* No element is less than its parent in the tree: at any time, but for the*)
(* one that is moving, and there what is above it is no more than what is  *)
(* below it.                                                               *)
THEOREM HeapOrder ==
    ASSUME Arity \in Nat \ {0}, Keys \subseteq Int, Ids \subseteq Int
    PROVE  Spec => []Ordered
<1>1. Init => HeapInv
  BY HeapInitially
<1>2. HeapInv /\ [Next]_vars => HeapInv'
  BY HeapStep
<1>3. HeapInv => Ordered
  BY DEF HeapInv
<1> QED BY <1>1, <1>2, <1>3, PTL DEF Spec

(* The heap implements the priority queue, for all ids and keys, in trees  *)
(* of any arity: pop gives out the least element whatever was pushed,      *)
(* updated and popped before.                                              *)
THEOREM Refinement ==
    ASSUME Arity \in Nat \ {0}, Keys \subseteq Int, Ids \subseteq Int
    PROVE  Spec => HeapImplementsQueue
<1>1. Init => HeapInv /\ Queue!Init
  BY HeapInitially
<1>2. HeapInv /\ [Next]_vars => HeapInv' /\ [Queue!Next]_(Queue!vars)
  BY HeapStep, StepRefines
<1> QED BY <1>1, <1>2, PTL DEF Spec, HeapImplementsQueue, Queue!Spec
=============================================================================

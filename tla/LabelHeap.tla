------------------------------ MODULE LabelHeap ------------------------------
(***************************************************************************)
(* Heap of engine/src/datastr/heap.rs, in which multi-criteria searches    *)
(* keep the labels of a node: a binary heap in the first split places of   *)
(* data, behind it the elements that were popped.                          *)
(***************************************************************************)
EXTENDS Integers, Sequences

LOCAL INSTANCE FiniteSetsExt

CONSTANT Labels  \* records with a key; T : Ord compares keys

VARIABLES
    data,    \* the heap and the popped elements
    split,   \* length of the heap
    request  \* the last operation and what it returned

vars == <<data, split, request>>

-----------------------------------------------------------------------------
(* Restoring the order, positions count from 0                             *)

Swapped(d, p, q) == [d EXCEPT ![p + 1] = d[q + 1], ![q + 1] = d[p + 1]]

(* The greater child of p among the first n elements, the right one of two *)
(* equal ones.                                                             *)
GreaterChild(d, p, n) ==
    IF 2 * p + 2 < n /\ d[2 * p + 2].key <= d[2 * p + 3].key THEN 2 * p + 2 ELSE 2 * p + 1

RECURSIVE SiftUp(_, _)
SiftUp(d, p) ==
    LET parent == (p - 1) \div 2
    IN  IF p = 0 THEN d
        ELSE IF d[p + 1].key <= d[parent + 1].key THEN d
        ELSE SiftUp(Swapped(d, p, parent), parent)

(* sift_down_range                                                         *)
RECURSIVE SiftDown(_, _, _)
SiftDown(d, p, n) ==
    LET child == GreaterChild(d, p, n)
    IN  IF 2 * p + 1 >= n THEN d
        ELSE IF d[p + 1].key >= d[child + 1].key THEN d
        ELSE SiftDown(Swapped(d, p, child), child, n)

(* Down to a leaf whatever is there, and up from it.                       *)
RECURSIVE SiftDownToBottom(_, _, _)
SiftDownToBottom(d, p, n) ==
    LET child == GreaterChild(d, p, n)
    IN  IF 2 * p + 1 >= n THEN SiftUp(d, p) ELSE SiftDownToBottom(Swapped(d, p, child), child, n)

(* All places from the last parent to the root.                            *)
RECURSIVE Rebuild(_, _, _)
Rebuild(d, places, n) == IF places = 0 THEN d ELSE Rebuild(SiftDown(d, places - 1, n), places - 1, n)

RECURSIVE SiftUpAll(_, _, _)
SiftUpAll(d, p, n) == IF p = n THEN d ELSE SiftUpAll(SiftUp(d, p), p + 1, n)

(* Which of the two is faster is an estimate if the tail is not the longer *)
(* part; it may turn out either way.                                       *)
RebuildTail(d, start, n) ==
    IF start = n THEN {d}
    ELSE IF start < n - start THEN {Rebuild(d, n \div 2, n)}
    ELSE {Rebuild(d, n \div 2, n), SiftUpAll(d, start, n)}

-----------------------------------------------------------------------------
Init == data = <<>> /\ split = 0 /\ request = <<"new">>

(* The first popped element makes room for the new one.                    *)
Push(l) ==
    /\ \A p \in DOMAIN data : data[p] # l
    /\ data' = SiftUp(Swapped(Append(data, l), split, Len(data)), split)
    /\ split' = split + 1
    /\ request' = <<"push", l>>

PopEmpty == split = 0 /\ request' = <<"pop", {}>> /\ UNCHANGED <<data, split>>

Pop ==
    /\ split > 0
    /\ split' = split - 1
    /\ data' = SiftDownToBottom(Swapped(data, 0, split - 1), 0, split - 1)
    /\ request' = <<"pop", {data[1]}>>

(* Those of the first n elements that are kept.                            *)
Kept(n, kept) == SelectSeq(SubSeq(data, 1, n), LAMBDA l : l \in kept)

(* What is before the first element to go is still a heap.                 *)
Untouched(kept) == Min({split} \cup {p - 1 : p \in {q \in DOMAIN data : data[q] \notin kept}})

(* Mutation of Retain: popped elements that go are counted, too.           *)
RetainCountingAll(kept) ==
    LET left == split - (Len(data) - Len(Kept(Len(data), kept)))
    IN  /\ split' = IF left < 0 THEN 0 ELSE left
        /\ data' \in RebuildTail(Kept(Len(data), kept), Min({Untouched(kept), split'}), split')
        /\ request' = <<"retain", kept>>

Retain(kept) ==
    /\ split' = Len(Kept(split, kept))
    /\ data' \in RebuildTail(Kept(Len(data), kept), Untouched(kept), split')
    /\ request' = <<"retain", kept>>

Clear == data' = <<>> /\ split' = 0 /\ request' = <<"clear">>

Next ==
    \/ \E l \in Labels : Push(l)
    \/ \E kept \in SUBSET Labels : Retain(kept)
    \/ PopEmpty \/ Pop \/ Clear

Spec == Init /\ [][Next]_vars

-----------------------------------------------------------------------------
(* The heap gives out the greatest of its elements, keeps those it gave    *)
(* out, and loses exactly the elements that retain is to remove, in        *)
(* whatever order elements come, leave and are removed.  Searches with     *)
(* several labels per node rely on all three.                              *)
LabelsAre == INSTANCE LabelQueue WITH
    live <- {data[p] : p \in 1 .. split},
    taken <- {data[p] : p \in split + 1 .. Len(data)}

ImplementsLabelQueue == LabelsAre!Spec
=============================================================================

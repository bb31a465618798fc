----------------------------- MODULE IndexedHeap -----------------------------
(***************************************************************************)
(* IndexdMinHeap of engine/src/datastr/index_heap.rs: a tree in an array   *)
(* and, for every id, the position of its element.  An operation puts its  *)
(* element somewhere and moves it up or down; each round of these loops is *)
(* a step here.  While an element sinks it is held aside, its old place is *)
(* a hole, and its position is only written when it has come to rest.      *)
(***************************************************************************)
EXTENDS Integers, Sequences

CONSTANTS
    Ids,    \* ids of elements
    Keys,   \* keys
    Arity   \* TREE_ARITY, 4 in the code

Element == [id : Ids, key : Keys]

(* INVALID_POSITION, and an absent element.                                *)
None == -1
Nothing == [id |-> None, key |-> 0]

Less(a, b) == a.key < b.key \/ (a.key = b.key /\ a.id < b.id)

VARIABLES
    data,       \* the tree; positions count from 0, At(p) is at position p
    positions,  \* position of each id, or None
    sift,       \* "up" or "down" in the middle of an operation, or "ready"
    at,         \* where the moving element, or its hole, is
    held,       \* the element held aside while it sinks, or Nothing
    request     \* the operation and what it returned

vars == <<data, positions, sift, at, held, request>>

At(p) == data[p + 1]

TypeOK ==
    /\ data \in Seq(Element)
    /\ positions \in [Ids -> Nat \cup {None}]
    /\ sift \in {"ready", "up", "down"}
    /\ at \in Nat
    /\ held \in Element \cup {Nothing}

Init ==
    /\ data = <<>>
    /\ positions = [i \in Ids |-> None]
    /\ sift = "ready" /\ at = 0 /\ held = Nothing
    /\ request = <<"new">>

-----------------------------------------------------------------------------
(* Operations                                                              *)

(* push, and push_unless_contained: the assertion is a guard.              *)
Push(i, k) ==
    /\ sift = "ready" /\ positions[i] = None
    /\ data' = Append(data, [id |-> i, key |-> k])
    /\ positions' = [positions EXCEPT ![i] = Len(data)]
    /\ sift' = "up" /\ at' = Len(data)
    /\ request' = <<"push", i, k>>
    /\ UNCHANGED held

PopEmpty ==
    /\ sift = "ready" /\ data = <<>>
    /\ request' = <<"pop", Nothing>>
    /\ UNCHANGED <<data, positions, sift, at, held>>

PopOnly ==
    /\ sift = "ready" /\ Len(data) = 1
    /\ data' = <<>>
    /\ positions' = [positions EXCEPT ![At(0).id] = None]
    /\ request' = <<"pop", At(0)>>
    /\ UNCHANGED <<sift, at, held>>

(* pop with more than one element: the last one is put in the root's place *)
(* and has to sink.                                                        *)
PopRoot ==
    LET last == At(Len(data) - 1)
    IN  /\ sift = "ready" /\ Len(data) > 1
        /\ data' = SubSeq([data EXCEPT ![1] = last], 1, Len(data) - 1)
        /\ positions' = [positions EXCEPT ![last.id] = 0, ![At(0).id] = None]
        /\ sift' = "down" /\ at' = 0 /\ held' = last
        /\ request' = <<"pop", At(0)>>

(* update_key with a lower key, and decrease_key.                          *)
DecreaseKey(i, k) ==
    LET p == positions[i]
        element == [id |-> i, key |-> k]
    IN  /\ sift = "ready" /\ p # None
        /\ Less(element, At(p))
        /\ data' = [data EXCEPT ![p + 1] = element]
        /\ sift' = "up" /\ at' = p
        /\ request' = <<"update", i, k>>
        /\ UNCHANGED <<positions, held>>

IncreaseKey(i, k) ==
    LET p == positions[i]
        element == [id |-> i, key |-> k]
    IN  /\ sift = "ready" /\ p # None
        /\ Less(At(p), element)
        /\ data' = [data EXCEPT ![p + 1] = element]
        /\ sift' = "down" /\ at' = p /\ held' = element
        /\ request' = <<"update", i, k>>
        /\ UNCHANGED positions

(* update_key with the key it has.                                         *)
KeepKey(i, k) ==
    /\ sift = "ready" /\ positions[i] # None
    /\ At(positions[i]) = [id |-> i, key |-> k]
    /\ request' = <<"update", i, k>>
    /\ UNCHANGED <<data, positions, sift, at, held>>

(* clear, and drain, which gives out the elements in the order of data.    *)
Clear ==
    /\ sift = "ready"
    /\ data' = <<>>
    /\ positions' = [i \in Ids |-> IF \E p \in DOMAIN data : data[p].id = i THEN None ELSE positions[i]]
    /\ request' = <<"clear">>
    /\ UNCHANGED <<sift, at, held>>

-----------------------------------------------------------------------------
(* Moving up: move_up_in_tree                                              *)

ParentOf(p) == (p - 1) \div Arity

(* One swap with the parent.                                               *)
MoveUp ==
    /\ sift = "up" /\ at > 0 /\ ~Less(At(ParentOf(at)), At(at))
    /\ data' = [data EXCEPT ![at + 1] = At(ParentOf(at)), ![ParentOf(at) + 1] = At(at)]
    /\ positions' = [positions EXCEPT ![At(ParentOf(at)).id] = positions[At(at).id],
                                      ![At(at).id] = positions[At(ParentOf(at)).id]]
    /\ at' = ParentOf(at)
    /\ UNCHANGED <<sift, held, request>>

StopUp ==
    /\ sift = "up" /\ (at > 0 => Less(At(ParentOf(at)), At(at)))
    /\ sift' = "ready" /\ at' = 0
    /\ UNCHANGED <<data, positions, held, request>>

-----------------------------------------------------------------------------
(* Moving down: move_down_in_tree with its Hole                            *)

(* children_index_range *)
Children(p) == {c \in Arity * p + 1 .. Arity * p + Arity : c < Len(data)}

(* Mutation of Rises: any child that is less than the element held aside.  *)
RisesUnchecked(c) == c \in Children(at) /\ Less(At(c), held)

(* A least child that has to be above the element held aside.              *)
Rises(c) ==
    /\ c \in Children(at) /\ Less(At(c), held)
    /\ \A other \in Children(at) \ {c} : Less(At(c), At(other))

MoveDown ==
    /\ sift = "down"
    /\ \E c \in Children(at) :
           /\ Rises(c)
           /\ positions' = [positions EXCEPT ![At(c).id] = at]
           /\ data' = [data EXCEPT ![at + 1] = At(c)]
           /\ at' = c
    /\ UNCHANGED <<sift, held, request>>

(* The element held aside fills the hole.                                  *)
StopDown ==
    /\ sift = "down" /\ \A c \in Children(at) : ~Less(At(c), held)
    /\ positions' = [positions EXCEPT ![held.id] = at]
    /\ data' = [data EXCEPT ![at + 1] = held]
    /\ sift' = "ready" /\ at' = 0 /\ held' = Nothing
    /\ UNCHANGED request

-----------------------------------------------------------------------------
Next ==
    \/ \E i \in Ids, k \in Keys : Push(i, k) \/ DecreaseKey(i, k) \/ IncreaseKey(i, k) \/ KeepKey(i, k)
    \/ PopEmpty \/ PopOnly \/ PopRoot
    \/ Clear
    \/ MoveUp \/ StopUp \/ MoveDown \/ StopDown

Spec == Init /\ [][Next]_vars

-----------------------------------------------------------------------------
(* The elements: what is at a hole has moved on.                           *)
Elements == {At(p) : p \in {q \in 0 .. Len(data) - 1 : sift # "down" \/ q # at}}
                \cup (IF sift = "down" THEN {held} ELSE {})

(* The heap implements a priority queue: pop returns the least element, and*)
(* an update changes the element it names, whatever operations came before.*)
Queue == INSTANCE PriorityQueue WITH queue <- Elements

HeapImplementsQueue == Queue!Spec
=============================================================================

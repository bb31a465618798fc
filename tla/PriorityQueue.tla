---------------------------- MODULE PriorityQueue ----------------------------
(***************************************************************************)
(* What the searches rely on: a queue that holds at most one key for each  *)
(* id and gives out the least of its elements.  Elements are ordered by    *)
(* their key and then by their id, as State in engine/src/algo/dijkstra.rs *)
(* is by its derived order.                                                *)
(***************************************************************************)
EXTENDS Integers

CONSTANTS
    Ids,   \* ids 0 .. max_id - 1 of elements
    Keys   \* keys, numbers

Nothing == [id |-> -1, key |-> 0]

Less(a, b) == a.key < b.key \/ (a.key = b.key /\ a.id < b.id)

VARIABLES
    queue,   \* the elements, records with an id and a key
    request  \* the last operation and what it returned

vars == <<queue, request>>

Init == queue = {} /\ request = <<"new">>

Contains(i) == \E e \in queue : e.id = i

(* push, of an id that is not contained.                                   *)
Push(i, k) ==
    /\ ~Contains(i)
    /\ queue' = queue \cup {[id |-> i, key |-> k]}
    /\ request' = <<"push", i, k>>

(* pop returns the least element, or Nothing.                              *)
Pop ==
    \/ queue = {} /\ request' = <<"pop", Nothing>> /\ UNCHANGED queue
    \/ \E e \in queue :
           /\ \A other \in queue \ {e} : Less(e, other)
           /\ queue' = queue \ {e}
           /\ request' = <<"pop", e>>

(* update_key, decrease_key and increase_key: the element gets a new key.  *)
UpdateKey(i, k) ==
    /\ Contains(i)
    /\ queue' = {e \in queue : e.id # i} \cup {[id |-> i, key |-> k]}
    /\ request' = <<"update", i, k>>

Clear == queue' = {} /\ request' = <<"clear">>

Next ==
    \/ \E i \in Ids, k \in Keys : Push(i, k) \/ UpdateKey(i, k)
    \/ Pop
    \/ Clear

Spec == Init /\ [][Next]_vars
=============================================================================

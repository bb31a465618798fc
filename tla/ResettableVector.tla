-------------------------- MODULE ResettableVector --------------------------
(***************************************************************************)
(* What the resettable vectors of engine/src/datastr promise their users:  *)
(* an array of values that can be written one element at a time and set    *)
(* back to the default value all at once.  Every search structure of the   *)
(* engine (tentative distances, predecessors, bounds) relies on nothing    *)
(* else.  TimestampedVector and ClearlistVector implement this.            *)
(***************************************************************************)
CONSTANTS
    Index,    \* the indices of the vector
    Value,    \* the values an element may hold
    Default,  \* the value of an element that was not written since the reset
    Update    \* what a user does through a mutable reference: functions on Value

VARIABLES
    value,   \* what the elements read as
    request  \* the operation the user called last

vars == <<value, request>>

Init ==
    /\ value = [i \in Index |-> Default]
    /\ request = <<"new">>

(* The user modifies an element through the reference it was handed.       *)
Modify(i, f) ==
    /\ request' = <<"modify", i, f>>
    /\ value' = [value EXCEPT ![i] = f[@]]

(* The user overwrites an element without looking at it.                   *)
Write(i, v) ==
    /\ request' = <<"write", i, v>>
    /\ value' = [value EXCEPT ![i] = v]

Clear ==
    /\ request' = <<"reset">>
    /\ value' = [i \in Index |-> Default]

Next ==
    \/ \E i \in Index, f \in Update : Modify(i, f)
    \/ \E i \in Index, v \in Value : Write(i, v)
    \/ Clear

Spec == Init /\ [][Next]_vars
=============================================================================

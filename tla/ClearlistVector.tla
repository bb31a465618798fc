--------------------------- MODULE ClearlistVector --------------------------
(***************************************************************************)
(* engine/src/datastr/clearlist_vector.rs, ClearlistVector<T>.  Whoever    *)
(* asks for a mutable reference to an element that is default puts its     *)
(* index on the clearlist; reset writes the default to the elements on the *)
(* list and to no others.  The list may name an index several times (a     *)
(* reference was taken and nothing, or the default, written through it);   *)
(* the repetitions are idempotent and the list is kept as a set.           *)
(***************************************************************************)
CONSTANTS
    Index,    \* positions of the vector
    Value,    \* T
    Default,  \* the default given to new
    Update    \* what callers do with the &mut T they get: functions on Value

VARIABLES
    data,      \* the elements
    clearlist, \* the indices reset has to clear
    request    \* the operation the user called last

vars == <<data, clearlist, request>>

Init ==
    /\ data = [i \in Index |-> Default]
    /\ clearlist = {}
    /\ request = <<"new">>

Reset ==
    /\ request' = <<"reset">>
    /\ data' = [i \in Index |-> IF i \in clearlist THEN Default ELSE data[i]]
    /\ clearlist' = {}

(* Mutation of IndexMut: the test for the default looks at the new value.  *)
IndexMutTestingAfter(i, f) ==
    /\ request' = <<"modify", i, f>>
    /\ data' = [data EXCEPT ![i] = f[@]]
    /\ clearlist' = IF data'[i] = Default THEN clearlist \cup {i} ELSE clearlist

(* index_mut: the index is listed before the caller writes, and only if    *)
(* the element is default at that time.                                    *)
IndexMut(i, f) ==
    /\ request' = <<"modify", i, f>>
    /\ data' = [data EXCEPT ![i] = f[@]]
    /\ clearlist' = IF data[i] = Default THEN clearlist \cup {i} ELSE clearlist

Next ==
    \/ \E i \in Index, f \in Update : IndexMut(i, f)
    \/ Reset

Spec == Init /\ [][Next]_vars

-----------------------------------------------------------------------------
(* What users see of the vector is a resettable vector: every element that*)
(* differs from the default is found by the next reset, although index_mut *)
(* lists an index only on the way from default.                            *)
Visible == INSTANCE ResettableVector WITH value <- data

ClearlistImplementsVector == Visible!Spec

=============================================================================

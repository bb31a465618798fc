-------------------------- MODULE TimestampedVector -------------------------
(***************************************************************************)
(* engine/src/datastr/timestamped_vector.rs, TimestampedVector<T>.  A      *)
(* reset does not touch the elements: it advances the current timestamp,   *)
(* and an element whose own timestamp differs counts as default.  The      *)
(* timestamp is a fixed width integer that wraps; on the wrap, and only    *)
(* then, the elements are reset one by one, while their timestamps stay.   *)
(***************************************************************************)
EXTENDS Integers

CONSTANTS
    Index,      \* positions of the vector
    Value,      \* T
    Default,    \* T::DEFAULT
    Update,     \* what callers do with the &mut T they get: functions on Value
    Timestamps  \* number of timestamps, 2^32 in the code

ASSUME DefaultAssumption == Default \in Value
ASSUME UpdateAssumption == Update \subseteq [Value -> Value]
ASSUME TimestampsAssumption == Timestamps \in Nat \ {0}

VARIABLES
    data,       \* the elements
    current,    \* timestamp of the current iteration
    timestamps, \* for each element, the iteration it was last touched in
    request     \* the operation the user called last

vars == <<data, current, timestamps, request>>

(* Type invariant: timestamps stay within the fixed width integer.         *)
TypeOK ==
    /\ data \in [Index -> Value]
    /\ current \in 0 .. Timestamps - 1
    /\ timestamps \in [Index -> 0 .. Timestamps - 1]

(* new: every element is default and already has the current timestamp.    *)
Init ==
    /\ data = [i \in Index |-> Default]
    /\ current = 0
    /\ timestamps = [i \in Index |-> 0]
    /\ request = <<"new">>

(* Mutation of Reset: the wrap is forgotten.                               *)
ResetIgnoringOverflow ==
    /\ request' = <<"reset">>
    /\ current' = (current + 1) % Timestamps
    /\ UNCHANGED <<data, timestamps>>

(* current.overflowing_add(1), and the slow path taken on the overflow.    *)
Reset ==
    /\ request' = <<"reset">>
    /\ current' = (current + 1) % Timestamps
    /\ data' = IF current + 1 = Timestamps THEN [i \in Index |-> Default] ELSE data
    /\ UNCHANGED timestamps

(* index, get_unchecked: the element, or the default if it is outdated.    *)
Read(i) == IF timestamps[i] = current THEN data[i] ELSE Default

(* Mutation of IndexMut: the old element is handed out as it is.           *)
IndexMutWithoutReset(i, f) ==
    /\ request' = <<"modify", i, f>>
    /\ data' = [data EXCEPT ![i] = f[@]]
    /\ timestamps' = [timestamps EXCEPT ![i] = current]
    /\ UNCHANGED current

(* index_mut, get_unchecked_mut: an outdated element is reset before the   *)
(* reference is handed out; the caller then applies f to what it sees.     *)
IndexMut(i, f) ==
    /\ request' = <<"modify", i, f>>
    /\ data' = [data EXCEPT ![i] = f[IF timestamps[i] = current THEN @ ELSE Default]]
    /\ timestamps' = [timestamps EXCEPT ![i] = current]
    /\ UNCHANGED current

(* set: overwrites the element and its timestamp without looking.          *)
Set(i, v) ==
    /\ request' = <<"write", i, v>>
    /\ data' = [data EXCEPT ![i] = v]
    /\ timestamps' = [timestamps EXCEPT ![i] = current]
    /\ UNCHANGED current

Next ==
    \/ \E i \in Index, f \in Update : IndexMut(i, f)
    \/ \E i \in Index, v \in Value : Set(i, v)
    \/ Reset

Spec == Init /\ [][Next]_vars

-----------------------------------------------------------------------------
(* Timestamps only return after a wrap.  An element with a timestamp that  *)
(* is still to come was last touched before the last wrap, and the wrap    *)
(* in reset has put it back to default: when current reaches its timestamp *)
(* again, nobody may find the value of 2^32 queries ago in it.             *)
FutureStampsAreDefault ==
    \A i \in Index : timestamps[i] > current => data[i] = Default

(* The vector a user sees through the index traits is a resettable vector: *)
(* after a reset every element reads as default, whatever the timestamps.  *)
Visible == INSTANCE ResettableVector WITH value <- [i \in Index |-> Read(i)]

ImplementsVector == Visible!Spec
=============================================================================

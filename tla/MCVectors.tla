------------------------------ MODULE MCVectors -----------------------------
(* The data structures that searches keep their labels in, one of which is *)
(* used.  Vectors: of neighbor lists (Value: sets, default the empty one), *)
(* whose users insert and remove through the reference, which shows a stale*)
(* element most clearly and lets an element return to the default and leave*)
(* it again between two resets.  Heaps: enough elements for three levels,  *)
(* with equal keys.                                                        *)
EXTENDS TimestampedVector

MCValue == SUBSET {"a", "b"}
MCDefault == {}
MCUpdate == UNION {{[s \in MCValue |-> s \cup {x}], [s \in MCValue |-> s \ {x}]} : x \in {"a", "b"}}

VARIABLES kind, clearlistData, clearlist, clearlistRequest,
          tree, positions, sift, at, held, heapRequest,
          labels, split, labelRequest

clearlistVars == <<clearlistData, clearlist, clearlistRequest>>
heapVars == <<tree, positions, sift, at, held, heapRequest>>
labelVars == <<labels, split, labelRequest>>

Clearlist == INSTANCE ClearlistVector WITH data <- clearlistData, request <- clearlistRequest

IdHeap == INSTANCE IndexedHeap WITH
    Ids <- 0 .. 4, Keys <- {1, 2}, Arity <- 2, data <- tree, request <- heapRequest

MCLabels == {[key |-> k, name |-> 1] : k \in {1, 2, 3}} \cup {[key |-> k, name |-> 2] : k \in {1, 3}}

Labeled == INSTANCE LabelHeap WITH Labels <- MCLabels, data <- labels, request <- labelRequest

InitVectors ==
    /\ Init /\ Clearlist!Init /\ IdHeap!Init /\ Labeled!Init
    /\ kind \in {"timestamped", "clearlist", "ids", "labels"}

NextVectors ==
    \/ kind = "timestamped" /\ Next /\ UNCHANGED <<kind, clearlistVars, heapVars, labelVars>>
    \/ kind = "clearlist" /\ Clearlist!Next /\ UNCHANGED <<kind, vars, heapVars, labelVars>>
    \/ kind = "ids" /\ IdHeap!Next /\ UNCHANGED <<kind, vars, clearlistVars, labelVars>>
    \/ kind = "labels" /\ Labeled!Next /\ UNCHANGED <<kind, vars, clearlistVars, heapVars>>

SpecVectors == InitVectors /\ [][NextVectors]_<<kind, vars, clearlistVars, heapVars, labelVars>>

(* The properties of the other three, for these instances of them.         *)
ClearlistImplementsVector == Clearlist!ClearlistImplementsVector

HeapImplementsQueue == IdHeap!HeapImplementsQueue

HeapImplementsLabelQueue == Labeled!ImplementsLabelQueue
=============================================================================

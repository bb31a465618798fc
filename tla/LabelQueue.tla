------------------------------ MODULE LabelQueue -----------------------------
(***************************************************************************)
(* What the multi-criteria searches rely on for the labels of a node: the  *)
(* greatest live label can be taken, labels that were taken are kept, and  *)
(* labels that are dominated can be removed from both parts.               *)
(***************************************************************************)
EXTENDS Integers

CONSTANT Labels  \* records with a key; two labels may have the same key

VARIABLES
    live,    \* labels that were not taken yet
    taken,   \* labels that were
    request  \* the last operation and what it returned

vars == <<live, taken, request>>

Init == live = {} /\ taken = {} /\ request = <<"new">>

Push(l) ==
    /\ l \notin live \cup taken
    /\ live' = live \cup {l}
    /\ request' = <<"push", l>>
    /\ UNCHANGED taken

(* Any of the greatest labels.                                             *)
Pop ==
    \/ live = {} /\ request' = <<"pop", {}>> /\ UNCHANGED <<live, taken>>
    \/ \E l \in live :
           /\ \A other \in live : other.key <= l.key
           /\ live' = live \ {l} /\ taken' = taken \cup {l}
           /\ request' = <<"pop", {l}>>

Retain(kept) ==
    /\ live' = live \cap kept /\ taken' = taken \cap kept
    /\ request' = <<"retain", kept>>

Clear == live' = {} /\ taken' = {} /\ request' = <<"clear">>

Next ==
    \/ \E l \in Labels : Push(l)
    \/ \E kept \in SUBSET Labels : Retain(kept)
    \/ Pop \/ Clear

Spec == Init /\ [][Next]_vars
=============================================================================

---------------------------- MODULE VectorProofs ----------------------------
(***************************************************************************)
(* TimestampedVector implements ResettableVector for every width of the    *)
(* timestamp, every size and every element type, and so does               *)
(* ClearlistVector.                                                        *)
(***************************************************************************)
EXTENDS TimestampedVector, TLAPS

IInv == TypeOK /\ FutureStampsAreDefault

(* The code of reset, index_mut and set keeps timestamps in range, and an  *)
(* element whose timestamp is still to come holds the default.             *)
LEMMA InvInductive == IInv /\ [Next]_vars => IInv'
<1> SUFFICES ASSUME IInv, [Next]_vars PROVE IInv'
  OBVIOUS
<1> USE DefaultAssumption, UpdateAssumption, TimestampsAssumption
         DEF IInv, TypeOK, FutureStampsAreDefault
<1>1. ASSUME NEW i \in Index, NEW f \in Update, IndexMut(i, f) PROVE IInv'
  <2>1. f \in [Value -> Value]
    OBVIOUS
  <2>2. data' \in [Index -> Value]
    BY <1>1, <2>1 DEF IndexMut
  <2>3. timestamps' \in [Index -> 0 .. Timestamps - 1] /\ current' = current
    BY <1>1 DEF IndexMut
  <2>4. \A j \in Index : timestamps'[j] > current' => data'[j] = Default
    BY <1>1 DEF IndexMut
  <2> QED BY <2>2, <2>3, <2>4
<1>2. ASSUME NEW i \in Index, NEW v \in Value, Set(i, v) PROVE IInv'
  BY <1>2 DEF Set
<1>3. CASE Reset
  <2>1. CASE current + 1 = Timestamps
    <3>1. current' = 0 /\ data' = [i \in Index |-> Default] /\ timestamps' = timestamps
      BY <1>3, <2>1 DEF Reset
    <3> QED BY <3>1
  <2>2. CASE current + 1 # Timestamps
    <3>1. current' = current + 1 /\ data' = data /\ timestamps' = timestamps
      BY <1>3, <2>2 DEF Reset
    <3> QED BY <3>1, <2>2
  <2> QED BY <2>1, <2>2
<1>4. CASE UNCHANGED vars
  BY <1>4 DEF vars
<1> QED BY <1>1, <1>2, <1>3, <1>4 DEF Next

(* FutureStampsAreDefault in every reachable state.                        *)
THEOREM StampsInvariant == Spec => [](TypeOK /\ FutureStampsAreDefault)
<1>1. Init => IInv
  BY DefaultAssumption, TimestampsAssumption DEF Init, IInv, TypeOK, FutureStampsAreDefault
<1>2. IInv => TypeOK /\ FutureStampsAreDefault
  BY DEF IInv
<1> QED BY <1>1, <1>2, InvInductive, PTL DEF Spec

-----------------------------------------------------------------------------
(* One step of the timestamped vector is one step of the visible vector:   *)
(* no element changes what it reads as, except the one that is written.    *)
LEMMA StepRefines == IInv /\ [Next]_vars => [Visible!Next]_(Visible!vars)
<1> SUFFICES ASSUME IInv, [Next]_vars
             PROVE  Visible!Next \/ UNCHANGED Visible!vars
  OBVIOUS
<1> USE DefaultAssumption, UpdateAssumption, TimestampsAssumption
         DEF IInv, TypeOK, FutureStampsAreDefault
<1>1. ASSUME NEW i \in Index, NEW f \in Update, IndexMut(i, f) PROVE Visible!Modify(i, f)
  BY <1>1 DEF IndexMut, Visible!Modify, Read
<1>2. ASSUME NEW i \in Index, NEW v \in Value, Set(i, v) PROVE Visible!Write(i, v)
  BY <1>2 DEF Set, Visible!Write, Read
<1>3. CASE Reset
  <2>1. \A j \in Index : Read(j)' = Default
    <3> TAKE j \in Index
    <3>1. CASE current + 1 = Timestamps
      BY <1>3, <3>1 DEF Reset, Read
    <3>2. CASE current + 1 # Timestamps
      <4>1. current' = current + 1 /\ data' = data /\ timestamps' = timestamps
        BY <1>3, <3>2 DEF Reset
      <4> QED BY <4>1 DEF Read
    <3> QED BY <3>1, <3>2
  <2> QED BY <1>3, <2>1 DEF Reset, Visible!Clear, Visible!Next
<1>4. CASE UNCHANGED vars
  BY <1>4 DEF vars, Visible!vars, Read
<1> QED BY <1>1, <1>2, <1>3, <1>4 DEF Next, Visible!Next

(* The timestamped vector implements the resettable vector.                *)
THEOREM Refinement == Spec => ImplementsVector
<1>1. Init => Visible!Init
  BY DEF Init, Visible!Init, Read
<1>2. Spec => []IInv
  BY StampsInvariant, PTL DEF IInv
<1> QED BY <1>1, <1>2, StepRefines, PTL DEF Spec, ImplementsVector, Visible!Spec

-----------------------------------------------------------------------------
VARIABLE clearlist

(* A vector with a clearlist in the place of the timestamps.               *)
Clearlist == INSTANCE ClearlistVector

(* The clearlist names every element that reset has to clear.              *)
DirtyIsListed ==
    /\ data = [i \in Index |-> data[i]]
    /\ \A i \in Index \ clearlist : data[i] = Default

(* index_mut lists an index before the element leaves the default, and no  *)
(* operation but reset removes an index.                                   *)
LEMMA DirtyInductive == DirtyIsListed /\ [Clearlist!Next]_(Clearlist!vars) => DirtyIsListed'
<1> SUFFICES ASSUME DirtyIsListed, [Clearlist!Next]_(Clearlist!vars) PROVE DirtyIsListed'
  OBVIOUS
<1>1. ASSUME NEW i \in Index, NEW f \in Update, Clearlist!IndexMut(i, f) PROVE DirtyIsListed'
  <2>1. data' = [j \in Index |-> IF j = i THEN f[data[i]] ELSE data[j]]
    BY <1>1 DEF Clearlist!IndexMut, DirtyIsListed
  <2>2. ASSUME NEW j \in Index \ clearlist' PROVE data'[j] = Default
    <3>1. j \notin clearlist /\ data[j] = Default
      BY <1>1, <2>2 DEF Clearlist!IndexMut, DirtyIsListed
    <3>2. j # i
      BY <1>1, <2>2, <3>1 DEF Clearlist!IndexMut
    <3> QED BY <2>1, <3>1, <3>2
  <2> QED BY <2>1, <2>2 DEF DirtyIsListed
<1>2. CASE Clearlist!Reset
  BY <1>2 DEF Clearlist!Reset, DirtyIsListed
<1>3. CASE UNCHANGED Clearlist!vars
  BY <1>3 DEF Clearlist!vars, DirtyIsListed
<1> QED BY <1>1, <1>2, <1>3 DEF Clearlist!Next

(* Clearing the listed elements clears all of them.                        *)
LEMMA ClearlistStepRefines ==
    DirtyIsListed /\ [Clearlist!Next]_(Clearlist!vars) => [Clearlist!Visible!Next]_(Clearlist!Visible!vars)
<1> SUFFICES ASSUME DirtyIsListed, [Clearlist!Next]_(Clearlist!vars)
             PROVE  Clearlist!Visible!Next \/ UNCHANGED Clearlist!Visible!vars
  OBVIOUS
<1>1. ASSUME NEW i \in Index, NEW f \in Update, Clearlist!IndexMut(i, f) PROVE Clearlist!Visible!Modify(i, f)
  BY <1>1 DEF Clearlist!IndexMut, Clearlist!Visible!Modify
<1>2. CASE Clearlist!Reset
  BY <1>2 DEF Clearlist!Reset, DirtyIsListed, Clearlist!Visible!Clear, Clearlist!Visible!Next
<1>3. CASE UNCHANGED Clearlist!vars
  BY <1>3 DEF Clearlist!vars, Clearlist!Visible!vars
<1> QED BY <1>1, <1>2, <1>3 DEF Clearlist!Next, Clearlist!Visible!Next

(* The vector with a clearlist implements the resettable vector, whatever  *)
(* its elements are and whatever its users do with the references.         *)
THEOREM ClearlistRefinement == Clearlist!Spec => Clearlist!ClearlistImplementsVector
<1>1. Clearlist!Init => DirtyIsListed /\ Clearlist!Visible!Init
  BY DEF Clearlist!Init, DirtyIsListed, Clearlist!Visible!Init
<1> QED BY <1>1, DirtyInductive, ClearlistStepRefines, PTL
        DEF Clearlist!Spec, Clearlist!ClearlistImplementsVector, Clearlist!Visible!Spec
=============================================================================

------------------------- MODULE CustomizationProofs ------------------------
(***************************************************************************)
(* Basic customization establishes the lower triangle inequality and exact *)
(* unpacking information on every contracted graph and for every metric,   *)
(* in whatever order that finishes lower neighbors first.                  *)
(***************************************************************************)
EXTENDS CCHCustomization, CCHWeightsProofs

(* Unpacking information is written together with the final weight, and a  *)
(* node is customized after all its lower neighbors.                       *)
LowerNeighborsFirst ==
    /\ \A x \in customized : Below(x) \subseteq customized
    /\ \A e \in Edges : e[1] \notin customized => upVia[e] = None /\ downVia[e] = None

IInv == TypeOK /\ LowerNeighborsFirst /\ LowerTriangles /\ UnpackingIsExact

-----------------------------------------------------------------------------
(* Where edges and their lower triangles are.                              *)
LEMMA EdgeFacts ==
    ASSUME NEW e \in Edges
    PROVE  /\ e[1] \in Nodes /\ e[2] \in Nodes /\ e[2] \in Graph[e[1]]
           /\ \A z \in Triangles(e) : /\ z \in Nodes /\ z \in Below(e[1]) /\ z # e[1]
                                      /\ <<z, e[1]>> \in Edges /\ <<z, e[2]>> \in Edges
<1>1. e[1] \in Nodes /\ e[2] \in Nodes /\ e[2] \in Graph[e[1]]
  BY DEF Edges
<1>2. ASSUME NEW z \in Triangles(e)
      PROVE  /\ z \in Nodes /\ z \in Below(e[1]) /\ z # e[1]
             /\ <<z, e[1]>> \in Edges /\ <<z, e[2]>> \in Edges
  <2>1. z \in Nodes /\ z \in Below(e[1]) /\ e[1] \in Graph[z] /\ e[2] \in Graph[z]
    BY DEF Triangles, Below
  <2>2. z < e[1]
    BY <2>1, GraphAssumption
  <2> QED BY <1>1, <2>1, <2>2, NodesAreNat DEF Edges
<1> QED BY <1>1, <1>2

(* The relaxed weights are the least of the edge and its triangles.        *)
LEMMA RelaxedIsLeast ==
    ASSUME TypeOK, NEW e \in Edges
    PROVE  /\ UpRelaxed(e) \in {up[e]} \cup {UpOver(e, z) : z \in Triangles(e)}
           /\ UpRelaxed(e) \in Weight /\ UpRelaxed(e) <= up[e]
           /\ \A z \in Triangles(e) : UpRelaxed(e) <= UpOver(e, z)
           /\ DownRelaxed(e) \in {down[e]} \cup {DownOver(e, z) : z \in Triangles(e)}
           /\ DownRelaxed(e) \in Weight /\ DownRelaxed(e) <= down[e]
           /\ \A z \in Triangles(e) : DownRelaxed(e) <= DownOver(e, z)
<1>1. /\ up[e] \in Weight /\ down[e] \in Weight
      /\ \A z \in Triangles(e) : UpOver(e, z) \in Nat /\ DownOver(e, z) \in Nat
  BY EdgeFacts, InfAssumption DEF TypeOK, Weight, UpOver, DownOver
<1> DEFINE U == {up[e]} \cup {UpOver(e, z) : z \in Triangles(e)}
           D == {down[e]} \cup {DownOver(e, z) : z \in Triangles(e)}
<1>2. U \in SUBSET Nat /\ U # {} /\ up[e] \in U /\ D \in SUBSET Nat /\ D # {} /\ down[e] \in D
  BY <1>1, InfAssumption DEF Weight
<1>3. UpRelaxed(e) \in U /\ \A x \in U : UpRelaxed(e) <= x
  <2> HIDE DEF U
  <2>1. Lowest(U) \in U /\ \A x \in U : Lowest(U) <= x
    BY <1>2, LowestIsLeast
  <2> QED BY <2>1 DEF UpRelaxed, U
<1>4. DownRelaxed(e) \in D /\ \A x \in D : DownRelaxed(e) <= x
  <2> HIDE DEF D
  <2>1. Lowest(D) \in D /\ \A x \in D : Lowest(D) <= x
    BY <1>2, LowestIsLeast
  <2> QED BY <2>1 DEF DownRelaxed, D
<1>5. UpRelaxed(e) \in Weight
  <2>1. UpRelaxed(e) \in Nat /\ UpRelaxed(e) <= up[e]
    BY <1>2, <1>3
  <2> QED BY <1>1, <2>1, InfAssumption DEF Weight
<1>6. DownRelaxed(e) \in Weight
  <2>1. DownRelaxed(e) \in Nat /\ DownRelaxed(e) <= down[e]
    BY <1>2, <1>4
  <2> QED BY <1>1, <2>1, InfAssumption DEF Weight
<1> QED BY <1>2, <1>3, <1>4, <1>5, <1>6

(* The node remembered for unpacking attains the relaxed weight.           *)
LEMMA ViaAttains ==
    ASSUME TypeOK, NEW e \in Edges
    PROVE  /\ UpVia(e) = None => UpRelaxed(e) = up[e]
           /\ UpVia(e) # None => UpVia(e) \in Triangles(e) /\ UpRelaxed(e) = UpOver(e, UpVia(e))
           /\ DownVia(e) = None => DownRelaxed(e) = down[e]
           /\ DownVia(e) # None => DownVia(e) \in Triangles(e) /\ DownRelaxed(e) = DownOver(e, DownVia(e))
           /\ UpVia(e) \in Nodes \cup {None} /\ DownVia(e) \in Nodes \cup {None}
<1> DEFINE U == {z \in Triangles(e) : UpOver(e, z) = UpRelaxed(e)}
           D == {z \in Triangles(e) : DownOver(e, z) = DownRelaxed(e)}
<1>1. U \in SUBSET Nat /\ D \in SUBSET Nat /\ U \subseteq Nodes /\ D \subseteq Nodes
  BY EdgeFacts, NodesAreNat
<1>2. ASSUME UpRelaxed(e) # up[e]
      PROVE  UpVia(e) \in U /\ UpVia(e) # None
  <2>1. U # {}
    BY <1>2, RelaxedIsLeast
  <2>2. UpVia(e) = Lowest(U)
    BY <1>2 DEF UpVia
  <2> HIDE DEF U
  <2>3. UpVia(e) \in U
    BY <1>1, <2>1, <2>2, LowestIsLeast
  <2> QED BY <1>1, <2>3 DEF None
<1>3. ASSUME DownRelaxed(e) # down[e]
      PROVE  DownVia(e) \in D /\ DownVia(e) # None
  <2>1. D # {}
    BY <1>3, RelaxedIsLeast
  <2>2. DownVia(e) = Lowest(D)
    BY <1>3 DEF DownVia
  <2> HIDE DEF D
  <2>3. DownVia(e) \in D
    BY <1>1, <2>1, <2>2, LowestIsLeast
  <2> QED BY <1>1, <2>3 DEF None
<1>4. UpRelaxed(e) = up[e] => UpVia(e) = None
  BY DEF UpVia
<1>5. DownRelaxed(e) = down[e] => DownVia(e) = None
  BY DEF DownVia
<1> QED BY <1>1, <1>2, <1>3, <1>4, <1>5

-----------------------------------------------------------------------------
LEMMA InitIInv == Init => IInv
<1> SUFFICES ASSUME Init PROVE IInv
  OBVIOUS
<1>1. metric \in Metric
  BY MetricsAssumption DEF Init
<1>2. ASSUME NEW e \in Edges PROVE RespectUp(metric)[e] \in Weight /\ RespectDown(metric)[e] \in Weight
  <2>1. e \in Nodes \X Nodes /\ <<e[2], e[1]>> \in Nodes \X Nodes
    BY DEF Edges
  <2>2. ASSUME NEW a \in Nodes \X Nodes PROVE Lowest(metric[a] \cup {Inf}) \in Weight
    <3>1. metric[a] \cup {Inf} \in SUBSET Weight /\ metric[a] \cup {Inf} # {} /\ Weight \subseteq Nat
      BY <1>1, InfAssumption DEF Metric, Weight
    <3> QED BY <3>1, LowestIsLeast
  <2> QED BY <2>1, <2>2 DEF RespectUp, RespectDown
<1>3. TypeOK
  BY <1>1, <1>2 DEF Init, TypeOK, RespectUp, RespectDown
<1>4. LowerNeighborsFirst /\ LowerTriangles
  BY DEF Init, LowerNeighborsFirst, LowerTriangles
<1>5. UnpackingIsExact
  BY DEF Init, UnpackingIsExact
<1> QED BY <1>3, <1>4, <1>5 DEF IInv

LEMMA StepIInv == ASSUME IInv, NEW x \in Nodes, CustomizeNode(x) PROVE IInv'
<1>1. /\ TypeOK /\ LowerNeighborsFirst /\ LowerTriangles /\ UnpackingIsExact
      /\ x \notin customized /\ Below(x) \subseteq customized
      /\ customized' = customized \cup {x} /\ metric' = metric
  BY DEF IInv, CustomizeNode
<1>2. ASSUME NEW e \in Edges, e[1] = x
      PROVE  /\ up'[e] = UpRelaxed(e) /\ down'[e] = DownRelaxed(e)
             /\ upVia'[e] = UpVia(e) /\ downVia'[e] = DownVia(e)
  BY <1>2 DEF CustomizeNode
<1>3. ASSUME NEW e \in Edges, e[1] # x
      PROVE  up'[e] = up[e] /\ down'[e] = down[e] /\ upVia'[e] = upVia[e] /\ downVia'[e] = downVia[e]
  BY <1>3 DEF CustomizeNode
<1>4. TypeOK'
  <2>1. ASSUME NEW e \in Edges
        PROVE  /\ up'[e] \in Weight /\ down'[e] \in Weight
               /\ upVia'[e] \in Nodes \cup {None} /\ downVia'[e] \in Nodes \cup {None}
    <3>1. CASE e[1] = x
      BY <1>1, <1>2, <3>1, RelaxedIsLeast, ViaAttains
    <3>2. CASE e[1] # x
      BY <1>1, <1>3, <3>2 DEF TypeOK
    <3> QED BY <3>1, <3>2
  <2>2. /\ up' = [e \in Edges |-> up'[e]] /\ down' = [e \in Edges |-> down'[e]]
        /\ upVia' = [e \in Edges |-> upVia'[e]] /\ downVia' = [e \in Edges |-> downVia'[e]]
    BY DEF CustomizeNode
  <2>3. customized' \subseteq Nodes /\ metric' \in Metric
    BY <1>1 DEF TypeOK
  <2>4. up' \in [Edges -> Weight] /\ down' \in [Edges -> Weight]
    BY <2>1, <2>2
  <2>5. upVia' \in [Edges -> Nodes \cup {None}] /\ downVia' \in [Edges -> Nodes \cup {None}]
    BY <2>1, <2>2
  <2> QED BY <2>3, <2>4, <2>5 DEF TypeOK
<1>5. LowerNeighborsFirst'
  <2>1. \A y \in customized' : Below(y) \subseteq customized'
    BY <1>1 DEF LowerNeighborsFirst
  <2>2. ASSUME NEW e \in Edges, e[1] \notin customized' PROVE upVia'[e] = None /\ downVia'[e] = None
    BY <1>1, <1>3, <2>2 DEF LowerNeighborsFirst
  <2> QED BY <2>1, <2>2 DEF LowerNeighborsFirst
\* the triangles of a customized edge lie on nodes customized earlier
<1>6. ASSUME NEW e \in Edges, e[1] \in customized', NEW z \in Triangles(e)
      PROVE  UpOver(e, z)' = UpOver(e, z) /\ DownOver(e, z)' = DownOver(e, z)
  <2>1. z \in customized /\ z # x /\ <<z, e[1]>> \in Edges /\ <<z, e[2]>> \in Edges
    BY <1>1, <1>6, EdgeFacts DEF LowerNeighborsFirst
  <2> QED BY <1>3, <2>1 DEF UpOver, DownOver
<1>7. LowerTriangles'
  <2> SUFFICES ASSUME NEW e \in Edges, e[1] \in customized', NEW z \in Triangles(e)
               PROVE  up'[e] <= UpOver(e, z)' /\ down'[e] <= DownOver(e, z)'
    BY DEF LowerTriangles
  <2>1. CASE e[1] = x
    BY <1>1, <1>2, <1>6, <2>1, RelaxedIsLeast
  <2>2. CASE e[1] # x
    BY <1>1, <1>3, <1>6, <2>2 DEF LowerTriangles
  <2> QED BY <2>1, <2>2
<1>8. UnpackingIsExact'
  <2> DEFINE UpOverNow(e, z) == down'[<<z, e[1]>>] + up'[<<z, e[2]>>]
             DownOverNow(e, z) == down'[<<z, e[2]>>] + up'[<<z, e[1]>>]
  <2>1. SUFFICES ASSUME NEW e \in Edges
                 PROVE  /\ upVia'[e] = None => up'[e] = RespectUp(metric)[e]
                        /\ upVia'[e] # None => upVia'[e] \in Triangles(e) /\ up'[e] = UpOverNow(e, upVia'[e])
                        /\ downVia'[e] = None => down'[e] = RespectDown(metric)[e]
                        /\ downVia'[e] # None => downVia'[e] \in Triangles(e) /\ down'[e] = DownOverNow(e, downVia'[e])
    BY <1>1 DEF UnpackingIsExact, UpOver, DownOver
  <2>2. ASSUME e[1] \in customized', NEW z \in Triangles(e)
        PROVE  UpOverNow(e, z) = UpOver(e, z) /\ DownOverNow(e, z) = DownOver(e, z)
    BY <1>6, <2>2 DEF UpOver, DownOver
  <2> HIDE DEF UpOverNow, DownOverNow
  <2>3. CASE e[1] = x
    <3>1. e[1] \in customized' /\ upVia[e] = None /\ downVia[e] = None
      BY <1>1, <2>3 DEF LowerNeighborsFirst
    <3>2. up[e] = RespectUp(metric)[e] /\ down[e] = RespectDown(metric)[e]
      BY <1>1, <3>1 DEF UnpackingIsExact
    <3> QED BY <1>1, <1>2, <2>2, <2>3, <3>1, <3>2, ViaAttains
  <2>4. CASE e[1] # x /\ e[1] \in customized
    <3>1. e[1] \in customized'
      BY <1>1, <2>4
    <3> QED BY <1>1, <1>3, <2>2, <2>4, <3>1 DEF UnpackingIsExact
  <2>5. CASE e[1] # x /\ e[1] \notin customized
    <3>1. upVia'[e] = None /\ downVia'[e] = None
      BY <1>1, <1>3, <2>5 DEF LowerNeighborsFirst
    <3> QED BY <1>1, <1>3, <2>5, <3>1 DEF UnpackingIsExact
  <2> QED BY <2>3, <2>4, <2>5
<1> QED BY <1>4, <1>5, <1>7, <1>8 DEF IInv

(* What a step writes is what the reference distances say, if that is what *)
(* the lower neighbors have.                                               *)
LEMMA RelaxedIsBasic ==
    ASSUME TypeOK, metric \in Metrics, NEW e \in Edges,
           up[e] = RespectUp(metric)[e], down[e] = RespectDown(metric)[e],
           \A f \in Edges : f[1] \in Below(e[1]) => up[f] = BasicUp(metric)[f] /\ down[f] = BasicDown(metric)[f]
    PROVE  /\ UpRelaxed(e) = BasicUp(metric)[e] /\ DownRelaxed(e) = BasicDown(metric)[e]
           /\ UpVia(e) = BasicUpVia(metric)[e] /\ DownVia(e) = BasicDownVia(metric)[e]
<1> DEFINE U == BasicUp(metric)
           D == BasicDown(metric)
<1>1. ASSUME NEW z \in Triangles(e)
      PROVE  /\ UpOver(e, z) = D[<<z, e[1]>>] + U[<<z, e[2]>>]
             /\ DownOver(e, z) = D[<<z, e[2]>>] + U[<<z, e[1]>>]
  <2>1. <<z, e[1]>> \in Edges /\ <<z, e[2]>> \in Edges /\ z \in Below(e[1])
    BY EdgeFacts
  <2> QED BY <2>1 DEF UpOver, DownOver
<1>2. /\ U[e] \in Nat /\ D[e] \in Nat /\ U[e] <= up[e] /\ D[e] <= down[e]
      /\ \A z \in Triangles(e) : U[e] <= UpOver(e, z) /\ D[e] <= DownOver(e, z)
      /\ U[e] = up[e] \/ \E z \in Triangles(e) : U[e] = UpOver(e, z)
      /\ D[e] = down[e] \/ \E z \in Triangles(e) : D[e] = DownOver(e, z)
  <2> HIDE DEF U, D
  <2> QED BY <1>1, BasicIsLeast DEF U, D
<1> HIDE DEF U, D
<1>3. /\ UpRelaxed(e) \in Weight /\ DownRelaxed(e) \in Weight /\ Weight \subseteq Nat
      /\ UpRelaxed(e) <= up[e] /\ DownRelaxed(e) <= down[e]
      /\ \A z \in Triangles(e) : UpRelaxed(e) <= UpOver(e, z) /\ DownRelaxed(e) <= DownOver(e, z)
      /\ UpRelaxed(e) = up[e] \/ \E z \in Triangles(e) : UpRelaxed(e) = UpOver(e, z)
      /\ DownRelaxed(e) = down[e] \/ \E z \in Triangles(e) : DownRelaxed(e) = DownOver(e, z)
  BY RelaxedIsLeast, InfAssumption DEF Weight
<1>4. UpRelaxed(e) = U[e]
  <2>1. U[e] <= UpRelaxed(e)
    BY <1>2, <1>3
  <2>2. UpRelaxed(e) <= U[e]
    BY <1>2, <1>3
  <2>3. UpRelaxed(e) \in Nat
    BY <1>3
  <2> QED BY <1>2, <2>1, <2>2, <2>3
<1>5. DownRelaxed(e) = D[e]
  <2>1. D[e] <= DownRelaxed(e)
    BY <1>2, <1>3
  <2>2. DownRelaxed(e) <= D[e]
    BY <1>2, <1>3
  <2>3. DownRelaxed(e) \in Nat
    BY <1>3
  <2> QED BY <1>2, <2>1, <2>2, <2>3
<1>6. UpVia(e) = BasicUpVia(metric)[e]
  <2>1. BasicUpVia(metric)[e] =
            IF U[e] = RespectUp(metric)[e] THEN None
            ELSE Lowest({z \in Triangles(e) : D[<<z, e[1]>>] + U[<<z, e[2]>>] = U[e]})
    BY DEF BasicUpVia, U, D
  <2>2. {z \in Triangles(e) : D[<<z, e[1]>>] + U[<<z, e[2]>>] = U[e]}
            = {z \in Triangles(e) : UpOver(e, z) = UpRelaxed(e)}
    BY <1>1, <1>4
  <2> QED BY <1>4, <2>1, <2>2 DEF UpVia
<1>7. DownVia(e) = BasicDownVia(metric)[e]
  <2>1. BasicDownVia(metric)[e] =
            IF D[e] = RespectDown(metric)[e] THEN None
            ELSE Lowest({z \in Triangles(e) : D[<<z, e[2]>>] + U[<<z, e[1]>>] = D[e]})
    BY DEF BasicDownVia, U, D
  <2>2. {z \in Triangles(e) : D[<<z, e[2]>>] + U[<<z, e[1]>>] = D[e]}
            = {z \in Triangles(e) : DownOver(e, z) = DownRelaxed(e)}
    BY <1>1, <1>5
  <2> QED BY <1>5, <2>1, <2>2 DEF DownVia
<1> QED BY <1>4, <1>5, <1>6, <1>7 DEF U, D

(* IInv with the reference distances.                                      *)
BasicInv == IInv /\ metric \in Metrics /\ ComputesBasic

LEMMA StepBasicInv == ASSUME BasicInv, NEW x \in Nodes, CustomizeNode(x) PROVE BasicInv'
<1>1. /\ IInv /\ metric \in Metrics /\ ComputesBasic /\ TypeOK /\ LowerNeighborsFirst /\ UnpackingIsExact
      /\ x \notin customized /\ Below(x) \subseteq customized
      /\ customized' = customized \cup {x} /\ metric' = metric
  BY DEF BasicInv, IInv, CustomizeNode
<1>2. IInv'
  BY <1>1, StepIInv
<1>3. ASSUME NEW e \in Edges, e[1] \in customized'
      PROVE  /\ up'[e] = BasicUp(metric)[e] /\ down'[e] = BasicDown(metric)[e]
             /\ upVia'[e] = BasicUpVia(metric)[e] /\ downVia'[e] = BasicDownVia(metric)[e]
  <2>1. CASE e[1] # x
    <3>1. /\ up'[e] = up[e] /\ down'[e] = down[e] /\ upVia'[e] = upVia[e] /\ downVia'[e] = downVia[e]
          /\ e[1] \in customized
      BY <1>1, <1>3, <2>1 DEF CustomizeNode
    <3> QED BY <1>1, <3>1 DEF ComputesBasic
  <2>2. CASE e[1] = x
    <3>1. upVia[e] = None /\ downVia[e] = None
      BY <1>1, <2>2 DEF LowerNeighborsFirst
    <3>2. up[e] = RespectUp(metric)[e] /\ down[e] = RespectDown(metric)[e]
      BY <1>1, <3>1 DEF UnpackingIsExact
    <3>3. ASSUME NEW f \in Edges, f[1] \in Below(e[1])
          PROVE  up[f] = BasicUp(metric)[f] /\ down[f] = BasicDown(metric)[f]
      BY <1>1, <2>2, <3>3 DEF ComputesBasic
    <3>4. /\ up'[e] = UpRelaxed(e) /\ down'[e] = DownRelaxed(e)
          /\ upVia'[e] = UpVia(e) /\ downVia'[e] = DownVia(e)
      BY <2>2 DEF CustomizeNode
    <3> QED BY <1>1, <3>2, <3>3, <3>4, RelaxedIsBasic
  <2> QED BY <2>1, <2>2
<1>4. ComputesBasic'
  BY <1>1, <1>3 DEF ComputesBasic
<1> QED BY <1>1, <1>2, <1>4 DEF BasicInv

LEMMA SpecIInv == Spec => []IInv
<1>1. IInv /\ [Next]_vars => IInv'
  <2>1. IInv /\ UNCHANGED vars => IInv'
    BY DEF vars, IInv, TypeOK, LowerNeighborsFirst, LowerTriangles, UnpackingIsExact,
           UpOver, DownOver
  <2> QED BY <2>1, StepIInv DEF Next
<1> QED BY <1>1, InitIInv, PTL DEF Spec

(* Weights stay within 0 .. Inf: no customization step makes a weight that *)
(* exceeds INFINITY.                                                       *)
THEOREM TypeCorrect == Spec => []TypeOK
<1>1. IInv => TypeOK
  BY DEF IInv
<1> QED BY <1>1, SpecIInv, PTL

(* Customized edges satisfy the lower triangle inequality and keep it.     *)
THEOREM LowerTriangleInequality == Spec => []LowerTriangles
<1>1. IInv => LowerTriangles
  BY DEF IInv
<1> QED BY <1>1, SpecIInv, PTL

(* Unpacking an edge never changes the length of a path.                   *)
THEOREM ExactUnpacking == Spec => []UnpackingIsExact
<1>1. IInv => UnpackingIsExact
  BY DEF IInv
<1> QED BY <1>1, SpecIInv, PTL

(* The weight of a customized edge is the length of a shortest path over   *)
(* nodes lower than both ends, in whatever order nodes were customized.    *)
THEOREM BasicIsExact == Spec => []ComputesBasic
<1>1. Init => BasicInv
  BY InitIInv DEF Init, BasicInv, ComputesBasic
<1>2. BasicInv /\ [Next]_vars => BasicInv'
  <2>1. BasicInv /\ UNCHANGED vars => BasicInv'
    BY DEF vars, BasicInv, IInv, TypeOK, LowerNeighborsFirst, LowerTriangles, UnpackingIsExact,
           UpOver, DownOver, ComputesBasic
  <2> QED BY <2>1, StepBasicInv DEF Next
<1>3. BasicInv => ComputesBasic
  BY DEF BasicInv
<1> QED BY <1>1, <1>2, <1>3, PTL DEF Spec
=============================================================================

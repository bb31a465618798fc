---------------------------- MODULE LazyPotential ---------------------------
(***************************************************************************)
(* The distances of single nodes to a target, or from it, that             *)
(* engine/src/algo/ch_potentials.rs computes when they are asked for and   *)
(* keeps until the next target: CCHPotential and CHPotential, which fill   *)
(* them in on the way to the root or depth first, and                      *)
(* CCHPotentialWithPathUnpacking, which turns its parents into a tree of   *)
(* shortest paths over arcs of the input.                                  *)
(***************************************************************************)
EXTENDS CCHMetrics, Sequences, SequencesExt, FiniteSetsExt

VARIABLES
    variant,     \* "tree": CCHPotential, "stack": CHPotential
    toTarget,    \* forward_potential or backward_potential
    target,
    potentials,  \* the distances that are known, None for others
    dists,       \* backward_distances, or those of the search from the target
    parents,     \* backward_parents: the next node to the target
    unpacked,    \* path_unpacked
    stack,       \* nodes whose potentials are to be computed, the next one last
    calls        \* calls of unpack_path: the node, its parent then, and what was last done

customizationVars == <<customized, variant, toTarget>>
potentialVars == <<customizationVars, target, potentials, dists, parents, unpacked, stack, calls>>

Nowhere == [x \in Nodes |-> None]

InitPotentialFor(v, forward) ==
    /\ variant = v /\ toTarget = forward
    /\ target = None
    /\ potentials = Nowhere /\ dists = [x \in Nodes |-> Inf] /\ parents = [x \in Nodes |-> N]
    /\ unpacked = {} /\ stack = <<>> /\ calls = <<>>

InitPotential ==
    /\ \E m \in Metrics : customized = Perfect(m)
    /\ \E v \in {"tree", "stack"}, forward \in BOOLEAN : InitPotentialFor(v, forward)

-----------------------------------------------------------------------------
(* The graph on which potentials are computed, and that of the search from *)
(* the target.                                                             *)
Heads(x) == {y \in Nodes : <<x, y>> \in IF toTarget THEN customized.fw ELSE customized.bw}

LinkWeight == IF toTarget THEN customized.up ELSE customized.down

FromTarget(t) ==
    IF toTarget
    THEN Walked(customized.down, customized.bw, t, parents)
    ELSE Walked(customized.up, customized.fw, t, parents)

Idle == stack = <<>> /\ calls = <<>>

(* Potential::init                                                         *)
SetTarget ==
    /\ Idle
    /\ \E t \in Nodes :
           /\ target' = t
           /\ \E walk \in {FromTarget(t)} :
                  /\ dists' = walk.dist
                  /\ parents' = IF variant = "tree" THEN walk.parents ELSE parents
    /\ potentials' = Nowhere /\ unpacked' = {}
    /\ UNCHANGED <<customizationVars, stack, calls>>

-----------------------------------------------------------------------------
(* Potentials                                                              *)

Top == stack[Len(stack)]

(* The first loop of CCHPotential::potential_with_cch_rank: the nodes on   *)
(* the way from x to the first with a known potential, or to the root.     *)
Unknown(x) ==
    {y \in TreePath(Parent, x) : \A z \in TreePath(Parent, x) : z <= y => potentials[z] = None}

(* Nodes in the order of their ranks.                                      *)
Ascending(S) ==
    CHOOSE list \in [1 .. Cardinality(S) -> S] : \A i, j \in 1 .. Cardinality(S) : i < j => list[i] < list[j]

PathTo(x) == Ascending(Unknown(x))

(* Potential::potential, in both variants.                                 *)
Ask ==
    /\ Idle /\ target # None
    /\ \E x \in Nodes :
           /\ potentials[x] = None
           /\ stack' = IF variant = "tree" THEN PathTo(x) ELSE <<x>>
    /\ UNCHANGED <<customizationVars, target, potentials, dists, parents, unpacked, calls>>

(* Mutation of Missing: only the nodes that the search from the target has *)
(* not met are asked for.                                                  *)
MissingUnmet(x) ==
    IF variant = "tree" THEN {} ELSE {y \in Heads(x) : potentials[y] = None /\ dists[y] = Inf}

(* Only CHPotential finds nodes on its stack that are known, because they  *)
(* were on it more than once, and heads that are not.                      *)
Missing(x) == IF variant = "tree" THEN {} ELSE {y \in Heads(x) : potentials[y] = None}

PopKnown ==
    /\ stack # <<>> /\ potentials[Top] # None
    /\ stack' = Front(stack)
    /\ UNCHANGED <<customizationVars, target, potentials, dists, parents, unpacked, calls>>

PushMissing ==
    /\ stack # <<>> /\ potentials[Top] = None /\ Missing(Top) # {}
    /\ stack' = stack \o Ascending(Missing(Top))
    /\ UNCHANGED <<customizationVars, target, potentials, dists, parents, unpacked, calls>>

Via(x, y) == LinkWeight[<<x, y>>] + potentials[y]

(* A head that is better than the search and all heads before it becomes   *)
(* the parent.                                                             *)
EvaluateTop ==
    /\ stack # <<>> /\ potentials[Top] = None /\ Missing(Top) = {}
    /\ LET best == Min({dists[Top]} \cup {Via(Top, y) : y \in Heads(Top)})
       IN  /\ potentials' = [potentials EXCEPT ![Top] = best]
           /\ IF variant = "tree" /\ best < dists[Top]
              THEN parents' = [parents EXCEPT ![Top] = Min({y \in Heads(Top) : Via(Top, y) = best})]
              ELSE UNCHANGED parents
    /\ stack' = Front(stack)
    /\ UNCHANGED <<customizationVars, target, dists, unpacked, calls>>

-----------------------------------------------------------------------------
(* unpack_path, which calls itself.  It goes on when a potential that it   *)
(* asked for is known.                                                     *)

Call(x) == [node |-> x, parent |-> None, done |-> "nothing"]

(* Callers ask for paths of nodes that have one.                           *)
AskPath ==
    /\ variant = "tree" /\ Idle /\ target # None
    /\ \E x \in Nodes : potentials[x] \notin {None, Inf} /\ calls' = <<Call(x)>>
    /\ UNCHANGED <<customizationVars, target, potentials, dists, parents, unpacked, stack>>

Here == calls[Len(calls)]

Running(done) == stack = <<>> /\ calls # <<>> /\ Here.done = done

Outer == Front(calls)

Enter ==
    /\ Running("nothing")
    /\ IF Here.node \in unpacked
       THEN calls' = Outer /\ UNCHANGED stack
       ELSE /\ calls' = Append(Outer, [Here EXCEPT !.done = "potential"])
            /\ stack' = PathTo(Here.node)
    /\ UNCHANGED <<customizationVars, target, potentials, dists, parents, unpacked>>

Leave == unpacked' = unpacked \cup {Here.node} /\ calls' = Outer

(* Only the target is its own parent.                                      *)
ReadParent ==
    /\ Running("potential")
    /\ LET parent == parents[Here.node]
       IN  \/ parent = Here.node /\ Leave /\ UNCHANGED stack
           \/ /\ parent # Here.node
              /\ calls' = Append(Outer, [Here EXCEPT !.parent = parent, !.done = "read"])
              /\ stack' = PathTo(parent)
              /\ UNCHANGED unpacked
    /\ UNCHANGED <<customizationVars, target, potentials, dists, parents>>

(* The path from the parent comes first.                                   *)
UnpackParent ==
    /\ Running("read")
    /\ calls' = Outer \o <<[Here EXCEPT !.done = "parent"], Call(Here.parent)>>
    /\ UNCHANGED <<customizationVars, target, potentials, dists, parents, unpacked, stack>>

(* Mutation of MiddleOf: paths from the target are unpacked as if they led *)
(* to it.                                                                  *)
MiddleOfUnflipped(call) == Middle(customized, call.node, call.parent)

(* The lower node of the triangle for which the edge to the parent stands. *)
MiddleOf(call) ==
    IF toTarget THEN Middle(customized, call.node, call.parent) ELSE Middle(customized, call.parent, call.node)

(* Then the edge to it, first from the middle node, if there is one.       *)
ReadEdge ==
    /\ Running("parent")
    /\ LET middle == MiddleOf(Here)
       IN  \/ middle = None /\ Leave /\ UNCHANGED <<parents, stack>>
           \/ /\ middle # None
              /\ parents' = [parents EXCEPT ![Here.node] = middle]
              /\ IF middle \in unpacked
                 THEN calls' = Append(Outer, [Here EXCEPT !.done = "edge"]) /\ UNCHANGED stack
                 ELSE /\ calls' = Append(Outer, [Here EXCEPT !.done = "middle"])
                      /\ stack' = PathTo(middle)
              /\ UNCHANGED unpacked
    /\ UNCHANGED <<customizationVars, target, potentials, dists>>

(* The potential of the middle node is known and cannot set its parent     *)
(* again: it is led to the parent of the edge.                             *)
UnpackMiddle ==
    /\ Running("middle")
    /\ parents' = [parents EXCEPT ![MiddleOf(Here)] = Here.parent]
    /\ calls' = Outer \o <<[Here EXCEPT !.done = "edge"], Call(MiddleOf(Here))>>
    /\ UNCHANGED <<customizationVars, target, potentials, dists, unpacked, stack>>

(* The edge to the middle node is unpacked by a call for the node itself.  *)
UnpackAgain ==
    /\ Running("edge")
    /\ calls' = Outer \o <<[Here EXCEPT !.done = "all"], Call(Here.node)>>
    /\ UNCHANGED <<customizationVars, target, potentials, dists, parents, unpacked, stack>>

LeaveCall ==
    /\ Running("all")
    /\ Leave
    /\ UNCHANGED <<customizationVars, target, potentials, dists, parents, stack>>

-----------------------------------------------------------------------------
Compute ==
    \/ PopKnown \/ PushMissing \/ EvaluateTop
    \/ Enter \/ ReadParent \/ UnpackParent \/ ReadEdge \/ UnpackMiddle \/ UnpackAgain \/ LeaveCall

NextPotential == SetTarget \/ Ask \/ AskPath \/ Compute

SpecPotential == InitPotential /\ [][NextPotential]_potentialVars /\ WF_potentialVars(Compute)

-----------------------------------------------------------------------------
(* A known potential is the distance to the target, never to an earlier one*)
(* and never computed from neighbors that are not final.                   *)
PotentialsAreDistances ==
    \A x \in Nodes : potentials[x] # None =>
        potentials[x] = customized.dist[IF toTarget THEN <<x, target>> ELSE <<target, x>>]

(* Where the parents of unpacked nodes lead to.                            *)
Arc(x) == customized.metric[IF toTarget THEN <<x, parents[x]>> ELSE <<parents[x], x>>]

Reaches(x) ==
    LET at[k \in 0 .. N] == IF k = 0 THEN x ELSE parents[at[k - 1]]
    IN  \E k \in 0 .. N - 1 : at[k] = target

ZeroCycles == \E a \in Edges : customized.dist[a] + customized.dist[<<a[2], a[1]>>] = 0

(* From an unpacked node the parents lead to the target, also where arcs   *)
(* of weight 0 make shortest paths ambiguous, for which unpack_path calls  *)
(* itself with care: "the call in unpack_path won't override it again".    *)
UnpackedPathsEnd == Idle => \A x \in unpacked : Reaches(x)

(* Unless there are cycles of length 0, they lead there over arcs that are *)
(* as long as the distance, whichever nodes were unpacked before and       *)
(* however many shortest paths there are.                                  *)
UnpackedPathsAreShortest ==
    Idle /\ ~ZeroCycles =>
        \A x \in unpacked \ {target} :
            /\ Reaches(x)
            /\ parents[x] \in unpacked
            /\ Arc(x) # {} /\ potentials[x] = potentials[parents[x]] + Lowest(Arc(x))

(* Every potential and every path is computed in the end.                  *)
ComputationsEnd == ~Idle ~> Idle
=============================================================================

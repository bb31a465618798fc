------------------------ MODULE CCHFullCustomization ------------------------
(***************************************************************************)
(* A perfect customization from the weights of the arcs to the reduced     *)
(* graph, as callers of engine/src/algo/customizable_contraction_hierarchy *)
(* run it: customize, then customize_perfect, which improves the weights   *)
(* in place and rebuilds the graph.  Each begins when all threads of the   *)
(* one before have come back.                                              *)
(***************************************************************************)
EXTENDS CCHRebuild, Sequences

CONSTANTS
    Threads, Cells, Root, Small  \* as in CCHParallelCustomization

VARIABLES
    phase,                                                   \* what is going on
    metric, customized,
    state, nextSub, current, stack, loaded, todo,            \* both on threads
    wsUp, wsDown, ws                                         \* workspaces

Basic == INSTANCE CCHParallelCustomization

Perfect == INSTANCE CCHPerfectCustomization

basicOnly == <<upVia, downVia, customized, nextSub, wsUp, wsDown>>
perfectOnly == <<upMod, downMod, ws>>
threadVars == <<metric, up, down, state, current, stack, loaded, todo>>
allVars == <<phase, basicOnly, perfectOnly, threadVars, rebuildVars>>

Cell == DOMAIN Cells

End(c) == Cells[c].first + Cells[c].size

NodesOf(c) == Cells[c].first .. End(c) - 1

Subs(c) == {Cells[c].sub[i] : i \in DOMAIN Cells[c].sub}

(* The separator tree.  No edge leads from a node of a cell to a lower node*)
(* of another one; the subcells follow one another from the first node on, *)
(* and the rest is the separator.  Every cell is reached from the root, in *)
(* one way.                                                                *)
ASSUME CellsAssumption ==
    /\ Small \in Nat
    /\ Root \in Cell /\ NodesOf(Root) = Nodes
    /\ \A c \in Cell :
           /\ Cells[c] \in [first : Nat, size : Nat, sub : Seq(Cell)] /\ End(c) <= N
           /\ \A x \in NodesOf(c) : Below(x) \subseteq NodesOf(c)
           /\ \A i \in DOMAIN Cells[c].sub :
                  LET sub == Cells[c].sub[i]
                  IN  /\ Cells[sub].first = IF i = 1 THEN Cells[c].first ELSE End(Cells[c].sub[i - 1])
                      /\ End(sub) <= End(c)
    /\ \A c, d \in Cell : \A i \in DOMAIN Cells[c].sub, j \in DOMAIN Cells[d].sub :
           Cells[c].sub[i] # Root /\ (Cells[c].sub[i] = Cells[d].sub[j] => c = d /\ i = j)
    /\ \A S \in SUBSET Cell : Root \in S /\ (\A c \in S : Subs(c) \subseteq S) => S = Cell

-----------------------------------------------------------------------------
InitFull ==
    /\ phase = "basic"
    /\ Basic!Init
    /\ upMod = {} /\ downMod = {} /\ ws = [t \in Threads |-> [v \in Nodes |-> None]]
    /\ InitRebuild

(* A thread of the pool makes a step.                                      *)
ThreadStep(t) ==
    /\ \/ phase = "basic" /\ Basic!Step(t) /\ UNCHANGED perfectOnly
       \/ phase = "perfect" /\ Perfect!Step(t) /\ UNCHANGED basicOnly
    /\ UNCHANGED <<phase, rebuildVars>>

NoWorkspaces == [t \in Threads |-> [v \in Nodes |-> Basic!Empty]]

(* customize returned and customize_perfect starts, with workspaces of its *)
(* own.                                                                    *)
StartPerfect ==
    /\ phase = "basic" /\ state[Root] = "done"
    /\ phase' = "perfect"
    /\ state' = [c \in Cell |-> IF c = Root THEN "spawned" ELSE "idle"]
    /\ current' = [c \in Cell |-> End(c)]
    /\ wsUp' = NoWorkspaces /\ wsDown' = NoWorkspaces
    /\ UNCHANGED <<metric, up, down, upVia, downVia, customized, nextSub, perfectOnly, stack, loaded, todo, rebuildVars>>

(* customize_perfect_without_rebuild returned; the feature cch-disable-par *)
(* decides how the graph is built.                                         *)
StartRebuild ==
    /\ phase = "perfect" /\ state[Root] = "done"
    /\ phase' = "rebuild"
    /\ StartSequential \/ \E k \in ChunkCounts : StartParallel(k)
    /\ UNCHANGED <<basicOnly, perfectOnly, threadVars>>

RebuildStep ==
    /\ phase = "rebuild"
    /\ Rebuild
    /\ UNCHANGED <<phase, basicOnly, perfectOnly, threadVars>>

Caller == StartPerfect \/ StartRebuild \/ RebuildStep

NextFull == (\E t \in Threads : ThreadStep(t)) \/ Caller

SpecFull ==
    /\ InitFull /\ [][NextFull]_allVars
    /\ \A t \in Threads : WF_allVars(ThreadStep(t))
    /\ WF_allVars(Caller)

-----------------------------------------------------------------------------
(* The slices of the basic customization suffice.                          *)
SlicesSuffice == phase = "basic" => Basic!SlicesSuffice

(* Neither the threads of the basic nor those of the perfect customization *)
(* touch edges at the same time of which one of them writes.               *)
NoConcurrentAccess ==
    /\ phase = "basic" => Basic!NoConcurrentAccess
    /\ phase = "perfect" => Perfect!NoConcurrentAccess

(* The threads of the basic customization implement customization node by  *)
(* node.                                                                   *)
ImplementsCustomization ==
    /\ phase = "basic" => Basic!Sequential!Init
    /\ [][phase' = "basic" => Basic!Sequential!Next]_(Basic!weightVars)

(* The perfect customization of what the threads of the basic one left     *)
(* makes weights distances, and marks the edges that are longer.           *)
WeightsAreDistances == phase = "perfect" => Perfect!WeightsAreDistances

ModifiedIsExact == phase = "perfect" => Perfect!ModifiedIsExact

(* A customization ends, with any number of threads.                       *)
CustomizationEnds == phase \in {"basic", "perfect"} ~> step \in {"rebuilt", "panicked"}
=============================================================================

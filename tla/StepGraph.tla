------------------------------ MODULE StepGraph ------------------------------
(***************************************************************************)
(* buildStepGraph of internal/engine/step_graph.go: which steps of a       *)
(* deploy wait for which, from the resources the steps declare and, for    *)
(* the steps that declare none, from their place in the file.              *)
(*                                                                         *)
(* A plan is a sequence of steps.  Of a step, the engine sees              *)
(*    requires, provides   what it declares (StepRequires, StepProvides)   *)
(*    needs                what its checks may report as missing, in an    *)
(*                         error that is Deferrable: the step's owner and  *)
(*                         group, its parent directory, a mount source     *)
(***************************************************************************)
EXTENDS Naturals, Sequences, FiniteSets

CONSTANTS
    Resource,
    Within      \* <<r, s>>: both are paths, and r lies under s

ASSUME WithinAssumption == Within \subseteq Resource \X Resource

StepDecl == [requires : SUBSET Resource, provides : SUBSET Resource,
             needs : SUBSET Resource]

Pairs(steps) == (DOMAIN steps) \X (DOMAIN steps)

HasResources(step) == step.requires \cup step.provides # {}

Barriers(steps) == {n \in DOMAIN steps : ~HasResources(steps[n])}

-----------------------------------------------------------------------------
(***************************************************************************)
(* Resource edges: the provider of what a step requires, and the providers *)
(* of the directories that what it provides lies in.  Two steps do not     *)
(* provide one resource: detectDuplicateProvides refuses the plan.         *)
(***************************************************************************)
UniqueProviders(steps) ==
    \A m, n \in DOMAIN steps : m # n => steps[m].provides \cap steps[n].provides = {}

BugRequiresOnly(steps) ==
    {e \in Pairs(steps) :
        e[1] # e[2] /\ steps[e[2]].requires \cap steps[e[1]].provides # {}}

ResourceEdges(steps) ==
    {e \in Pairs(steps) :
        /\ e[1] # e[2]
        /\ \/ steps[e[2]].requires \cap steps[e[1]].provides # {}
           \/ (steps[e[2]].provides \X steps[e[1]].provides) \cap Within # {}}

(***************************************************************************)
(* Fence edges: every step waits for the last barrier before it, and a     *)
(* barrier waits for the steps since the one before.                       *)
(***************************************************************************)
NextBarrier(steps, m) == {b \in Barriers(steps) : b > m}

BugFencesFanOutOnly(steps) ==
    {e \in Pairs(steps) :
        /\ e[1] < e[2] /\ e[1] \in Barriers(steps)
        /\ \A b \in NextBarrier(steps, e[1]) : b >= e[2]}

FenceEdges(steps) ==
    {e \in Pairs(steps) :
        /\ e[1] < e[2] /\ Barriers(steps) \cap {e[1], e[2]} # {}
        /\ \A b \in NextBarrier(steps, e[1]) : b >= e[2]}

Edges(steps) == ResourceEdges(steps) \cup FenceEdges(steps)

\* stepNode.requires
Requires(steps) ==
    [n \in DOMAIN steps |-> {m \in DOMAIN steps : <<m, n>> \in Edges(steps)}]

-----------------------------------------------------------------------------
(***************************************************************************)
(* What plan() lets through: DetectStepCycles and detectDuplicateProvides. *)
(***************************************************************************)
Sortable(g) ==
    \A S \in SUBSET DOMAIN g : S # {} => \E n \in S : g[n] \cap S = {}

ValidPlan(steps) == UniqueProviders(steps) /\ Sortable(Requires(steps))

(***************************************************************************)
(* What step kinds declare of what their checks look at: a step that needs *)
(* a resource requires it, or provides something in it, and it needs the   *)
(* directories of what it provides.                                        *)
(***************************************************************************)
Above(S) == {s \in Resource : \E r \in S : <<r, s>> \in Within}

WellDeclared(steps) ==
    \A n \in DOMAIN steps :
        /\ steps[n].needs \subseteq steps[n].requires \cup Above(steps[n].provides)
        /\ Above(steps[n].provides) \subseteq steps[n].needs

(***************************************************************************)
(* The order the fences stand for: nothing is reordered with a barrier.    *)
(***************************************************************************)
AllFences(steps) ==
    {e \in Pairs(steps) :
        e[1] < e[2] /\ Barriers(steps) \cap {e[1], e[2]} # {}}
=============================================================================

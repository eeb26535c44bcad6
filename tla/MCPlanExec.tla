----------------------------- MODULE MCPlanExec -----------------------------
(***************************************************************************)
(* PlanExec for TLC: every valid plan of three steps out of a catalogue of *)
(* what the step kinds declare.                                            *)
(***************************************************************************)
EXTENDS PlanExec

CONSTANTS user, dir, file

\* dir is a directory, file a file in it.
MCResource == {user, dir, file}
MCWithin == {<<file, dir>>}

Decl(r, p, n) == [requires |-> r, provides |-> p, needs |-> n]

Opaque  == Decl({}, {}, {})                     \* run, pkg, service
UserK   == Decl({}, {user}, {})                 \* user, state present
DirK    == Decl({user}, {dir}, {user})          \* dir, with an owner
CopyK   == Decl({user}, {file}, {user, dir})    \* copy, template
MountK  == Decl({dir}, {}, {dir})               \* container with a mount

Catalogue == {Opaque, UserK, DirK, CopyK, MountK}

ThreeSteps == {s \in [1..3 -> Catalogue] : ValidPlan(s)}

\* What the theorem NothingMissedHolds asks of the plans.
ASSUME DeclaredAssumption == \A s \in ThreeSteps : WellDeclared(s)

MCTargets == {{}, {user}}
=============================================================================

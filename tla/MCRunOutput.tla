---------------------------- MODULE MCRunOutput ----------------------------
(***************************************************************************)
(* Two deploys side by side: one with two steps and a hook step, so that   *)
(* the steps can settle out of order and a hook can follow a gap, and one  *)
(* with a single step.                                                     *)
(***************************************************************************)
EXTENDS RunOutput

MCLane == {0, 1}
MCPlan == [l \in MCLane |-> IF l = 0 THEN 2 ELSE 1]
MCHookSteps == [l \in MCLane |-> IF l = 0 THEN 1 ELSE 0]
=============================================================================

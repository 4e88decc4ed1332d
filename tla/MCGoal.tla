------------------------------- MODULE MCGoal -------------------------------
(***************************************************************************)
(* Two definitions, the second with lower ceilings, for GoalController.     *)
(***************************************************************************)
EXTENDS GoalController, TLC

MCAttempts == 1 :> 2 @@ 2 :> 1
MCOutputs == 1 :> 2 @@ 2 :> 1
=============================================================================

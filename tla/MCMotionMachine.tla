--------------------------- MODULE MCMotionMachine ---------------------------
(***************************************************************************)
(* Instances of MotionMachine for TLC; the .cfg files choose who runs.     *)
(***************************************************************************)
EXTENDS MotionMachine

MCRoutes == { << [axis |-> "travel", to |-> 1], [axis |-> "hoist", to |-> 1] >> }
MCPositions == {0, 1}
================================================================================

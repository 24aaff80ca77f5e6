---------------------------- MODULE MCProcessClock ----------------------------
(***************************************************************************)
(* Instances of ProcessClock for TLC; the .cfg files choose who runs.      *)
(***************************************************************************)
EXTENDS ProcessClock

MCSteps == {-1, 1, 2}
================================================================================

---------------------------- MODULE MCMotionHistory ----------------------------
(***************************************************************************)
(* Instance of CraneService, with its history variables, for TLC: a route  *)
(* of two axes, so that a caller has a motion left after a stop or a        *)
(* cancellation, against itself and against a route of the second axis.    *)
(* The moves lead to where the axes are: nothing checked here reads the    *)
(* pose, and the instance has room for a canceller.                        *)
(***************************************************************************)
EXTENDS MotionHistory

Move(a) == [axis |-> a, to |-> 0]

MCRoutes == { <<Move("travel"), Move("hoist")>>, <<Move("hoist")>> }
MCPositions == {0}
MCClientPhases == {"fault"}
================================================================================

------------------------------ MODULE MCLifeCycle ------------------------------
(***************************************************************************)
(* Instance of LifeCycle for TLC: two aisles, started at most twice.       *)
(***************************************************************************)
EXTENDS LifeCycle

MCIds == 1..2
MCCranes == MCIds \X (1..2)
MCRoutes == { << [axis |-> "travel", to |-> 2] >> }
MCPositions == 0..2
MCMaxMM == [a \in Axes |-> 2]
================================================================================

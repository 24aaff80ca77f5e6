--------------------------- MODULE MCGuardedMotion ---------------------------
(***************************************************************************)
(* Instances of GuardedMotion for TLC: home, a cell in another bay that     *)
(* needs the fork, one above it, a bay that is not there and the next aisle.*)
(***************************************************************************)
EXTENDS GuardedMotion

Loc(aisle, bay, level, depth) ==
  [aisle |-> aisle, bay |-> bay, level |-> level, depth |-> depth]

MCLocations == { CraneHome(1), Loc(1, 2, 1, 1), Loc(1, 2, 2, 0), Loc(1, 3, 1, 0), CraneHome(2) }
MCPositions == 0..6
MCMaxMM == [a \in Axes |-> 6]
MCRoutes == {}
================================================================================

------------------------------- MODULE Warehouse -------------------------------
(***************************************************************************)
(* The warehouse as configured (internal/config), the conversion between   *)
(* storage locations and crane positions (internal/model), the planner     *)
(* (internal/path) and the position limits of the alarm monitor.           *)
(***************************************************************************)
EXTENDS CraneDomain, Integers, Sequences

CONSTANTS
  Aisles, BaysPerAisle, Levels, Depths,  \* dimensions; depth 0 is the aisle itself
  BayPitch, LevelPitch, DepthPitch,      \* distances between cells (mm)
  MaxMM                                  \* LimitSet: the limit of each axis

\* WarehouseConfig.Validate: nothing is asked of the depths.
Validate ==
  /\ Aisles > 0
  /\ BaysPerAisle > 0 /\ Levels > 0
  /\ BayPitch > 0 /\ LevelPitch > 0

\* What every configuration has to satisfy for the layout to make sense, beyond
\* what Validate asks: cells in depth, and limits that reach the last cell.
ASSUME WarehouseAssumption ==
  /\ {Aisles, BaysPerAisle, Levels, Depths, BayPitch, LevelPitch, DepthPitch} \subseteq Int
  /\ Validate
  /\ Depths >= 0 /\ DepthPitch > 0
  /\ MaxMM \in [Axes -> Int]
  /\ BaysPerAisle * BayPitch <= MaxMM["travel"]
  /\ Levels * LevelPitch <= MaxMM["hoist"]
  /\ Depths * DepthPitch <= MaxMM["fork"]

-------------------------------------------------------------------------------
Location == [aisle : Int, bay : Int, level : Int, depth : Int]

\* The planner's test of a location; any aisle will do.
InBounds(loc) ==
  loc.bay \in 1..BaysPerAisle /\ loc.level \in 1..Levels /\ loc.depth \in 0..Depths

AllCells ==
  [aisle : 1..Aisles, bay : 1..BaysPerAisle, level : 1..Levels, depth : 0..Depths]

CraneHome(aisle) == [aisle |-> aisle, bay |-> 1, level |-> 1, depth |-> 0]

LocationToPosition(loc) ==
  [a \in Axes |-> CASE a = "travel" -> loc.bay * BayPitch
                    [] a = "hoist"  -> loc.level * LevelPitch
                    [] a = "fork"   -> loc.depth * DepthPitch]

AtLeast(low, n) == IF n < low THEN low ELSE n

\* Mutant: the position is rounded to the next cell up.
PositionToLocation_RoundsUp(pos, aisle) ==
  [aisle |-> aisle,
   bay   |-> AtLeast(1, (pos["travel"] + BayPitch) \div BayPitch),
   level |-> AtLeast(1, pos["hoist"] \div LevelPitch),
   depth |-> AtLeast(0, pos["fork"] \div DepthPitch)]

\* Positions are never negative here, where \div and Go's division agree.
PositionToLocation(pos, aisle) ==
  [aisle |-> aisle,
   bay   |-> AtLeast(1, pos["travel"] \div BayPitch),
   level |-> AtLeast(1, pos["hoist"] \div LevelPitch),
   depth |-> AtLeast(0, pos["fork"] \div DepthPitch)]

\* Monitor.CheckPose: the axes it raises an alarm for.
CheckPose(pos) == {a \in Axes : pos[a] > MaxMM[a]}

-------------------------------------------------------------------------------
StepTo(from, to, a) ==
  IF from[a] = to[a] THEN << >> ELSE << [axis |-> a, to |-> to[a]] >>

\* Mutant: the fork is not moved when the crane has to travel.
buildSteps_NoForkAfterTravel(from, to) ==
  StepTo(from, to, "travel") \o StepTo(from, to, "hoist") \o
    (IF from["travel"] = to["travel"] THEN StepTo(from, to, "fork") ELSE << >>)

\* Planner.buildSteps: travel, then hoist, then fork, each axis that differs
\* between the two positions; where the crane really is plays no part.
buildSteps(from, to) ==
  StepTo(from, to, "travel") \o StepTo(from, to, "hoist") \o StepTo(from, to, "fork")

\* Mutant: only the origin is looked at.
CanPlan_AnyTarget(from, to) == InBounds(from) /\ from.aisle = to.aisle

\* Planner.Plan refuses every other pair of locations.
CanPlan(from, to) == InBounds(from) /\ InBounds(to) /\ from.aisle = to.aisle

Plan(from, to) == buildSteps(LocationToPosition(from), LocationToPosition(to))
================================================================================

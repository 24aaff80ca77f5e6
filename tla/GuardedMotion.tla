----------------------------- MODULE GuardedMotion -----------------------------
(***************************************************************************)
(* App.MoveCrane: take the crane's status once, plan the move between two   *)
(* locations, let interlock.Guard validate every step of the plan against  *)
(* that one status, then execute the plan on the crane's service.          *)
(***************************************************************************)
EXTENDS CraneService, Warehouse

CONSTANTS
  Locations,      \* what callers ask to move between, cells or not
  MinHoistClear,  \* LimitSet.MinHoistClearMM
  NoPlan          \* nothing validated and not yet started

ASSUME GuardedAssumption ==
  /\ Locations \subseteq Location
  /\ \A loc \in AllCells : LocationToPosition(loc) \in [Axes -> Positions]

VARIABLES
  validated,  \* the move each caller has validated and not yet started
  goal        \* ghost: the targets of the moves that started from their origin

guardedVars == <<serviceVars, validated, goal>>

-------------------------------------------------------------------------------
(***************************************************************************)
(* The guard, on the present status of crane k.                            *)
(***************************************************************************)

\* CranePose.ForkPos: App.Start sets it, and no motion of the fork changes it.
ForkPos(k) == "retracted"

CheckTravel(k) ==
  ~eStopActive[k] /\ ForkPos(k) = "retracted" /\ phase[k] \notin {"hoisting", "forking"}

\* The clearance rule asks for height only when the fork is not retracted.
CheckHoist(k) ==
  /\ ~eStopActive[k]
  /\ ForkPos(k) # "extended"
  /\ phase[k] # "traveling"
  /\ mm[k]["hoist"] < MinHoistClear => ForkPos(k) = "retracted"

CheckFork(k) == ~eStopActive[k] /\ phase[k] \notin {"traveling", "hoisting"}

CheckAxis(k, a) ==
  CASE a = "travel" -> CheckTravel(k)
    [] a = "hoist"  -> CheckHoist(k)
    [] a = "fork"   -> CheckFork(k)

ValidateMotion(k, a) == CheckAxis(k, a) /\ ~interlocked[k]

-------------------------------------------------------------------------------
\* App.Start has set every crane to its home.
GuardedInit ==
  /\ ServiceInitAt(LocationToPosition(CraneHome(1)))
  /\ validated = [c \in Callers |-> NoPlan]
  /\ goal = [c \in Callers |-> NoPlan]

\* One status for the whole plan.  A refused plan ends the move.
ValidatePlan(c, k, from, to) ==
  LET plan == Plan(from, to) IN
  /\ pc[c] = "ready" /\ validated[c] = NoPlan
  /\ CanPlan(from, to)
  /\ \A i \in DOMAIN plan : ValidateMotion(k, plan[i].axis)
  /\ validated' = [validated EXCEPT ![c] = [crane |-> k, from |-> from, to |-> to]]
  /\ UNCHANGED <<serviceVars, goal>>

\* Coordinator.MoveCrane plans again, from the same locations, and executes.  A
\* plan without steps is done at once.
Launch(c) ==
  LET move == validated[c]
      plan == Plan(move.from, move.to)
  IN
  /\ validated[c] # NoPlan
  /\ IF plan = << >> THEN UNCHANGED serviceVars ELSE Begin(c, move.crane, plan)
  /\ validated' = [validated EXCEPT ![c] = NoPlan]
  /\ goal' = [goal EXCEPT ![c] = IF mm[move.crane] = LocationToPosition(move.from) THEN move.to ELSE NoPlan]

GuardedNext ==
  \/ \E c \in Callers :
       \/ \E k \in Cranes, from, to \in Locations : ValidatePlan(c, k, from, to)
       \/ Launch(c)
       \/ (CallerStep(c) \/ ContextDone(c)) /\ UNCHANGED <<validated, goal>>
  \/ ClientNext /\ UNCHANGED <<validated, goal>>

GuardedSpec == GuardedInit /\ [][GuardedNext]_guardedVars

-------------------------------------------------------------------------------
Move == [crane : Cranes, from : Locations, to : Locations]

\* Every variable has its type, those of the service included.
GuardedTypeOK ==
  /\ ServiceTypeOK
  /\ validated \in [Callers -> Move \cup {NoPlan}]
  /\ goal \in [Callers -> Locations \cup {NoPlan}]

\* The last motion of the route has been carried out.
RouteDone(c) ==
  pc[c] \in {"unlock", "clear"} /\ moved[c] /\ Tail(route[c]) = << >>

\* With one caller, a move that was given the crane's real position and ran to
\* its end brings all axes to the target, whatever stops, interlocks and
\* abandoned moves came before.
ArrivesAtTarget ==
  \A c \in Callers : RouteDone(c) /\ goal[c] # NoPlan =>
    mm[crane[c]] = LocationToPosition(goal[c])

\* Wherever motions were abandoned, a crane stands at a cell, the one its
\* position converts back to, and the monitor has nothing to say about its pose:
\* no step between two axes of a plan leads out of the warehouse.
StandsAtCell ==
  \A k \in Cranes : LET loc == PositionToLocation(mm[k], 1) IN
    InBounds(loc) /\ LocationToPosition(loc) = mm[k] /\ CheckPose(mm[k]) = {}

\* A motion of axis a starts on crane k in this step.
Starts(k, a) ==
  \E c \in Callers : pc[c] = "start" /\ pc'[c] = "mid" /\ crane[c] = k /\ axis(c) = a

\* rules.go, travel_fork_retracted: "Fork must be retracted before travel".
TravelForkRetracted ==
  [][\A k \in Cranes : Starts(k, "travel") => mm[k]["fork"] = 0]_guardedVars
================================================================================

------------------------------- MODULE LifeCycle -------------------------------
(***************************************************************************)
(* App.Start and App.Shutdown around the cranes, the emergency stop and the *)
(* aisle registry (internal/aisle.Registry).  Start holds App.mu all the    *)
(* way, Shutdown takes it nowhere: it cancels the motions under the         *)
(* registry's read lock and writes "started" unprotected, whenever that     *)
(* write becomes visible.  Starting again gives every id a fresh service.   *)
(***************************************************************************)
EXTENDS EStopController, Warehouse

CONSTANTS
  MaxWork,   \* bound: cranes that calls reach, see Work
  NoAisle,   \* Start is not at work
  Closer     \* the canceller Shutdown is

ASSUME LifeAssumption ==
  /\ Ids = 1..Aisles  \* one crane per aisle, CR-<n> of aisle <n>
  /\ NoAisle \notin Ids
  /\ Closer \in Cancellers
  /\ MaxWork \in Nat
  /\ \A i \in Ids : LocationToPosition(CraneHome(i)) \in [Axes -> Positions]

VARIABLES
  started,    \* App.started
  boot,       \* what Start does next
  at,         \* the aisle it has got to
  aisles,     \* Registry.aisles: AisleInfo.Active, or "unknown"
  closing,    \* what Shutdown does next
  toCancel,   \* the ids it still has to cancel the motion of
  configured, \* cfg.Warehouse.Aisles
  work        \* cranes that calls have had to reach, for the bound

appVars == <<started, boot, at, aisles, closing, toCancel>>
boundVars == <<configured, work>>
lifeVars == <<serviceVars, controllerVars, appVars, boundVars>>

LifeInit ==
  /\ ControllerInit
  /\ started = FALSE
  /\ boot = "no" /\ at = NoAisle
  /\ aisles = [i \in Ids |-> "unknown"]
  /\ closing = "no" /\ toCancel = {}
  /\ configured \in Ids
  /\ work = 0

-------------------------------------------------------------------------------
(***************************************************************************)
(* App.Start.                                                              *)
(***************************************************************************)

\* Start returns at once when the application is started.  Bound: a service is
\* left for every id.
Start ==
  /\ boot = "no" /\ ~started
  /\ \A i \in 1..configured : generation[i] < Generations
  /\ boot' = "register" /\ at' = 1
  /\ UNCHANGED <<serviceVars, controllerVars, started, aisles, closing, toCancel>>

\* Mutant: the aisle is listed before its crane has a pose.
RegisterCrane_ListsAisle ==
  /\ boot = "register" /\ boot' = "pose"
  /\ closing # "cancelling"
  /\ Register(at)
  /\ aisles' = [aisles EXCEPT ![at] = "active"]
  /\ UNCHANGED <<started, at, closing, toCancel>>

\* The fresh service is there for everybody, at the origin ...
RegisterCrane ==
  /\ boot = "register" /\ boot' = "pose"
  /\ closing # "cancelling"
  /\ Register(at)
  /\ UNCHANGED <<started, at, aisles, closing, toCancel>>

\* ... before SetPose puts it home, whatever moved meanwhile.
PoseCrane ==
  /\ boot = "pose" /\ boot' = "list"
  /\ mm' = [mm EXCEPT ![Get(at)] = LocationToPosition(CraneHome(at))]
  /\ UNCHANGED <<phase, eStopActive, interlocked, complete, lockVars, callVars, taken,
                 controllerVars, started, at, aisles, closing, toCancel>>

\* Registry.Register overwrites the entry: an aisle taken out of service is back.
ListAisle ==
  /\ boot = "list"
  /\ aisles' = [aisles EXCEPT ![at] = "active"]
  /\ IF at < configured THEN boot' = "register" /\ at' = at + 1 ELSE boot' = "finish" /\ UNCHANGED at
  /\ UNCHANGED <<serviceVars, controllerVars, started, closing, toCancel>>

FinishStart ==
  /\ boot = "finish" /\ boot' = "no" /\ at' = NoAisle
  /\ started' = TRUE
  /\ UNCHANGED <<serviceVars, controllerVars, aisles, closing, toCancel>>

StartStep == RegisterCrane \/ PoseCrane \/ ListAisle \/ FinishStart

-------------------------------------------------------------------------------
(***************************************************************************)
(* App.Shutdown and the aisle registry.                                    *)
(***************************************************************************)

\* Coordinator.CancelAll takes the registry's read lock ...
Shutdown ==
  /\ closing = "no" /\ closing' = "cancelling"
  /\ toCancel' = CraneIDs
  /\ UNCHANGED <<serviceVars, controllerVars, started, boot, at, aisles>>

\* ... reads the cancel function of one crane after the other ...
CancelCrane(i) ==
  /\ i \in toCancel
  /\ CancelRead(Closer, Get(i))
  /\ toCancel' = toCancel \ {i}
  /\ UNCHANGED <<controllerVars, started, boot, at, aisles, closing>>

\* ... and calls it, before it reads the next ...
CallCancel == CancelCall(Closer) /\ UNCHANGED <<controllerVars, appVars>>

\* ... and returns.
AllCancelled ==
  /\ closing = "cancelling" /\ closing' = "clearing"
  /\ toCancel = {} /\ taken[Closer] = NoCall
  /\ UNCHANGED <<serviceVars, controllerVars, started, boot, at, aisles, toCancel>>

\* The write without the mutex: Start may be anywhere.
ClearStarted ==
  /\ closing = "clearing" /\ closing' = "no"
  /\ started' = FALSE
  /\ UNCHANGED <<serviceVars, controllerVars, boot, at, aisles, toCancel>>

ShutdownStep ==
  \/ AllCancelled \/ ClearStarted \/ CallCancel
  \/ \E i \in Ids : CancelCrane(i)

\* Registry.Deactivate and Activate, of a listed aisle.
SetAisle(i, status) ==
  /\ aisles[i] # "unknown"
  /\ aisles' = [aisles EXCEPT ![i] = status]
  /\ UNCHANGED <<serviceVars, controllerVars, started, boot, at, closing, toCancel>>

\* The service a client finds through CraneForAisle, which skips inactive aisles.
CraneForAisle(i) == IF aisles[i] = "active" THEN {Get(i)} ELSE {}

\* Bound: the cranes that calls may reach in all, the first Start aside.
Work(n) == work' = work + n /\ work' <= MaxWork /\ UNCHANGED configured

LifeNext ==
  \/ Start /\ Work(IF CraneIDs = {} THEN 0 ELSE configured)
  \/ Shutdown /\ Work(configured)
  \/ (Trigger \/ Reset) /\ UNCHANGED appVars /\ Work(configured)
  \/ \E i \in Ids, status \in {"active", "inactive"} : SetAisle(i, status) /\ Work(1)
  \/ (StartStep \/ ShutdownStep) /\ UNCHANGED boundVars
  \/ (ControllerStep \/ CallersMove) /\ UNCHANGED <<appVars, boundVars>>

LifeSpec == LifeInit /\ [][LifeNext]_lifeVars

\* Trigger, Reset, Start, Shutdown and MoveAxis return: nobody keeps a mutex.
FairLifeSpec ==
  /\ LifeSpec
  /\ WF_lifeVars(ControllerStep /\ UNCHANGED <<appVars, boundVars>>)
  /\ WF_lifeVars((StartStep \/ ShutdownStep) /\ UNCHANGED boundVars)
  /\ \A c \in Callers :
       WF_lifeVars(CallerStep(c) /\ UNCHANGED <<controllerVars, appVars, boundVars>>)

-------------------------------------------------------------------------------
(***************************************************************************)
(* Properties.                                                             *)
(***************************************************************************)

\* Types; Start and Shutdown work on registered cranes, and the application is
\* started only with every crane registered and every aisle listed.
LifeTypeOK ==
  /\ ControllerTypeOK
  /\ started \in BOOLEAN
  /\ boot \in {"no", "register", "pose", "list", "finish"}
  /\ at \in Ids \cup {NoAisle} /\ (at = NoAisle <=> boot = "no")
  /\ closing \in {"no", "cancelling", "clearing"}
  /\ toCancel \subseteq CraneIDs
  /\ aisles \in [Ids -> {"unknown", "active", "inactive"}]
  /\ started => CraneIDs = 1..configured /\ \A i \in 1..configured : aisles[i] # "unknown"

\* A client that takes its crane from the aisle registry never finds it at the
\* origin, where no cell is, until the application is started again: the aisle
\* is listed after the pose is set.  (Coordinator.CraneIDs shows the crane
\* before; a second Start registers the fresh service while the aisle is still
\* listed from the first.)
AisleCranePlaced ==
  \A i \in Ids : \A k \in CraneForAisle(i) :
    k[2] = 1 => mm[k]["travel"] # 0 /\ mm[k]["hoist"] # 0

\* If the stop stays triggered every crane it covers comes to rest, and so does
\* every service that is replaced, stopped or not, cancelled or not: the route
\* it is on ends, and no other begins.
Retired(k) == k[2] < generation[k[1]]

ControllerDrains ==
  \A k \in Cranes :
    <>[](Retired(k) \/ (active /\ k \in covered))
      => <>[](\A c \in Callers : crane[c] = k => ~InFlight(c))
================================================================================

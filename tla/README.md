# StackLift: verification project

TLA+ models of StackLift, a Go service that drives stacker cranes: one crane
service per crane moves three axes (travel, hoist, fork) for concurrent
callers, while an emergency-stop controller, a motion state machine, an
interlock guard, a process clock and a snapshot rig work around it, and pallets
are stored in and retrieved from cells.  TLC checks the models on small
instances; TLAPS proves every safety property and refinement of the passing runs
for every value of the constants, where needed under a hypothesis that is named.

The repository's own README describes a tower crane (slew, boom, wind) whose
packages are not in the tree.  Only its sentence that "operator pauses do not
alone close interlock timers" has a counterpart in the code, `DwellExact`.
Everything here is read from the code and its tests.

## The system

| Component | State | Operations | What is hard about it | What makes it correct | Modelled in |
|---|---|---|---|---|---|
| Crane service and executor (`crane/service.go`, `crane/motion.go`) | status (phase, stop, interlock, pose, progress), hoist lock, cancel function, all under one `RWMutex` taken and released many times per motion | `MoveAxis` step by step along a route, `SetEStop`, `SetInterlocked`, `SetPhase`, `CancelMotion`, `LoadPallet`, `UnloadPallet`, `SetPose` | admission, registration, start and commit are separate critical sections; deferred clean-up; contexts cancelled at any point | nothing dead stays registered, the hoist is never left locked, a stop or a cancellation contains every route | `CraneService`, `MotionHistory` |
| Process clock (`clock/clock.go`) | tick (also stored atomically after the mutex), paused | `Advance`, `Pause`, `Resume`, `Reset`, `ElapsedTicks`, `WindowClosed` | the store after the mutex races with everything | no invented ticks; atomic when one goroutine advances | `ProcessClock`, `AtomicClock` |
| Interlock guard (`interlock/guard.go`, `rules.go`) | dwell windows per crane | `ValidateMotion`, `StartDwell`, `ClearDwell`, `DwellComplete` | boundaries of a window on a clock that pauses; statuses that are stale when judged | a window closes with the tick that completes it | `DwellGuard`, `GuardedMotion` |
| Motion state machine (`fsm/`) | a phase per crane | `Fire`, `Transition`, effects on the crane's service | effects run after the machine's mutex is released | the crane follows the machine | `MotionMachine` |
| Emergency-stop controller, alarm monitor (`safety/`) | active, triggered cranes; the monitor's flag and alarms | `Trigger`, `Reset`, `CheckPose` | cranes are reached one after another while routes run and services are registered and replaced | after a return all cranes agree; a lasting stop brings them to rest | `EStopController`, `Warehouse` |
| Coordinator, planner, `App.MoveCrane` (`crane/coordinator.go`, `path/planner.go`, `app/app.go`) | registry of services | plan, validate, execute; register; stop or cancel all | one status judges a whole plan; the origin is the caller's claim | a move that ends arrives, a crane never stands between cells | `GuardedMotion`, `EStopController`, `LifeCycle` |
| Fork (`fork/`) | extension, position and `moving` of two actuators; the telescope's mutex | `Pickup`, `Deposit`, `ExtendBoth`, `RetractBoth`, direct actuator moves | partial failure between the two actuators, error returns inside critical sections | no actuator or telescope stays blocked, skew is always reported | `ForkTelescope` |
| Snapshot store and rig (`store/`) | the current snapshot, its revision, the rig's mutex | `Capture`, `RefreshCrane`, `RefreshCells`, `Load`, `CompareAndSwap`, `IsStale` | a capture reads entry by entry and names its snapshot before it reads | not stale means current; a swap loses nothing | `SnapshotRig` |
| Cell occupancy, pallets (`aisle/occupancy.go`, `app/ops.go`) | cells: pallet, reservation; the pallet on each crane | `Place`, `Remove`, `Reserve`, `Release`, `FindPallet`, `PlacePallet`, `RetrievePallet` | a retrieval is six separate steps over two components, each may be refused, several overlap | a pallet is in one place | `PalletTransfer`, `PalletLedger` |
| Life cycle, aisle registry (`app/app.go`, `aisle/registry.go`) | started; the aisles and whether they are in service | `Start`, `Shutdown`, start again; `Register`, `Activate`, `Deactivate`, `CraneForAisle` | `Shutdown` takes no mutex; a second start replaces services that callers still move | stops reach what moves, no listed aisle leads to an unplaced crane | `LifeCycle` |
| Configuration, layout, positions (`config/`, `model/position.go`) | constants | `Validate`, `InBounds`, `AllCells`, `CraneHome`, conversions | integer division, limits below the last cell | every place a crane can stop at is a cell | `Warehouse` |
| Wall clock, command (`clock/wall.go`, `cmd/stacklift`) | none | wrappers over package `time`, flags, signals, output | | | not modelled |

Interactions: `App.MoveCrane` reads a service's status, plans, asks the guard
and hands the plan to the coordinator, whose executor calls `MoveAxis` once per
step.  `App.RetrievePallet` does so twice and calls the occupancy and the
service's load functions in between.  The machine's effects call `SetEStop`,
`SetPhase` and `CancelMotion` of the same service; the controller calls
`SetEStop` and `SetPhase` of all of them, through the registry that `App.Start`
fills and `App.Shutdown` goes through.  The guard and the effects read the
process clock.  The rig reads services, cells and the monitor, each under its
own lock.

## Modules

| Module | Builds on | Proofs | Instance |
|---|---|---|---|
| `CraneDomain` (axes, phases, events, transition table) | | | |
| `CraneService` | `CraneDomain` | `CraneServiceProofs` | through `MotionHistory` |
| `MotionHistory` | `CraneService` | `MotionProofs` | `MCMotionHistory` |
| `ProcessClock`, `AtomicClock` (abstract) | | in `DwellGuardProofs` | `MCProcessClock` |
| `DwellGuard` | `ProcessClock` | `DwellGuardProofs` | `MCDwellGuard` |
| `MotionMachine` | `CraneService` | `MotionProofs` | `MCMotionMachine` |
| `EStopController` | `CraneService` | through `LifeCycle` | through `LifeCycle` |
| `Warehouse` (configuration, conversions, planner) | `CraneDomain` | `WarehouseProofs` | |
| `LifeCycle` | `EStopController`, `Warehouse` | `LifeCycleProofs` | `MCLifeCycle` |
| `GuardedMotion` | `CraneService`, `Warehouse` | `MotionProofs` | `MCGuardedMotion` |
| `PalletTransfer`, `PalletLedger` (abstract) | `Warehouse` | `PalletTransferProofs` | `MCPalletTransfer` |
| `SnapshotRig` | | `SnapshotRigProofs` | `MCSnapshotRig` |
| `ForkTelescope` | | `ForkTelescopeProofs` | `MCForkTelescope` |

Operators whose name carries a suffix and whose comment begins with "Mutant"
are plausible mistakes in the operator that follows them; they are used only to
see that the properties notice.

**CraneService.** A step is one critical section of `Service.mu` or one look at
a context.  A caller's `pc` follows `MoveAxis`: `check` (`checkMotionAllowed`,
read lock), `install` (cancel the registered motion, register), `lock` (hoist
only), `enter` (first select), `start` (phase and progress), `mid` (second
select), `commit` (position, progress, phase idle), `unlock` and `clear` (the
deferred functions).  `Begin` starts a route, `ClearCancel` goes on to its next
step or gives it up, as `ExecutePlan` does.  The context of a call is `live`,
`cancelled` (only this call, by `CancelMotion` or by the next `MoveAxis`) or
`done` (the route's own context).  `CancelMotion` is two steps, `CancelRead`
and `CancelCall`, since it calls the function outside the mutex: by then the
call it read it from may have returned (`Returned`: what the canceller holds
cancels nothing any more).  Left out:
`Revision`, time stamps, percentages (no reader decides on them).  Position 0
is where `NewService` puts an axis.  Calls that are refused without changing
anything are stutters.

**MotionHistory** adds three history variables and changes nothing else: two
count axis motions, under one uninterrupted stop and under a context that is
done; `interrupted` marks a motion whose context is not live at a point before
its last select, whoever cancelled it, until its route ends.

**ProcessClock** cuts `Advance` where it races: the lock and the read, the
write, the unlock (the result is what a register holds or what memory holds,
whichever the compiler chose), and the atomic store after the unlock.  Words do
not tear on 64-bit targets.  **AtomicClock** is what a clock promises.
**DwellGuard** adds the windows; the guard's map has no mutex and, in
`RunDemo`, one user, so its operations are single steps.

**MotionMachine** has the machine's phases and, per firer, the list of critical
sections its effects still have to run, in the order `MotionSideEffects` gives
them (the error that leaving dwell may return after all of them is left out).  A firer's transition is atomic (machine's mutex), its effects are not.
`latched` and `driven` are ghosts that name the exceptions of two properties.

**EStopController.** A crane id has a *generation*: the coordinator's registry
maps it to a service, and registering it again puts a fresh service in its
place while callers go on with the old one.  A crane of `CraneService` is
therefore a pair of an id and a generation.  `Trigger` holds the registry while
it spreads the stop (`StopCrane`, so `Register` waits) and reads it again for
the list of triggered cranes; `Reset` copies the ids and looks each of them up
(`GetCrane`), then releases it and sets it idle in two critical sections.
`covered` is a ghost: the services registered when `Trigger` was called.

**LifeCycle** composes the controller with `App.Start` (per aisle: register,
set the pose, list the aisle; holding `App.mu`), `App.Shutdown` (for each crane
read its cancel function, `CancelCrane`, and call it, `CallCancel`, under the
registry's read lock; then write `started` under no lock at all, at a time of
its own: `ClearStarted`) and the aisle registry,
whose clients take aisles out of service and find cranes by aisle.  How many
aisles are configured is chosen initially.

**Warehouse** has the configured dimensions, `Validate`, the conversions
between locations and positions with their integer division, the planner's
refusals and its plan (travel, hoist, fork; each axis in which origin and
target differ), and the monitor's limits.  `WarehouseAssumption` asks for what
`Validate` does not: cells in depth and limits that reach the last cell.

**GuardedMotion** validates every step of a plan against one status
(`ValidatePlan`) and later executes the plan (`Launch`).  `ForkPos` is a
constant because `App.Start` sets it and no motion changes it.

**PalletTransfer** goes through `RetrievePallet` step by step: find the pallet
and plan from home (`RetrievePallet`), move axis by axis (`Move`), give the
move up for whatever reason (`Abandon`: a stop, an interlock, the guard, a
cancellation; their detail is in the modules above), load, empty the source,
move on, unload, place.  Every error return ends the call where it stands.  A
call's record holds what the function's variables hold.  `outside` is a ghost:
the pallets in nobody's books.  **PalletLedger** is what a client may expect: a
pallet goes from outside into a cell, onto a crane, into the hands of a
retrieval, and into a cell or outside again, and is in one place all the time.
`Where` is the refinement mapping.

**SnapshotRig** knows a crane's status, or the cells, by its version.  A
capture names its snapshot, reads each entry, saves.  A refresh reads and then
writes.  Alarms, clock readings and times in a snapshot are left out.

**ForkTelescope** runs the list of actuator moves a call still has to make; each
move is `begin` (refusals, set `moving`), `select`, `commit`, `end`.  A context
that is done is a choice of `select`: a call that sees it ends, so nobody looks
at it twice.  `apart` and `disturbed` are ghosts.

### What the models assume of their surroundings

- Clients of `PalletTransfer` store only pallets that are outside (`PlacePallet`
  itself does not look whether the pallet is stored elsewhere), and load,
  unload and remove only through `RetrievePallet`, as all code in the tree does.
- In each composed module one kind of client acts on the services (machine,
  controller and life cycle, or guard) beside the moving callers.
- `Capture` and the refreshes act in `SnapshotRig` only, on versions.
- The homes that `Start` sets are among the positions of the instance
  (`LifeAssumption`).

## Runs

| Run | Question and answer | Bounds, and why they are enough |
|---|---|---|
| `motion` | Can a call leave a dead cancel function or a locked hoist, can the phase disagree with the progress, how far does a route run past a stop or a cancellation, does a stopped crane come to rest?  `CancelFnLive`, `HoistLockOwned`, `PhaseMatchesProgress`, `StopContainment`, `DoneContainment` (at most one axis), `InterruptedEnds` (a motion cancelled in time moves nothing and ends its route), `StopDrains` hold. | One crane (services share nothing), two callers with a two-axis and a one-axis route that conflict on the hoist, and a canceller: every pair of sections of two calls interleaves, one more axis is left to go wrong, and `CancelMotion` may call what it read after that call, or its route, is over. The moves lead to where the axes are, since no property here reads the pose. About 1.3 million states. |
| `clock_race` | Can overlapping advances invent ticks?  No; they can lose them and bring old ones back. | Three advancers, a pause, a reset, amounts -1, 1 and 2, at most `MaxAdded` ticks. |
| `clock_paused` (violation) | Does a paused clock stand still?  No, with two advancers. | Two advancers and one operator. |
| `dwell` | Is the clock atomic with one advancer, and does a window close with its tick?  Yes. | Two windows of 3 ticks that overlap, `MaxAdded` 7. |
| `machine` | Does the crane follow the machine with one firer?  `StopAgrees`, `PhaseAgrees`, `EmergencyDrains` hold, with the exceptions they name. | One crane, one unregistered id, forced targets with and without an effect, one moving caller with a two-axis route. |
| `machine_race` (violation) | And with two firers?  A reset's release can land after a later emergency's stop. | Two firers. |
| `life` | Across `Trigger`, `Reset`, `Start`, `Shutdown`, a second `Start`: do all cranes agree after a return, does an aisle lead to a crane without a pose, does a lasting stop or a replacement bring a crane to rest?  `StopComplete`, `ReleaseComplete`, `AisleCranePlaced`, `ControllerDrains` hold. | Two ids with two services each, one or two aisles configured, one caller with a one-axis route, `MaxWork` 4: two rounds over both cranes after the first start, in any order and overlapping. About 840 000 states. |
| `guarded_motion` | Does a move that ends arrive, and can a crane stand anywhere but at a cell?  `ArrivesAtTarget`, `StandsAtCell` hold. | Three cells that differ in every axis, a bay that is not there and another aisle; one caller, every kind of disturbance; pitches 3 and 2, so that division rounds. |
| `guarded_travel` (violation) | Is the fork retracted when the crane travels?  Not in the second move. | Two moves of one caller. |
| `rig` | Is a snapshot that is not stale current, does a swap lose a write, do captures overtake each other?  `NotStaleMeansCurrent`, `SwapLosesNothing`, `CapturesInOrder` hold. | A crane and the cells, two captures, a refresher, a swapper, `MaxVersion` 2, `MaxRevision` 4: a capture can be overtaken by two refreshes and a swap. |
| `fork` | Can an actuator or the telescope stay blocked, when do the actuators differ, does every call return?  `MovingOwned`, `SkewOnlyAfterFailure`, `PickupStartsRetracted`, `CallsReturn` hold. | Two handlers and an operator; a target in reach, one out of reach, home and centre. |
| `pallets` | Where is a pallet while retrievals overlap and fail?  `CarrierExclusive`, `OnePlace`, `LoadsWhereStored`, `ReservationHolds` and the refinement `ImplementsLedger` hold. | Two retrievals on one crane (they meet only there and in the cells), two pallets, four cells, destinations among them and in another aisle; symmetric in retrievals and pallets. About 1.1 million states. |

Bounds of the models that the code does not have: `MaxAdded` (ticks),
`MaxVersion` and `MaxRevision` (versions of an entry, writes to the store),
`Generations` (services per id) and `MaxWork` (cranes that calls of the
controller, of `Start` and `Shutdown` and of the aisle registry reach in all).
All other sets are the constants of the `.cfg`.

Deadlock is checked in every run: the runs never need it switched off, since
callers may always begin again.

### Fairness

A goroutine inside `MoveAxis` is never blocked for good: all critical sections
are finite and every select has a default branch.  Hence weak fairness of each
caller's steps (`CallFairness`) and of a firer's effects.  `Trigger`, `Reset`,
`Start` and `Shutdown` return for the same reason: their loops are finite and
nobody keeps a mutex they wait for (`FairLifeSpec`).  Beginning a route, firing
an event, cancelling, stopping carry no fairness: clients may do nothing for
ever.  In `ForkTelescope` a waiter for the telescope's mutex has strong
fairness, which `sync.Mutex` gives by handing the lock to a waiter that has
starved for a millisecond.

## Findings

1. `clock/clock.go:47`: the store after the mutex moves the tick of a paused
   clock (`PausedClockStands`; the test says "paused clock should not advance").
2. `fsm/motion_fsm.go:106`: effects of two transitions can be applied in the
   opposite order, and a crane in emergency loses its stop
   (`EmergencyStopsCrane`).
3. `crane/service.go:184`: no motion of the fork updates `ForkPos`, so the rule
   "Fork must be retracted before travel" never sees a fork that is out
   (`TravelForkRetracted`).

### Behaviour to know of

The following is what the code does; no document or test says otherwise, so no
run calls it wrong.  Where a property had to be weakened for it, it is named.

- Two callers admitted on the same idle status start travel and fork one after
  the other (`crane/service.go:83`: the check and the start are two sections).
- Two retrievals after the same pallet can book it twice or lose it
  (`app/ops.go:67`; `OnePlace` and `ImplementsLedger` hold until then, and count
  a pallet that was dropped as outside).
- A retrieval whose second move fails leaves the pallet on the crane, and no
  call takes it off again (`app/ops.go:85`).
- A retrieval to a cell that is taken or reserved, be it for its own crane,
  drops the pallet from all books (`app/ops.go:91`, `aisle/occupancy.go:59`).
- A retrieval that does not start from home plans from home all the same, since
  no motion updates `Pose().Location`, and may load where the pallet is not
  (`app/ops.go:75`; `LoadsWhereStored` is about those that start from home).
- A move whose origin is not where the crane is leaves the axes that agree in
  the plan where they are (`path/planner.go:27`; `ArrivesAtTarget` is about
  moves that state the real origin, and one caller).
- A motion cancelled between its two sections leaves its phase behind, and other
  axes are refused until somebody sets the phase (`crane/service.go:141`).
- A crane registered between the two readings of the registry in `Trigger` is
  listed as triggered and is not stopped (`safety/estop.go:28`).  A service
  registered during an emergency starts without the stop, and a replaced one is
  no longer reached by stops and resets (`crane/coordinator.go:28`;
  `StopComplete` is about the services that were registered).
- `Shutdown` cancels the `MoveAxis` that is registered at that moment: a route
  that stands between two of its axes, or whose current motion is past its last
  look at the context, goes on (`app/app.go:122`).
- A second `Start` puts an aisle that was taken out of service back into it
  (`aisle/registry.go:32`), and its cranes are at the origin between their registration
  and their pose (`AisleCranePlaced` is about the first start).
- A refresh writes a status it read earlier over a newer one (`store/rig.go:45`).
- The left actuator's status stands for both (`fork/telescope.go:37`), a
  `Reset` of the clock puts open dwell windows ahead of it (`clock/clock.go:103`),
  and the guard's map has no mutex (`interlock/guard.go:78`); none of these has
  a caller in the tree that would meet it.

## Proofs

All theorems hold for every value of the constants that the modules' named
assumptions allow.

**Crane service.** `TypeCorrect`: `ServiceTypeOK` is inductive as it stands; its
last conjunct (exactly the ready callers have an empty route) is what types
`Head(route)`.  `CancelFnLiveAlways` and `HoistLockOwnedAlways` come from
`CallInv`: `CancelFnLive` is inductive together with the types (the step that
matters is `ClearCancel`, which drops the registration whoever owns it), and
`HoistLockOwned` needs `LockIsHoist` (a call that stands at `lock` moves the
hoist).  `PhaseMatchesProgressAlways` is under `NoForcedMotion`: clients set no
motion phase.  `MotionMachine` does set them, which is why the assumption is
named.

The service's invariants are used again wherever the service is composed.
`CallsGoOn` says all that may happen to calls (a caller's step, the begin of any
route, nothing), `ProgressGoesOn` all that may happen to phases and progress;
`CallNext` and `ProgressNext` are the invariants' steps from these alone.  A
composition then has to show only that its own steps are of that kind.  Hence
`MachineLeavesNothing`, `GuardedLeavesNothing` and `LifeLeavesNothing`: under
the machine's effects, under planned moves, and across start, shutdown, stop,
reset and replacement no dead cancel function and no lock is left behind, and
(except under the machine, which shows an axis in motion that no call moves)
phase and progress agree.

**Containment.** `StopContained`, `DoneContained` and `InterruptedEndsAlways`
follow from `ContainmentInv`, since the three alone are not inductive.
`StopSpent` says that a caller which carried out a motion under a stop is not
between admission and commit; `DoneSpent` that a route which committed after its
context was done cannot reach another commit; `MovedReturns` and
`InterruptReturns` that an interrupted motion keeps its cancelled context, has
not moved, and stands before its last select or on its way out, so that the
executor gets an error.  `StepOfCaller` and `InterruptCases` sum up what any step
of the service, `CancelMotion`'s late call among them, does to one caller.

**Machine.** `MachineTypesCorrect` asks nothing of the firers: no transition
leaves more than three sections to apply (`Left`, `EffectsLeft`).
`StopAgreesAlways` and `PhaseAgreesAlways` are under `OneFirer`; with two, the
run `machine_race` shows the crane in another state than its machine.  Neither
property is inductive, since both speak of cranes whose effects have been
applied.  `AgreeInv` says what holds in between: what is left to apply belongs
to the phase the machine is in (`LeftInv`), the stop agrees or is about to be set
(`StopDue`), and in an emergency the crane shows it from the first effect on.  A
motion that starts or commits puts its crane among the `driven` ones, which
`PhaseAgrees` exempts until an effect sets the phase again.
`HandlingNeedsForce` is about the transition table: no sequence of events brings
a machine to loading, unloading or dwell, so `RunDemo`'s event `dwell_start` is
always refused unless a client has forced the phase.

**Warehouse.** `CellsConvert`: each cell of each layout that `WarehouseAssumption`
allows is found again from its position, whatever the pitches, so no two cells of
an aisle share one.  It rests on a lemma about integer division (the bay, level
or depth of a multiple of the pitch).  `Leads` is what the proofs of the
planner's clients need to know of a plan: each step goes to the target's
coordinate, and each axis that is not there yet has a step.  `PlanLeads` shows it
of `Plan`, `LeadsOn` of what is left after a step, and `LeadsNowhere` that an
empty rest means arrival.

**Guarded motion.** `GuardedTypesCorrect`: whatever locations callers ask for, a
plan that passes the planner ends at the position of a cell (`TargetType`).
`StandsAtCellAlways` holds for any number of callers: `StandsInv` says that each
axis of a crane, and of each step still to come, is at a mark (a coordinate of
some cell), which a motion that is given up on the way keeps, since `MoveAxis`
moves an axis at its commit or not at all.  `ArrivesAtTargetAlways` is under
`OneCaller`: what the caller still has to carry out leads from where the crane
is to the goal (`ArrivesInv`).  With two callers on a crane one moves it away
under the other.

**Clock and dwell.** `ProcessTypes` and `NoTickInventedAlways` ask nothing of
who advances or resets.  `SingleAdvancerIsAtomic` is under `SingleAdvancer` (one
advancing goroutine, no reset): `InsideHolds` and `RegisterFresh` say that the
register of the one `Advance` equals the tick, so its late store is a stutter;
`Add` maps to `Forward`, `SetPaused` to `Halt`.  `DwellExactAlways` follows from
the same facts, with the start tick plus the ticks since equal to the tick;
`DwellTypes` needs none of them, only that ticks once added stay added.

**Snapshots.** `RigTypes`; `NotStaleMeansCurrentAlways` and
`SwapLosesNothingAlways` from `StalenessInv`, which adds that no snapshot is
named beyond the next revision and that captured names lie behind it.
`CapturesInOrderAlways` from `OrderInv`: a capture reads what is current, so what
it has read is at least what any finished capture has handed out.  It is under
`CapturesOnly`: a goroutine that captures does not also load.  A snapshot that
was loaded may carry the outcome of a refresh, which can be ahead of what the
next capture reads of an entry, so that the invariant would speak of something
else than captures.

**Fork.** `TelescopeTypes` rests on `MovesInv`: the moves a call has left come
in pairs, left before right with the same target, and fit where the call stands
(this is what bounds the list and types its head).  `MovingOwnedAlways` needs in
addition that handlers inside the telescope hold its mutex, hence that only one
of them moves actuators.  `SkewAlwaysReported` adds to that how far the two
actuators may differ between the two moves of a pair (`SkewInv`), and
`PickupStartsRetractedAlways` what a `Pickup` has seen of each actuator by the
time it looks at the other, waits and extends (`PreparedInv`).

**Pallets.** The inductive invariant is `TransferInv`.  `OnePlace` alone is not
inductive: `RemoveFromSource` empties a cell of whatever it holds, which is the
right pallet by `SourceHolds` (until retrievals contend, each finds its pallet
where it saw it), and `UnloadPallet` takes whatever is on the crane, which is
the right pallet by `CarrierExclusive`.  `LedgerImplemented` shows that each
step of a call moves one pallet one stage on in the ledger, or changes nothing
in it; the lemma `WhereIs` turns the unique place of `OnePlace` into the value
of the mapping's CHOOSE.  `LoadsWhereStoredAlways` asks nothing of contention:
as long as a retrieval has its crane for itself from its start at home on
(`straight`), what is left of its plan leads to where it is to load or unload
(`OnTrack`, by the lemmas of `Warehouse`).  `ReservationHoldsAlways` is an action
property that the types alone carry.

**Life cycle.** `LifeInv` has three parts.  `AppInv` says how far `Start` has
got: everything before the aisle it is at is registered and listed; from this
`started` means that all of them are (`LifeTypes`), although `Shutdown` clears
`started` at any time.  `StopInv` says which services `Trigger` has still to
reach, `ReleaseInv` which ones `Reset` has, and that a service which nobody has
registered yet has never been stopped: this is what makes `ReleaseComplete`
hold when `Register` puts a service in while `Reset` is at work.
`StopCompleteAlways` and `ReleaseCompleteAlways` follow.  `ListedCranePlaced` is
under `NoRouteToOrigin`: travel and hoist of a route do not end at 0, which is
so of every plan between cells; `PlacedInv` says that an aisle is listed after
its first crane has been placed.

Only model-checked: the liveness properties `StopDrains`, `EmergencyDrains`,
`ControllerDrains` and `CallsReturn`, since the prover does not reach fairness
and ENABLED.

## Not modelled, and why

- `RunDemo` is a fixed sequence of calls that are modelled one by one.
- The wall clock and `cmd/stacklift` wrap package `time`, flags, signals and
  output; reading the configuration from the environment is I/O.
- The monitor's alarms are an append-only list nobody decides on; what
  `CheckPose` would report is in `StandsAtCell`.
- `OnTick` listeners, `SetDwellTick` and a plan's time estimate have no reader
  in the tree.
- Error types, copies, durations and time stamps are data without a decision.

## What would come next

A service with the machine, the controller and a guarded caller at once, to see
which of their properties survive; `ArrivesAtTarget` with several callers that
move different cranes; the safety half of `StopDrains` (a stopped crane with no
admitted call stays where it is) as a theorem of all compositions.

----------------------------- MODULE CraneService -----------------------------
(***************************************************************************)
(* internal/crane: one Service per crane, moved by concurrent callers that *)
(* execute routes axis by axis (MotionExecutor.Execute -> MoveAxis).       *)
(* A step of the model is one critical section of Service.mu or one        *)
(* observation of a context, so callers, emergency stops, interlocks and   *)
(* cancellations interleave exactly where the code releases the mutex.     *)
(***************************************************************************)
EXTENDS CraneDomain, Naturals, Sequences

CONSTANTS
  Cranes,        \* crane ids
  Callers,       \* goroutines that execute routes
  Cancellers,    \* goroutines that call CancelMotion
  Positions,     \* axis positions (mm), 0 is home
  Routes,        \* the routes callers may execute
  ClientPhases,  \* the phases clients pass to SetPhase
  NoCall,        \* the nil cancel function
  Returned       \* the cancel function of a call that has returned

MotionStep == [axis : Axes, to : Positions]

ASSUME ServiceAssumption ==
  /\ 0 \in Positions
  /\ Routes \subseteq Seq(MotionStep) \ {<< >>}
  /\ ClientPhases \subseteq Phases
  /\ NoCall \notin Callers
  /\ Returned \notin Callers \cup {NoCall}

VARIABLES
  phase, eStopActive, interlocked,  \* CraneStatus, one entry per crane
  mm,            \* pose: position of each axis
  complete,      \* Travel/Hoist/Fork MotionProgress.Complete
  hoistLocked,
  cancelFn,      \* the call whose context CancelMotion would cancel
  pc,            \* where each caller stands in MoveAxis
  crane, route,  \* what it executes: Head(route) is the current step
  ctx,           \* its motion context: "live", "cancelled" (this call only)
                 \* or "done" (the context of the whole route)
  moved,         \* the current MoveAxis has committed
  taken          \* the cancel function each canceller read but has not called

craneVars  == <<phase, eStopActive, interlocked, mm, complete>>
lockVars   == <<hoistLocked, cancelFn>>
callVars   == <<pc, crane, route, ctx, moved>>
serviceVars == <<craneVars, lockVars, callVars, taken>>

ControlPoints == {"ready", "check", "install", "lock", "enter", "start",
                  "mid", "commit", "unlock", "clear"}

axis(c) == Head(route[c]).axis

\* The call has installed its cancel function and not yet removed it.
Installed(c) == pc[c] \notin {"ready", "check", "install"}

\* The call is between lockHoist and the deferred unlockHoist.
HoldsHoist(c) ==
  /\ pc[c] \in {"enter", "start", "mid", "commit", "unlock"}
  /\ axis(c) = "hoist"

Goto(c, from, to) == pc[c] = from /\ pc' = [pc EXCEPT ![c] = to]

\* Mutant: a motion that ends without moving skips the deferred unlockHoist.
Unwind_OnlyAfterMotion(c) ==
  IF axis(c) = "hoist" /\ pc[c] = "commit" THEN "unlock" ELSE "clear"

\* The deferred functions run in reverse order: the hoist is unlocked first.
Unwind(c) == IF axis(c) = "hoist" THEN "unlock" ELSE "clear"

\* A cancelled context stays cancelled; "done" is the stronger cancellation.
Cancel(call) == [ctx EXCEPT ![call] = IF @ = "live" THEN "cancelled" ELSE @]

\* NewService, once its pose has been set.
ServiceInitAt(pose) ==
  /\ phase = [k \in Cranes |-> "idle"]
  /\ eStopActive = [k \in Cranes |-> FALSE]
  /\ interlocked = [k \in Cranes |-> FALSE]
  /\ mm = [k \in Cranes |-> pose]
  /\ complete = [k \in Cranes |-> [a \in Axes |-> FALSE]]
  /\ hoistLocked = [k \in Cranes |-> FALSE]
  /\ cancelFn = [k \in Cranes |-> NoCall]
  /\ pc = [c \in Callers |-> "ready"]
  /\ crane \in [Callers -> Cranes]
  /\ route = [c \in Callers |-> << >>]
  /\ ctx = [c \in Callers |-> "live"]
  /\ moved = [c \in Callers |-> FALSE]
  /\ taken = [x \in Cancellers |-> NoCall]

ServiceInit == ServiceInitAt([a \in Axes |-> 0])

-------------------------------------------------------------------------------
(***************************************************************************)
(* A caller's side: ExecutePlan and MoveAxis.                              *)
(***************************************************************************)

\* ExecutePlan: a new route (its steps are only read) and its first MoveAxis.
Begin(c, k, r) ==
  /\ Goto(c, "ready", "check")
  /\ crane' = [crane EXCEPT ![c] = k]
  /\ route' = [route EXCEPT ![c] = r]
  /\ UNCHANGED <<craneVars, lockVars, ctx, moved, taken>>

\* Mutant: admission forgets the emergency stop.
MotionAllowed_NoEStop(k, a) ==
  /\ ~interlocked[k]
  /\ IsMotionPhase(phase[k]) /\ HasActiveAxis(phase[k]) => ActiveAxis(phase[k], a)

\* What checkMotionAllowed lets through.
MotionAllowed(k, a) ==
  /\ ~eStopActive[k]
  /\ ~interlocked[k]
  /\ IsMotionPhase(phase[k]) /\ HasActiveAxis(phase[k]) => ActiveAxis(phase[k], a)

\* checkMotionAllowed: the answer is used after the read lock is released.  A
\* refusal abandons the route.
CheckMotionAllowed(c) ==
  /\ pc[c] = "check"
  /\ IF MotionAllowed(crane[c], axis(c))
     THEN /\ pc' = [pc EXCEPT ![c] = "install"]
          /\ UNCHANGED <<route, ctx>>
     ELSE /\ pc' = [pc EXCEPT ![c] = "ready"]
          /\ route' = [route EXCEPT ![c] = << >>]
          /\ ctx' = [ctx EXCEPT ![c] = "live"]
  /\ UNCHANGED <<craneVars, lockVars, crane, moved, taken>>

\* MoveAxis cancels whatever motion is registered and registers itself.
Install(c) ==
  /\ Goto(c, "install", IF axis(c) = "hoist" THEN "lock" ELSE "enter")
  /\ ctx' = IF cancelFn[crane[c]] = NoCall THEN ctx ELSE Cancel(cancelFn[crane[c]])
  /\ cancelFn' = [cancelFn EXCEPT ![crane[c]] = c]
  /\ UNCHANGED <<craneVars, hoistLocked, crane, route, moved, taken>>

LockHoist(c) ==
  /\ Goto(c, "lock", "enter")
  /\ hoistLocked' = [hoistLocked EXCEPT ![crane[c]] = TRUE]
  /\ UNCHANGED <<craneVars, cancelFn, crane, route, ctx, moved, taken>>

\* The select of MoveAxis, before executeMotion.
EnterSelect(c) ==
  /\ Goto(c, "enter", IF ctx[c] = "live" THEN "start" ELSE Unwind(c))
  /\ UNCHANGED <<craneVars, lockVars, crane, route, ctx, moved, taken>>

\* executeMotion, first critical section: phase and progress, no check.
StartMotion(c) ==
  /\ Goto(c, "start", "mid")
  /\ phase' = [phase EXCEPT ![crane[c]] = PhaseForAxis(axis(c))]
  /\ complete' = [complete EXCEPT ![crane[c]][axis(c)] = FALSE]
  /\ UNCHANGED <<eStopActive, interlocked, mm, lockVars, crane, route, ctx, moved, taken>>

\* The select of executeMotion: an error return leaves the phase as it is.
MidSelect(c) ==
  /\ Goto(c, "mid", IF ctx[c] = "live" THEN "commit" ELSE Unwind(c))
  /\ UNCHANGED <<craneVars, lockVars, crane, route, ctx, moved, taken>>

\* Mutant: the phase is not set back to idle when the motion completes.
CommitMotion_KeepsPhase(c) ==
  /\ Goto(c, "commit", Unwind(c))
  /\ mm' = [mm EXCEPT ![crane[c]][axis(c)] = Head(route[c]).to]
  /\ complete' = [complete EXCEPT ![crane[c]][axis(c)] = TRUE]
  /\ moved' = [moved EXCEPT ![c] = TRUE]
  /\ UNCHANGED <<phase, eStopActive, interlocked, lockVars, crane, route, ctx, taken>>

\* executeMotion, second critical section: the axis reaches its target.
CommitMotion(c) ==
  /\ Goto(c, "commit", Unwind(c))
  /\ mm' = [mm EXCEPT ![crane[c]][axis(c)] = Head(route[c]).to]
  /\ complete' = [complete EXCEPT ![crane[c]][axis(c)] = TRUE]
  /\ phase' = [phase EXCEPT ![crane[c]] = "idle"]
  /\ moved' = [moved EXCEPT ![c] = TRUE]
  /\ UNCHANGED <<eStopActive, interlocked, lockVars, crane, route, ctx, taken>>

UnlockHoist(c) ==
  /\ Goto(c, "unlock", "clear")
  /\ hoistLocked' = [hoistLocked EXCEPT ![crane[c]] = FALSE]
  /\ UNCHANGED <<craneVars, cancelFn, crane, route, ctx, moved, taken>>

\* Mutant: a call that fails leaves its cancel function registered.
ClearCancel_OnlyAfterMotion(c) ==
  LET rest == IF moved[c] THEN Tail(route[c]) ELSE << >> IN
  /\ Goto(c, "clear", IF rest = << >> THEN "ready" ELSE "check")
  /\ cancelFn' = IF moved[c] THEN [cancelFn EXCEPT ![crane[c]] = NoCall] ELSE cancelFn
  /\ route' = [route EXCEPT ![c] = rest]
  /\ ctx' = [ctx EXCEPT ![c] = IF @ = "done" /\ rest # << >> THEN "done" ELSE "live"]
  /\ moved' = [moved EXCEPT ![c] = FALSE]
  /\ taken' = [x \in Cancellers |-> IF taken[x] = c THEN Returned ELSE taken[x]]
  /\ UNCHANGED <<craneVars, hoistLocked, crane>>

\* Mutant: the next step of a route runs under a fresh context.
ClearCancel_FreshContext(c) ==
  LET rest == IF moved[c] THEN Tail(route[c]) ELSE << >> IN
  /\ Goto(c, "clear", IF rest = << >> THEN "ready" ELSE "check")
  /\ cancelFn' = [cancelFn EXCEPT ![crane[c]] = NoCall]
  /\ route' = [route EXCEPT ![c] = rest]
  /\ ctx' = [ctx EXCEPT ![c] = "live"]
  /\ moved' = [moved EXCEPT ![c] = FALSE]
  /\ taken' = [x \in Cancellers |-> IF taken[x] = c THEN Returned ELSE taken[x]]
  /\ UNCHANGED <<craneVars, hoistLocked, crane>>

\* Mutant: the executor goes on to the next step although MoveAxis failed.
ClearCancel_GoesOnAfterError(c) ==
  LET rest == Tail(route[c]) IN
  /\ Goto(c, "clear", IF rest = << >> THEN "ready" ELSE "check")
  /\ cancelFn' = [cancelFn EXCEPT ![crane[c]] = NoCall]
  /\ route' = [route EXCEPT ![c] = rest]
  /\ ctx' = [ctx EXCEPT ![c] = IF @ = "done" /\ rest # << >> THEN "done" ELSE "live"]
  /\ moved' = [moved EXCEPT ![c] = FALSE]
  /\ taken' = [x \in Cancellers |-> IF taken[x] = c THEN Returned ELSE taken[x]]
  /\ UNCHANGED <<craneVars, hoistLocked, crane>>

\* Mutant: the end of the route is not noticed.
ClearCancel_NoEnd(c) ==
  /\ Goto(c, "clear", "check")
  /\ cancelFn' = [cancelFn EXCEPT ![crane[c]] = NoCall]
  /\ route' = [route EXCEPT ![c] = IF moved[c] THEN Tail(@) ELSE << >>]
  /\ ctx' = [ctx EXCEPT ![c] = IF @ = "done" THEN "done" ELSE "live"]
  /\ moved' = [moved EXCEPT ![c] = FALSE]
  /\ taken' = [x \in Cancellers |-> IF taken[x] = c THEN Returned ELSE taken[x]]
  /\ UNCHANGED <<craneVars, hoistLocked, crane>>

\* The last deferred function drops the registration, whoever owns it, and
\* MoveAxis returns: on success the executor goes on to the next step of the
\* route, on error it abandons the route.  A CancelMotion that has read the
\* function still holds it, and it is now that of a call that has returned.
ClearCancel(c) ==
  LET rest == IF moved[c] THEN Tail(route[c]) ELSE << >> IN
  /\ Goto(c, "clear", IF rest = << >> THEN "ready" ELSE "check")
  /\ cancelFn' = [cancelFn EXCEPT ![crane[c]] = NoCall]
  /\ route' = [route EXCEPT ![c] = rest]
  /\ ctx' = [ctx EXCEPT ![c] = IF @ = "done" /\ rest # << >> THEN "done" ELSE "live"]
  /\ moved' = [moved EXCEPT ![c] = FALSE]
  /\ taken' = [x \in Cancellers |-> IF taken[x] = c THEN Returned ELSE taken[x]]
  /\ UNCHANGED <<craneVars, hoistLocked, crane>>

\* One step of a route in progress.
CallerStep(c) ==
  \/ CheckMotionAllowed(c) \/ Install(c) \/ LockHoist(c) \/ EnterSelect(c)
  \/ StartMotion(c) \/ MidSelect(c) \/ CommitMotion(c) \/ UnlockHoist(c)
  \/ ClearCancel(c)

-------------------------------------------------------------------------------
(***************************************************************************)
(* Everybody else's side.                                                  *)
(***************************************************************************)

\* The context a route runs under is cancelled (signal, caller, deadline).
ContextDone(c) ==
  /\ pc[c] # "ready"
  /\ ctx[c] # "done"
  /\ ctx' = [ctx EXCEPT ![c] = "done"]
  /\ UNCHANGED <<craneVars, lockVars, pc, crane, route, moved, taken>>

SetEStop(k, active) ==
  /\ eStopActive' = [eStopActive EXCEPT ![k] = active]
  /\ phase' = IF active THEN [phase EXCEPT ![k] = "emergency"] ELSE phase
  /\ UNCHANGED <<interlocked, mm, complete, lockVars, callVars, taken>>

SetInterlocked(k, locked) ==
  /\ interlocked' = [interlocked EXCEPT ![k] = locked]
  /\ UNCHANGED <<phase, eStopActive, mm, complete, lockVars, callVars, taken>>

SetPhase(k, p) ==
  /\ phase' = [phase EXCEPT ![k] = p]
  /\ UNCHANGED <<eStopActive, interlocked, mm, complete, lockVars, callVars, taken>>

\* CancelMotion reads the function under the mutex ...
CancelRead(x, k) ==
  /\ taken[x] = NoCall
  /\ taken' = [taken EXCEPT ![x] = cancelFn[k]]
  /\ UNCHANGED <<craneVars, lockVars, callVars>>

\* ... and calls it after releasing the mutex, be the call under way or not:
\* cancelling a context nobody looks at any more changes nothing.
CancelCall(x) ==
  /\ taken[x] # NoCall
  /\ ctx' = IF taken[x] = Returned THEN ctx ELSE Cancel(taken[x])
  /\ taken' = [taken EXCEPT ![x] = NoCall]
  /\ UNCHANGED <<craneVars, lockVars, pc, crane, route, moved>>

CallerNext == \E c \in Callers :
  \/ \E k \in Cranes, r \in Routes : Begin(c, k, r)
  \/ CallerStep(c)
  \/ ContextDone(c)

ClientNext ==
  \/ \E k \in Cranes, b \in BOOLEAN : SetEStop(k, b) \/ SetInterlocked(k, b)
  \/ \E k \in Cranes, p \in ClientPhases : SetPhase(k, p)
  \/ \E x \in Cancellers : CancelCall(x) \/ \E k \in Cranes : CancelRead(x, k)

ServiceNext == CallerNext \/ ClientNext

ServiceSpec == ServiceInit /\ [][ServiceNext]_serviceVars

\* A goroutine inside MoveAxis is never blocked for good: every critical
\* section is finite and every select has a default branch.
CallFairness == \A c \in Callers : WF_serviceVars(CallerStep(c))

FairServiceSpec == ServiceSpec /\ CallFairness

-------------------------------------------------------------------------------
(***************************************************************************)
(* Properties.                                                             *)
(***************************************************************************)

\* Every variable has its type, and exactly the idle callers have no route.
ServiceTypeOK ==
  /\ phase \in [Cranes -> Phases]
  /\ eStopActive \in [Cranes -> BOOLEAN]
  /\ interlocked \in [Cranes -> BOOLEAN]
  /\ mm \in [Cranes -> [Axes -> Positions]]
  /\ complete \in [Cranes -> [Axes -> BOOLEAN]]
  /\ hoistLocked \in [Cranes -> BOOLEAN]
  /\ cancelFn \in [Cranes -> Callers \cup {NoCall}]
  /\ pc \in [Callers -> ControlPoints]
  /\ crane \in [Callers -> Cranes]
  /\ route \in [Callers -> Seq(MotionStep)]
  /\ ctx \in [Callers -> {"live", "cancelled", "done"}]
  /\ moved \in [Callers -> BOOLEAN]
  /\ taken \in [Cancellers -> Callers \cup {NoCall, Returned}]
  /\ \A c \in Callers : pc[c] = "ready" <=> route[c] = << >>

\* A registered cancel function belongs to a MoveAxis of that crane which has
\* not returned, on whatever path the calls before it ended.  So the next
\* MoveAxis, which calls it in the section that reads it, never cancels a call
\* that is over.  (CancelMotion may: it calls what it read after the unlock, and
\* the call may have returned in between, which then has no effect.)
CancelFnLive ==
  \A k \in Cranes : cancelFn[k] # NoCall =>
    Installed(cancelFn[k]) /\ crane[cancelFn[k]] = k

\* A locked hoist has a hoist motion of that crane which will unlock it: no
\* path out of MoveAxis leaves the lock behind.  (The converse fails: the first
\* of two overlapping hoist motions unlocks the hoist under the second.)
HoistLockOwned ==
  \A k \in Cranes : hoistLocked[k] =>
    \E c \in Callers : HoldsHoist(c) /\ crane[c] = k

\* While a crane shows an axis in motion, the progress of that axis is not
\* complete, whatever overlapping motions finished meanwhile.  (Holds as long
\* as only executeMotion sets motion phases, see ClientPhases.)
PhaseMatchesProgress ==
  \A k \in Cranes, a \in Axes : ActiveAxis(phase[k], a) => ~complete[k][a]

\* Once the emergency stop of a crane stays on, every motion of that crane
\* drains and no other is admitted: admission is the only place that looks at
\* the stop, so this is what stops a route between two of its axes.
InFlight(c) == pc[c] \notin {"ready", "check"}

StopDrains ==
  \A k \in Cranes :
    <>[]eStopActive[k] => <>[](\A c \in Callers : crane[c] = k => ~InFlight(c))
================================================================================

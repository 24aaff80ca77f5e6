-------------------------- MODULE CraneServiceProofs --------------------------
(***************************************************************************)
(* Theorems about CraneService for every number of cranes, callers,        *)
(* cancellers and every set of routes.                                     *)
(***************************************************************************)
EXTENDS CraneService, SequenceTheorems, TLAPS

\* The current step of a route and what is left of it have their types.
LEMMA StepType ==
  ASSUME NEW r \in Seq(MotionStep), r # << >>
  PROVE  /\ Head(r) \in MotionStep
         /\ Head(r).axis \in Axes
         /\ Head(r).to \in Positions
         /\ Tail(r) \in Seq(MotionStep)
<1>1. Head(r) \in MotionStep /\ Tail(r) \in Seq(MotionStep)
  BY HeadTailProperties
<1>2. QED
  BY <1>1 DEF MotionStep

\* The phase of a moving axis is a phase.
LEMMA PhaseForAxisType ==
  ASSUME NEW a \in Axes
  PROVE  PhaseForAxis(a) \in Phases
BY DEF Axes, Phases, PhaseForAxis

\* Two axes never show as the same phase, and none shows as idle, emergency
\* or fault.
LEMMA PhaseForAxisInjective ==
  ASSUME NEW a \in Axes, NEW b \in Axes
  PROVE  /\ PhaseForAxis(a) = PhaseForAxis(b) => a = b
         /\ PhaseForAxis(a) \notin {"idle", "emergency"}
BY DEF Axes, PhaseForAxis

-------------------------------------------------------------------------------
\* The initial state is well typed.
LEMMA InitType == ServiceInit => ServiceTypeOK
<1> SUFFICES ASSUME ServiceInit PROVE ServiceTypeOK
  OBVIOUS
<1>1. << >> \in Seq(MotionStep)
  OBVIOUS
<1> QED
  BY <1>1, ServiceAssumption
  DEF ServiceInit, ServiceInitAt, ServiceTypeOK, Phases, ControlPoints

\* A caller's step preserves the types.
LEMMA CallerType ==
  ASSUME ServiceTypeOK, NEW c \in Callers, CallerStep(c)
  PROVE  ServiceTypeOK'
<1> DEFINE k == crane[c]
<1>0. k \in Cranes /\ (pc[c] # "ready" => route[c] # << >>)
  BY DEF ServiceTypeOK
<1>1. CASE CheckMotionAllowed(c)
  <2> USE <1>1 DEF CheckMotionAllowed, craneVars, lockVars
  <2>1. CASE MotionAllowed(k, axis(c))
    BY <2>1 DEF ServiceTypeOK, ControlPoints
  <2>2. CASE ~MotionAllowed(k, axis(c))
    <3>1. << >> \in Seq(MotionStep)
      OBVIOUS
    <3> QED
      BY <2>2, <3>1 DEF ServiceTypeOK, ControlPoints
  <2> QED
    BY <2>1, <2>2
<1>2. CASE Install(c)
  BY <1>2 DEF ServiceTypeOK, Install, Goto, Cancel, ControlPoints, craneVars
<1>3. CASE LockHoist(c)
  BY <1>3 DEF ServiceTypeOK, LockHoist, Goto, ControlPoints, craneVars
<1>4. CASE EnterSelect(c)
  BY <1>4 DEF ServiceTypeOK, EnterSelect, Goto, Unwind, ControlPoints, craneVars, lockVars
<1>5. CASE StartMotion(c)
  <2>1. axis(c) \in Axes
    BY <1>0, <1>5, StepType DEF StartMotion, Goto, axis, ServiceTypeOK
  <2> QED
    BY <1>5, <2>1, PhaseForAxisType
    DEF ServiceTypeOK, StartMotion, Goto, ControlPoints, lockVars
<1>6. CASE MidSelect(c)
  BY <1>6 DEF ServiceTypeOK, MidSelect, Goto, Unwind, ControlPoints, craneVars, lockVars
<1>7. CASE CommitMotion(c)
  <2>1. axis(c) \in Axes /\ Head(route[c]).to \in Positions
    BY <1>0, <1>7, StepType DEF CommitMotion, Goto, axis, ServiceTypeOK
  <2> QED
    BY <1>7, <2>1
    DEF ServiceTypeOK, CommitMotion, Goto, Unwind, ControlPoints, Phases, lockVars
<1>8. CASE UnlockHoist(c)
  BY <1>8 DEF ServiceTypeOK, UnlockHoist, Goto, ControlPoints, craneVars
<1>9. CASE ClearCancel(c)
  <2> DEFINE rest == IF moved[c] THEN Tail(route[c]) ELSE << >>
  <2>1. rest \in Seq(MotionStep)
    BY <1>0, <1>9, StepType DEF ClearCancel, Goto, ServiceTypeOK
  <2> QED
    BY <1>9, <2>1 DEF ServiceTypeOK, ClearCancel, Goto, ControlPoints, craneVars
<1> QED
  BY <1>1, <1>2, <1>3, <1>4, <1>5, <1>6, <1>7, <1>8, <1>9 DEF CallerStep

\* Every step preserves the types.
LEMMA NextType == ServiceTypeOK /\ [ServiceNext]_serviceVars => ServiceTypeOK'
<1> SUFFICES ASSUME ServiceTypeOK, [ServiceNext]_serviceVars PROVE ServiceTypeOK'
  OBVIOUS
<1>1. ASSUME NEW c \in Callers, NEW k \in Cranes, NEW r \in Routes, Begin(c, k, r)
      PROVE  ServiceTypeOK'
  <2>1. r \in Seq(MotionStep) /\ r # << >>
    BY ServiceAssumption
  <2> QED
    BY <1>1, <2>1 DEF ServiceTypeOK, Begin, Goto, ControlPoints, craneVars, lockVars
<1>2. ASSUME NEW c \in Callers, CallerStep(c) PROVE ServiceTypeOK'
  BY <1>2, CallerType
<1>3. ASSUME NEW c \in Callers, ContextDone(c) PROVE ServiceTypeOK'
  BY <1>3 DEF ServiceTypeOK, ContextDone, craneVars, lockVars
<1>4. ASSUME NEW k \in Cranes, NEW b \in BOOLEAN, SetEStop(k, b) PROVE ServiceTypeOK'
  BY <1>4 DEF ServiceTypeOK, SetEStop, Phases, lockVars, callVars
<1>5. ASSUME NEW k \in Cranes, NEW b \in BOOLEAN, SetInterlocked(k, b) PROVE ServiceTypeOK'
  BY <1>5 DEF ServiceTypeOK, SetInterlocked, lockVars, callVars
<1>6. ASSUME NEW k \in Cranes, NEW p \in ClientPhases, SetPhase(k, p) PROVE ServiceTypeOK'
  BY <1>6, ServiceAssumption DEF ServiceTypeOK, SetPhase, lockVars, callVars
<1>7. ASSUME NEW x \in Cancellers, NEW k \in Cranes, CancelRead(x, k) PROVE ServiceTypeOK'
  BY <1>7 DEF ServiceTypeOK, CancelRead, craneVars, lockVars, callVars
<1>8. ASSUME NEW x \in Cancellers, CancelCall(x) PROVE ServiceTypeOK'
  BY <1>8 DEF ServiceTypeOK, CancelCall, Cancel, craneVars, lockVars
<1>9. CASE UNCHANGED serviceVars
  BY <1>9 DEF ServiceTypeOK, serviceVars, craneVars, lockVars, callVars
<1> QED
  BY <1>1, <1>2, <1>3, <1>4, <1>5, <1>6, <1>7, <1>8, <1>9
  DEF ServiceNext, CallerNext, ClientNext

\* Every variable of the service keeps its type, for all cranes, callers and
\* routes (internal/crane/service.go).
THEOREM TypeCorrect == ServiceSpec => []ServiceTypeOK
BY InitType, NextType, PTL DEF ServiceSpec

-------------------------------------------------------------------------------
(***************************************************************************)
(* CancelFnLive: what a caller's step may do to a registration.            *)
(***************************************************************************)

\* Until the call leaves "clear", a call that is registered stays installed.
LEMMA CallerCancelFn ==
  ASSUME ServiceTypeOK, CancelFnLive, NEW c \in Callers, CallerStep(c)
  PROVE  CancelFnLive'
<1> SUFFICES ASSUME NEW k \in Cranes, cancelFn'[k] # NoCall
             PROVE  /\ pc'[cancelFn'[k]] \notin {"ready", "check", "install"}
                    /\ crane'[cancelFn'[k]] = k
  BY DEF CancelFnLive, Installed
<1>1. crane' = crane
  BY DEF CallerStep, CheckMotionAllowed, Install, LockHoist, EnterSelect,
         StartMotion, MidSelect, CommitMotion, UnlockHoist, ClearCancel
<1>2. CASE Install(c)
  BY <1>1, <1>2 DEF Install, Goto, Installed, CancelFnLive, ServiceTypeOK
<1>3. CASE ClearCancel(c)
  BY <1>1, <1>3 DEF ClearCancel, Goto, Installed, CancelFnLive, ServiceTypeOK
<1>4. CASE CheckMotionAllowed(c)
  BY <1>1, <1>4 DEF CheckMotionAllowed, lockVars, Installed, CancelFnLive, ServiceTypeOK
<1>5. CASE \/ LockHoist(c) \/ EnterSelect(c) \/ StartMotion(c) \/ MidSelect(c)
           \/ CommitMotion(c) \/ UnlockHoist(c)
  <2>1. cancelFn' = cancelFn
    BY <1>5 DEF LockHoist, EnterSelect, StartMotion, MidSelect, CommitMotion,
                UnlockHoist, lockVars
  <2>2. Installed(c)'
    BY <1>5 DEF LockHoist, EnterSelect, StartMotion, MidSelect, CommitMotion,
                UnlockHoist, Goto, Unwind, Installed, ServiceTypeOK
  <2>3. \A d \in Callers \ {c} : pc'[d] = pc[d]
    BY <1>5 DEF LockHoist, EnterSelect, StartMotion, MidSelect, CommitMotion,
                UnlockHoist, Goto, ServiceTypeOK
  <2>4. cancelFn[k] \in Callers
    BY <2>1 DEF ServiceTypeOK
  <2> QED
    BY <1>1, <2>1, <2>2, <2>3, <2>4 DEF Installed, CancelFnLive
<1> QED
  BY <1>2, <1>3, <1>4, <1>5 DEF CallerStep

-------------------------------------------------------------------------------
(***************************************************************************)
(* HoistLockOwned.                                                         *)
(***************************************************************************)

\* Only a hoist motion waits for the hoist lock.
LockIsHoist == \A c \in Callers : pc[c] = "lock" => axis(c) = "hoist"

\* The inductive invariant of HoistLockOwned.
HoistInv == ServiceTypeOK /\ LockIsHoist /\ HoistLockOwned

\* A step that leaves the lock and the route of every caller on it alone
\* preserves the owner of the lock.
LEMMA OwnerKept ==
  ASSUME HoistInv, hoistLocked' = hoistLocked, crane' = crane,
         \A c \in Callers : HoldsHoist(c) => HoldsHoist(c)'
  PROVE  HoistLockOwned'
BY DEF HoistInv, HoistLockOwned

\* A caller's step preserves the owner of every locked hoist.
LEMMA CallerHoist ==
  ASSUME HoistInv, NEW c \in Callers, CallerStep(c)
  PROVE  LockIsHoist' /\ HoistLockOwned'
<1> USE DEF HoistInv
<1>0. crane' = crane /\ \A d \in Callers \ {c} : pc'[d] = pc[d] /\ route'[d] = route[d]
  BY DEF CallerStep, CheckMotionAllowed, Install, LockHoist, EnterSelect, StartMotion,
         MidSelect, CommitMotion, UnlockHoist, ClearCancel, Goto, ServiceTypeOK
<1>1. CASE CheckMotionAllowed(c)
  <2>1. pc'[c] # "lock" /\ hoistLocked' = hoistLocked /\ ~HoldsHoist(c)
    BY <1>1 DEF CheckMotionAllowed, HoldsHoist, lockVars, ServiceTypeOK
  <2> QED
    BY <1>0, <2>1, OwnerKept DEF LockIsHoist, HoldsHoist, axis
<1>2. CASE Install(c)
  <2>1. route' = route /\ (pc'[c] = "lock" => axis(c) = "hoist")
        /\ hoistLocked' = hoistLocked /\ ~HoldsHoist(c)
    BY <1>2 DEF Install, Goto, HoldsHoist, ServiceTypeOK
  <2> QED
    BY <1>0, <2>1, OwnerKept DEF LockIsHoist, HoldsHoist, axis
<1>3. CASE LockHoist(c)
  <2>1. route' = route /\ pc'[c] = "enter" /\ axis(c) = "hoist" /\ ~HoldsHoist(c)
    BY <1>3 DEF LockHoist, Goto, LockIsHoist, HoldsHoist, ServiceTypeOK
  <2>2. HoldsHoist(c)' /\ \A d \in Callers : HoldsHoist(d) => HoldsHoist(d)'
    BY <1>0, <2>1 DEF HoldsHoist, axis
  <2>3. \A k \in Cranes \ {crane[c]} : hoistLocked'[k] = hoistLocked[k]
    BY <1>3 DEF LockHoist, ServiceTypeOK
  <2>4. HoistLockOwned'
    BY <1>0, <2>2, <2>3 DEF HoistLockOwned
  <2> QED
    BY <1>0, <2>1, <2>4 DEF LockIsHoist, axis
<1>4. CASE EnterSelect(c) \/ StartMotion(c) \/ MidSelect(c) \/ CommitMotion(c)
  <2>1. route' = route /\ hoistLocked' = hoistLocked
    BY <1>4 DEF EnterSelect, StartMotion, MidSelect, CommitMotion, lockVars
  <2>2. /\ pc'[c] # "lock"
        /\ axis(c) = "hoist" => pc'[c] \in {"start", "mid", "commit", "unlock"}
    BY <1>4 DEF EnterSelect, StartMotion, MidSelect, CommitMotion, Goto, Unwind,
                ServiceTypeOK
  <2>3. \A d \in Callers : HoldsHoist(d) => HoldsHoist(d)'
    BY <1>0, <2>1, <2>2 DEF HoldsHoist, axis
  <2> QED
    BY <1>0, <2>1, <2>2, <2>3, OwnerKept DEF LockIsHoist, axis
<1>5. CASE UnlockHoist(c)
  <2>1. route' = route /\ pc'[c] = "clear" /\ ~hoistLocked'[crane[c]]
        /\ \A k \in Cranes \ {crane[c]} : hoistLocked'[k] = hoistLocked[k]
    BY <1>5 DEF UnlockHoist, Goto, ServiceTypeOK
  <2>2. \A d \in Callers \ {c} : HoldsHoist(d) => HoldsHoist(d)'
    BY <1>0, <2>1 DEF HoldsHoist, axis
  <2>3. HoistLockOwned'
    BY <1>0, <2>1, <2>2 DEF HoistLockOwned
  <2> QED
    BY <1>0, <2>1, <2>3 DEF LockIsHoist, axis
<1>6. CASE ClearCancel(c)
  <2>1. pc'[c] # "lock" /\ hoistLocked' = hoistLocked /\ ~HoldsHoist(c)
    BY <1>6 DEF ClearCancel, Goto, HoldsHoist, ServiceTypeOK
  <2> QED
    BY <1>0, <2>1, OwnerKept DEF LockIsHoist, HoldsHoist, axis
<1> QED
  BY <1>1, <1>2, <1>3, <1>4, <1>5, <1>6 DEF CallerStep

-------------------------------------------------------------------------------
(***************************************************************************)
(* Registrations and locks, whoever else works on the services.            *)
(***************************************************************************)

\* The inductive invariant of the calls.
CallInv == HoistInv /\ CancelFnLive

\* What may happen to the calls: a caller's step, the begin of a route, be it
\* one of Routes or a plan made up at run time, or nothing.
CallsGoOn ==
  \/ \E c \in Callers : CallerStep(c)
  \/ \E c \in Callers, k \in Cranes, r \in Seq(MotionStep) : r # << >> /\ Begin(c, k, r)
  \/ UNCHANGED <<pc, crane, route, hoistLocked, cancelFn>>

\* It keeps every registration and every lock with a call that will undo it.
LEMMA CallNext == CallInv /\ ServiceTypeOK' /\ CallsGoOn => CallInv'
<1> SUFFICES ASSUME CallInv, ServiceTypeOK', CallsGoOn PROVE CallInv'
  OBVIOUS
<1> USE DEF CallInv
<1>1. ASSUME NEW c \in Callers, CallerStep(c) PROVE CallInv'
  <2>1. CancelFnLive'
    BY <1>1, CallerCancelFn DEF HoistInv
  <2>2. LockIsHoist' /\ HoistLockOwned'
    BY <1>1, CallerHoist
  <2> QED
    BY <2>1, <2>2 DEF HoistInv
<1>2. ASSUME NEW c \in Callers, NEW k \in Cranes, NEW r \in Seq(MotionStep), Begin(c, k, r)
      PROVE  CallInv'
  <2>1. /\ UNCHANGED <<hoistLocked, cancelFn>>
        /\ pc[c] = "ready" /\ pc'[c] = "check" /\ ~HoldsHoist(c)
        /\ \A d \in Callers \ {c} :
             pc'[d] = pc[d] /\ route'[d] = route[d] /\ crane'[d] = crane[d]
    BY <1>2 DEF Begin, Goto, lockVars, HoldsHoist, HoistInv, ServiceTypeOK
  <2>2. CancelFnLive'
    BY <2>1 DEF CancelFnLive, Installed, HoistInv, ServiceTypeOK
  <2>3. LockIsHoist'
    BY <2>1 DEF LockIsHoist, axis, HoistInv
  <2>4. HoistLockOwned'
    BY <2>1 DEF HoistLockOwned, HoldsHoist, axis, HoistInv
  <2> QED
    BY <2>2, <2>3, <2>4 DEF HoistInv
<1>3. ASSUME UNCHANGED <<pc, crane, route, hoistLocked, cancelFn>> PROVE CallInv'
  <2>1. CancelFnLive'
    BY <1>3 DEF CancelFnLive, Installed
  <2>2. LockIsHoist'
    BY <1>3 DEF HoistInv, LockIsHoist, axis
  <2>3. \A d \in Callers : HoldsHoist(d) => HoldsHoist(d)'
    BY <1>3 DEF HoldsHoist, axis
  <2> QED
    BY <1>3, <2>1, <2>2, <2>3, OwnerKept DEF HoistInv
<1> QED
  BY <1>1, <1>2, <1>3 DEF CallsGoOn

\* A new service has nothing registered and nothing locked, wherever it stands.
LEMMA CallInit ==
  ASSUME NEW pose, ServiceInitAt(pose), ServiceTypeOK
  PROVE  CallInv
BY DEF ServiceInitAt, CallInv, HoistInv, LockIsHoist, HoistLockOwned, CancelFnLive

\* The service's own callers and clients do no more than that.
LEMMA CallInvAlways == ServiceSpec => []CallInv
<1>1. ServiceInit => CallInv
  BY InitType, CallInit DEF ServiceInit
<1>2. CallInv /\ [ServiceNext]_serviceVars => CallInv'
  <2> SUFFICES ASSUME CallInv, [ServiceNext]_serviceVars PROVE CallInv'
    OBVIOUS
  <2>1. ServiceTypeOK'
    BY NextType DEF CallInv, HoistInv
  <2>2. \A r \in Routes : r \in Seq(MotionStep) /\ r # << >>
    BY ServiceAssumption
  <2>3. CallsGoOn
    BY <2>2
    DEF ServiceNext, CallerNext, ClientNext, CallsGoOn, ContextDone, SetEStop, SetInterlocked,
        SetPhase, CancelRead, CancelCall, serviceVars, lockVars, callVars
  <2> QED
    BY <2>1, <2>3, CallNext
<1> QED
  BY <1>1, <1>2, PTL DEF ServiceSpec

\* A registered cancel function is that of a MoveAxis still running on the
\* crane, for all cranes and callers: a newer MoveAxis never calls the function
\* of a call that is over.
THEOREM CancelFnLiveAlways == ServiceSpec => []CancelFnLive
BY CallInvAlways, PTL DEF CallInv

\* A locked hoist always has a running hoist motion that will unlock it, for
\* all cranes, callers and routes: no path out of MoveAxis leaks the lock.
THEOREM HoistLockOwnedAlways == ServiceSpec => []HoistLockOwned
<1>1. CallInv => HoistLockOwned
  BY DEF CallInv, HoistInv
<1> QED
  BY <1>1, CallInvAlways, PTL

-------------------------------------------------------------------------------
(***************************************************************************)
(* PhaseMatchesProgress, when clients set no phase of a moving axis.       *)
(***************************************************************************)

NoForcedMotion == \A a \in Axes : PhaseForAxis(a) \notin ClientPhases

\* The two critical sections of executeMotion keep phase and progress together.
LEMMA MotionKeepsProgress ==
  ASSUME ServiceTypeOK, PhaseMatchesProgress, NEW c \in Callers,
         StartMotion(c) \/ CommitMotion(c)
  PROVE  PhaseMatchesProgress'
<1> SUFFICES ASSUME NEW k \in Cranes, NEW a \in Axes, ActiveAxis(phase'[k], a)
             PROVE  ~complete'[k][a]
  BY DEF PhaseMatchesProgress, ActiveAxis
<1>1. route[c] \in Seq(MotionStep) /\ route[c] # << >>
  BY DEF StartMotion, CommitMotion, Goto, ServiceTypeOK
<1>2. axis(c) \in Axes
  BY <1>1, StepType DEF axis
<1>3. CASE StartMotion(c)
  <2>1. CASE k = crane[c]
    <3>1. phase'[k] = PhaseForAxis(axis(c)) /\ ~complete'[k][axis(c)]
      BY <1>2, <1>3, <2>1 DEF StartMotion, ServiceTypeOK
    <3> QED
      BY <1>2, <3>1, PhaseForAxisInjective DEF ActiveAxis
  <2>2. CASE k # crane[c]
    BY <1>3, <2>2 DEF StartMotion, ServiceTypeOK, PhaseMatchesProgress, ActiveAxis
  <2> QED
    BY <2>1, <2>2
<1>4. CASE CommitMotion(c)
  <2>1. CASE k = crane[c]
    <3>1. phase'[k] = "idle"
      BY <1>4, <2>1 DEF CommitMotion, ServiceTypeOK
    <3> QED
      BY <3>1, PhaseForAxisInjective DEF ActiveAxis
  <2>2. CASE k # crane[c]
    BY <1>4, <2>2 DEF CommitMotion, ServiceTypeOK, PhaseMatchesProgress, ActiveAxis
  <2> QED
    BY <2>1, <2>2
<1> QED
  BY <1>3, <1>4

\* Setting a phase that shows no axis in motion does so, too.
LEMMA PhaseKeepsProgress ==
  ASSUME ServiceTypeOK, PhaseMatchesProgress, NEW k \in Cranes, NEW p,
         \A a \in Axes : PhaseForAxis(a) # p, SetPhase(k, p)
  PROVE  PhaseMatchesProgress'
BY DEF SetPhase, PhaseMatchesProgress, ActiveAxis, ServiceTypeOK

\* What may happen to phases and progress as long as only executeMotion shows an
\* axis in motion: its critical sections, stops, other phases, or nothing.
ProgressGoesOn ==
  \/ \E c \in Callers : CallerStep(c)
  \/ \E k \in Cranes, b \in BOOLEAN : SetEStop(k, b)
  \/ \E k \in Cranes, p \in Phases : (\A a \in Axes : PhaseForAxis(a) # p) /\ SetPhase(k, p)
  \/ UNCHANGED <<phase, complete>>

\* It keeps phase and progress together.
LEMMA ProgressNext ==
  ASSUME ServiceTypeOK, PhaseMatchesProgress, ProgressGoesOn
  PROVE  PhaseMatchesProgress'
<1>1. ASSUME NEW c \in Callers, CallerStep(c) PROVE PhaseMatchesProgress'
  <2>1. CASE StartMotion(c) \/ CommitMotion(c)
    BY <2>1, MotionKeepsProgress
  <2>2. CASE UNCHANGED <<phase, complete>>
    BY <2>2 DEF PhaseMatchesProgress
  <2> QED
    BY <1>1, <2>1, <2>2 DEF CallerStep, CheckMotionAllowed, Install, LockHoist, EnterSelect,
       MidSelect, UnlockHoist, ClearCancel, craneVars
<1>2. ASSUME NEW k \in Cranes, NEW b \in BOOLEAN, SetEStop(k, b) PROVE PhaseMatchesProgress'
  BY <1>2, PhaseForAxisInjective DEF SetEStop, PhaseMatchesProgress, ActiveAxis, ServiceTypeOK
<1>3. CASE UNCHANGED <<phase, complete>>
  BY <1>3 DEF PhaseMatchesProgress
<1> QED
  BY <1>1, <1>2, <1>3, PhaseKeepsProgress DEF ProgressGoesOn

\* A new service is idle.
LEMMA ProgressInit == ASSUME NEW pose, ServiceInitAt(pose) PROVE PhaseMatchesProgress
BY PhaseForAxisInjective DEF ServiceInitAt, PhaseMatchesProgress, ActiveAxis

\* While a crane shows an axis in motion the progress of that axis is not
\* complete, for all cranes, callers and routes, if nobody but executeMotion
\* sets the phase of a moving axis.
THEOREM PhaseMatchesProgressAlways ==
  ASSUME NoForcedMotion
  PROVE  ServiceSpec => []PhaseMatchesProgress
<1>1. ServiceInit => PhaseMatchesProgress
  BY ProgressInit DEF ServiceInit
<1>2. ServiceTypeOK /\ PhaseMatchesProgress /\ [ServiceNext]_serviceVars
        => PhaseMatchesProgress'
  <2> SUFFICES ASSUME ServiceTypeOK, PhaseMatchesProgress, [ServiceNext]_serviceVars
               PROVE  PhaseMatchesProgress'
    OBVIOUS
  <2>1. \A p \in ClientPhases : p \in Phases /\ \A a \in Axes : PhaseForAxis(a) # p
    BY ServiceAssumption DEF NoForcedMotion
  <2>2. ProgressGoesOn
    BY <2>1
    DEF ServiceNext, CallerNext, ClientNext, ProgressGoesOn, Begin, ContextDone, SetInterlocked,
        CancelRead, CancelCall, serviceVars, craneVars
  <2> QED
    BY <2>2, ProgressNext
<1> QED
  BY <1>1, <1>2, TypeCorrect, PTL DEF ServiceSpec
================================================================================

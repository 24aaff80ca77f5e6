----------------------------- MODULE LifeCycleProofs -----------------------------
(***************************************************************************)
(* Theorems about LifeCycle for every number of aisles, services, callers  *)
(* and routes: what Trigger and Reset have achieved when they return, and  *)
(* what Start has set up, whatever interleaves with them.                  *)
(***************************************************************************)
EXTENDS LifeCycle, CraneServiceProofs

\* A registered crane id names a service.
LEMMA GetFacts ==
  ASSUME generation \in [Ids -> 0..Generations], NEW i \in CraneIDs
  PROVE  /\ i \in Ids /\ Get(i) \in Cranes /\ Get(i)[1] = i /\ Get(i)[2] = generation[i]
<1>1. i \in Ids /\ generation[i] \in 1..Generations
  BY ControllerAssumption DEF CraneIDs
<1> QED
  BY <1>1, ControllerAssumption DEF Get

\* A service is the pair of its id and its number.
LEMMA CraneFacts ==
  ASSUME NEW k \in Cranes
  PROVE  k[1] \in Ids /\ k[2] \in Nat /\ k = <<k[1], k[2]>>
BY ControllerAssumption

-------------------------------------------------------------------------------
(***************************************************************************)
(* The types of the services.                                              *)
(***************************************************************************)

\* Callers keep the types of the services they move, registered or replaced.
LEMMA CallersType ==
  ASSUME ServiceTypeOK, generation \in [Ids -> 0..Generations], CallersMove
  PROVE  ServiceTypeOK'
<1>1. ASSUME NEW c \in Callers, NEW i \in CraneIDs, NEW r \in Routes, Begin(c, Get(i), r)
      PROVE  ServiceTypeOK'
  <2>1. Get(i) \in Cranes
    BY GetFacts
  <2>2. ServiceNext
    BY <1>1, <2>1 DEF ServiceNext, CallerNext
  <2> QED
    BY <2>2, NextType
<1> QED
  BY <1>1, CallerType DEF CallersMove

\* The controller and the application keep the types of the services.
LEMMA OthersType ==
  ASSUME ServiceTypeOK, generation \in [Ids -> 0..Generations],
         got \subseteq Cranes, idling \subseteq Cranes,
         \/ \E i \in CraneIDs : StopCrane(i)
         \/ \E k \in Cranes : ReleaseCrane(k) \/ IdleCrane(k)
         \/ at \in CraneIDs /\ PoseCrane
         \/ CallCancel \/ \E i \in CraneIDs : CancelCrane(i)
  PROVE  ServiceTypeOK'
<1>1. ASSUME NEW k \in Cranes, NEW b \in BOOLEAN, SetEStop(k, b) PROVE ServiceTypeOK'
  BY <1>1 DEF ServiceTypeOK, SetEStop, Phases, lockVars, callVars
<1>2. ASSUME NEW i \in CraneIDs, StopCrane(i) PROVE ServiceTypeOK'
  BY <1>1, <1>2, GetFacts DEF StopCrane
<1>3. ASSUME NEW k \in Cranes, ReleaseCrane(k) PROVE ServiceTypeOK'
  BY <1>1, <1>3 DEF ReleaseCrane
<1>4. ASSUME NEW k \in Cranes, IdleCrane(k) PROVE ServiceTypeOK'
  BY <1>4 DEF IdleCrane, SetPhase, ServiceTypeOK, Phases, lockVars, callVars
<1>5. CASE at \in CraneIDs /\ PoseCrane
  <2>1. LocationToPosition(CraneHome(at)) \in [Axes -> Positions]
    BY <1>5, LifeAssumption DEF CraneIDs
  <2>2. mm' \in [Cranes -> [Axes -> Positions]]
    BY <1>5, <2>1, GetFacts DEF PoseCrane, ServiceTypeOK
  <2> QED
    BY <1>5, <2>2 DEF PoseCrane, ServiceTypeOK, lockVars, callVars
<1>6. ASSUME CallCancel \/ \E i \in CraneIDs : CancelCrane(i) PROVE ServiceTypeOK'
  <2>1. \A i \in CraneIDs : CancelCrane(i) => CancelRead(Closer, Get(i)) /\ Get(i) \in Cranes
    BY GetFacts DEF CancelCrane
  <2>2. CallCancel => CancelCall(Closer)
    BY DEF CallCancel
  <2>3. ServiceNext
    BY <1>6, <2>1, <2>2, LifeAssumption DEF ServiceNext, ClientNext
  <2> QED
    BY <2>3, NextType
<1> QED
  BY <1>2, <1>3, <1>4, <1>5, <1>6

-------------------------------------------------------------------------------
(***************************************************************************)
(* Start, Shutdown and the aisle registry.                                 *)
(***************************************************************************)

\* Start has registered and listed the aisles before the one it is at.
BootInv ==
  /\ boot \in {"register", "pose", "list"} =>
       /\ at <= configured
       /\ \A i \in 1..(at - 1) : i \in CraneIDs /\ aisles[i] # "unknown"
  /\ boot \in {"pose", "list"} => at \in CraneIDs
  /\ boot = "finish" => \A i \in 1..configured : i \in CraneIDs /\ aisles[i] # "unknown"

AppInv ==
  /\ generation \in [Ids -> 0..Generations]
  /\ configured \in Ids
  /\ started \in BOOLEAN
  /\ boot \in {"no", "register", "pose", "list", "finish"}
  /\ at \in Ids \cup {NoAisle} /\ (at = NoAisle <=> boot = "no")
  /\ closing \in {"no", "cancelling", "clearing"}
  /\ toCancel \subseteq CraneIDs
  /\ aisles \in [Ids -> {"unknown", "active", "inactive"}]
  /\ CraneIDs \subseteq 1..configured
  /\ \A i \in Ids : aisles[i] # "unknown" => i \in CraneIDs
  /\ started => \A i \in 1..configured : i \in CraneIDs /\ aisles[i] # "unknown"
  /\ BootInv

\* What a step may do to the application and to the registry of services.
AppStep ==
  \/ UNCHANGED <<generation, appVars>>
  \/ Start \/ RegisterCrane \/ PoseCrane \/ ListAisle \/ FinishStart
  \/ Shutdown \/ AllCancelled \/ ClearStarted \/ \E i \in Ids : CancelCrane(i)
  \/ \E i \in Ids, status \in {"active", "inactive"} : SetAisle(i, status)

\* A step of the application leaves its configuration alone.
LEMMA AppCases ==
  ASSUME LifeNext
  PROVE  configured' = configured /\ AppStep
<1>1. configured' = configured
  BY DEF LifeNext, Work, boundVars
<1>2. ASSUME Trigger \/ Reset \/ ControllerStep \/ CallersMove PROVE UNCHANGED generation
  BY <1>2 DEF Trigger, Reset, ControllerStep, CallersMove, AllStopped, ListTriggered,
              AllReleased, StopCrane, GetCrane, ReleaseCrane, IdleCrane, controllerVars
<1> QED
  BY <1>1, <1>2
  DEF LifeNext, AppStep, StartStep, ShutdownStep, CallCancel, controllerVars, appVars

\* Numbers of aisles.
LEMMA AisleFacts ==
  /\ Aisles \in Int /\ Ids = 1..Aisles /\ NoAisle \notin Ids
  /\ \A i \in Ids : i \in Nat /\ i >= 1 /\ 1..i \subseteq Ids
BY LifeAssumption, WarehouseAssumption

\* Ids that are registered stay registered.
LEMMA RegisterFacts ==
  ASSUME generation \in [Ids -> 0..Generations], NEW i \in Ids, Register(i)
  PROVE  /\ generation' \in [Ids -> 0..Generations]
         /\ CraneIDs' = CraneIDs \cup {i}
         /\ generation'[i] = generation[i] + 1
         /\ \A j \in Ids \ {i} : generation'[j] = generation[j]
<1>1. generation[i] \in 0..Generations /\ generation[i] < Generations
  BY DEF Register
<1>2. generation[i] + 1 \in 0..Generations /\ generation[i] + 1 > 0
  BY <1>1, ControllerAssumption
<1> QED
  BY <1>2 DEF Register, CraneIDs

\* The steps of Start and Shutdown, in any order, keep what they promise each other.
LEMMA AppNext == AppInv /\ configured' = configured /\ AppStep => AppInv'
<1> SUFFICES ASSUME AppInv, configured' = configured, AppStep PROVE AppInv'
  OBVIOUS
<1>c. UNCHANGED generation => CraneIDs' = CraneIDs
  BY DEF CraneIDs
<1>1. CASE UNCHANGED <<generation, appVars>>
  BY <1>1, <1>c DEF appVars, AppInv, BootInv
<1>2. CASE Start
  <2>1. /\ boot' = "register" /\ at' = 1 /\ UNCHANGED <<generation, started, aisles, closing, toCancel>>
    BY <1>2 DEF Start, controllerVars
  <2>2. 1 \in Ids /\ configured >= 1 /\ 1..(1 - 1) = {} /\ 1 # NoAisle
    BY AisleFacts DEF AppInv
  <2> QED
    BY <1>c, <2>1, <2>2 DEF AppInv, BootInv
<1>3. CASE RegisterCrane
  <2>1. /\ boot = "register" /\ boot' = "pose" /\ Register(at)
        /\ UNCHANGED <<started, at, aisles, closing, toCancel>>
    BY <1>3 DEF RegisterCrane
  <2>2. at \in Ids /\ at \in 1..configured
    BY <2>1, AisleFacts DEF AppInv, BootInv
  <2>3. CraneIDs' = CraneIDs \cup {at} /\ generation' \in [Ids -> 0..Generations]
    BY <2>1, <2>2, RegisterFacts DEF AppInv
  <2> QED
    BY <2>1, <2>2, <2>3 DEF AppInv, BootInv
<1>4. CASE PoseCrane
  <2>1. /\ boot = "pose" /\ boot' = "list"
        /\ UNCHANGED <<generation, started, at, aisles, closing, toCancel>>
    BY <1>4 DEF PoseCrane, controllerVars
  <2> QED
    BY <1>c, <2>1 DEF AppInv, BootInv
<1>5. CASE ListAisle
  <2>1. /\ boot = "list" /\ aisles' = [aisles EXCEPT ![at] = "active"]
        /\ UNCHANGED <<generation, started, closing, toCancel>>
    BY <1>5 DEF ListAisle, controllerVars
  <2>2. at \in Ids /\ at \in CraneIDs /\ at <= configured /\ configured \in Nat /\ at \in Nat
    BY <2>1, AisleFacts DEF AppInv, BootInv
  <2>3. /\ aisles' \in [Ids -> {"unknown", "active", "inactive"}]
        /\ aisles'[at] = "active" /\ \A i \in Ids \ {at} : aisles'[i] = aisles[i]
    BY <2>1, <2>2 DEF AppInv
  <2>4. \A i \in 1..at : i \in CraneIDs /\ aisles'[i] # "unknown"
    <3> SUFFICES ASSUME NEW i \in 1..at PROVE i \in CraneIDs /\ aisles'[i] # "unknown"
      OBVIOUS
    <3>1. i \in Ids
      BY <2>2, AisleFacts
    <3>2. CASE i = at
      BY <2>2, <2>3, <3>2
    <3>3. CASE i # at
      <4>1. i \in 1..(at - 1)
        BY <2>2, <3>3
      <4> QED
        BY <2>1, <2>3, <3>1, <3>3, <4>1 DEF AppInv, BootInv
    <3> QED
      BY <3>2, <3>3
  <2>5. \A i \in Ids : aisles[i] # "unknown" => aisles'[i] # "unknown"
    BY <2>3
  <2>6. \A i \in Ids : aisles'[i] # "unknown" => i \in CraneIDs
    BY <2>2, <2>3 DEF AppInv
  <2>7. started => \A i \in 1..configured : i \in CraneIDs /\ aisles'[i] # "unknown"
    BY <2>5 DEF AppInv, CraneIDs
  <2>8. CASE at < configured
    <3>1. boot' = "register" /\ at' = at + 1
      BY <1>5, <2>8 DEF ListAisle
    <3>2. at + 1 \in Ids /\ at + 1 <= configured /\ (at + 1) - 1 = at
      BY <2>2, <2>8, AisleFacts DEF AppInv
    <3>3. BootInv'
      BY <1>c, <2>1, <2>4, <3>1, <3>2 DEF BootInv
    <3> QED
      BY <1>c, <2>1, <2>3, <2>6, <2>7, <3>1, <3>2, <3>3, AisleFacts DEF AppInv
  <2>9. CASE ~(at < configured)
    <3>1. boot' = "finish" /\ at' = at
      BY <1>5, <2>9 DEF ListAisle
    <3>2. at = configured
      BY <2>2, <2>9
    <3>3. BootInv'
      BY <1>c, <2>1, <2>4, <3>1, <3>2 DEF BootInv
    <3> QED
      BY <1>c, <2>1, <2>2, <2>3, <2>6, <2>7, <3>1, <3>3, AisleFacts DEF AppInv
  <2> QED
    BY <2>8, <2>9
<1>6. CASE FinishStart
  <2>1. /\ boot = "finish" /\ boot' = "no" /\ at' = NoAisle /\ started' = TRUE
        /\ UNCHANGED <<generation, aisles, closing, toCancel>>
    BY <1>6 DEF FinishStart, controllerVars
  <2>2. \A i \in 1..configured : i \in CraneIDs /\ aisles[i] # "unknown"
    BY <2>1 DEF AppInv, BootInv
  <2>3. BootInv'
    BY <2>1 DEF BootInv
  <2> QED
    BY <1>c, <2>1, <2>2, <2>3 DEF AppInv
<1>7. CASE Shutdown \/ AllCancelled \/ ClearStarted \/ \E i \in Ids : CancelCrane(i)
  <2>1. /\ UNCHANGED <<generation, boot, at, aisles>>
        /\ started' \in {started, FALSE} /\ closing' \in {"no", "cancelling", "clearing"}
        /\ toCancel' \subseteq CraneIDs
    BY <1>7 DEF Shutdown, AllCancelled, ClearStarted, CancelCrane, controllerVars, AppInv
  <2>2. BootInv'
    BY <1>c, <2>1 DEF AppInv, BootInv
  <2>3. CASE started' = started
    BY <1>c, <2>1, <2>2, <2>3 DEF AppInv
  <2>4. CASE started' = FALSE
    BY <1>c, <2>1, <2>2, <2>4 DEF AppInv
  <2> QED
    BY <2>1, <2>3, <2>4
<1>8. ASSUME NEW i \in Ids, NEW status \in {"active", "inactive"}, SetAisle(i, status)
      PROVE  AppInv'
  <2>1. /\ aisles[i] # "unknown" /\ aisles' = [aisles EXCEPT ![i] = status]
        /\ UNCHANGED <<generation, started, boot, at, closing, toCancel>>
    BY <1>8 DEF SetAisle, controllerVars
  <2>2. /\ aisles' \in [Ids -> {"unknown", "active", "inactive"}]
        /\ \A j \in Ids : aisles'[j] # "unknown" <=> aisles[j] # "unknown"
    BY <2>1 DEF AppInv
  <2>3. CraneIDs \subseteq Ids
    BY DEF CraneIDs
  <2>4. BootInv'
    BY <1>c, <2>1, <2>2, <2>3 DEF AppInv, BootInv
  <2> QED
    BY <1>c, <2>1, <2>2, <2>3, <2>4 DEF AppInv
<1> QED
  BY <1>1, <1>2, <1>3, <1>4, <1>5, <1>6, <1>7, <1>8 DEF AppStep

-------------------------------------------------------------------------------
(***************************************************************************)
(* Trigger and Reset.                                                      *)
(***************************************************************************)

\* The service is neither stopped nor does it show an emergency.
Clean(k) == ~eStopActive[k] /\ phase[k] # "emergency"

\* Trigger has stopped, or is still to stop, every service it covers; Reset is
\* at one crane at a time.
StopInv ==
  /\ monitor = active
  /\ step \in {"stopping", "listing"} => active
  /\ step = "releasing" => ~active
  /\ got # {} \/ idling # {} => step = "releasing"
  /\ \A k, l \in got \cup idling : k = l
  /\ step = "stopping" =>
       \A k \in covered : eStopActive[k] \/ (k[1] \in pending /\ k = Get(k[1]))
  /\ step = "listing" \/ (step = "none" /\ active) => \A k \in covered : eStopActive[k]

\* Reset still has crane i to see to.
ToRelease(i) ==
  /\ step = "releasing"
  /\ i \in pending \/ Get(i) \in got \/ (Get(i) \in idling /\ ~eStopActive[Get(i)])

\* Reset has released, or is still to release, every registered crane, and a
\* service nobody has registered yet has never been stopped.
ReleaseInv ==
  /\ step = "none" /\ ~active => triggered = {}
  /\ ~active => \A i \in CraneIDs : Clean(Get(i)) \/ ToRelease(i)
  /\ \A k \in Cranes : k[2] > generation[k[1]] => Clean(k)

ControlTypes ==
  /\ generation \in [Ids -> 0..Generations]
  /\ active \in BOOLEAN /\ monitor \in BOOLEAN
  /\ step \in {"none", "stopping", "listing", "releasing"}
  /\ triggered \subseteq CraneIDs /\ pending \subseteq CraneIDs
  /\ \A k \in covered \cup got \cup idling : k \in Cranes /\ k[2] <= generation[k[1]]
  /\ got = {} \/ idling = {}
  /\ eStopActive \in [Cranes -> BOOLEAN] /\ phase \in [Cranes -> Phases]

ControlInv == ControlTypes /\ StopInv /\ ReleaseInv

\* Nothing outside the controller stops a crane or shows an emergency.
Moves ==
  /\ UNCHANGED eStopActive
  /\ \A k \in Cranes : phase'[k] = phase[k] \/ phase'[k] # "emergency"

\* What a step may do to the controller and to what it has set.
ControlCase ==
  \/ UNCHANGED controllerVars /\ Moves
  \/ Trigger \/ Reset \/ AllStopped \/ ListTriggered \/ AllReleased
  \/ \E i \in Ids : StopCrane(i) \/ GetCrane(i)
  \/ \E k \in Cranes : ReleaseCrane(k) \/ IdleCrane(k)
  \/ at \in Ids /\ Register(at)

\* A caller's step shows no emergency.
LEMMA CallersMoveNoStop ==
  ASSUME ServiceTypeOK, CallersMove
  PROVE  Moves
<1>1. ASSUME NEW c \in Callers, CallerStep(c) PROVE Moves
  <2>0. pc[c] # "ready" => axis(c) \in Axes
    BY StepType DEF ServiceTypeOK, axis
  <2>1. CASE StartMotion(c)
    BY <2>0, <2>1, PhaseForAxisInjective DEF StartMotion, Goto, Moves, ServiceTypeOK
  <2>2. CASE CommitMotion(c)
    BY <2>2 DEF CommitMotion, Moves, ServiceTypeOK
  <2>3. CASE ~StartMotion(c) /\ ~CommitMotion(c)
    BY <1>1, <2>3 DEF CallerStep, CheckMotionAllowed, Install, LockHoist, EnterSelect, MidSelect,
       UnlockHoist, ClearCancel, craneVars, Moves
  <2> QED
    BY <2>1, <2>2, <2>3
<1>2. ASSUME NEW c \in Callers, NEW k, NEW r, Begin(c, k, r) PROVE Moves
  BY <1>2 DEF Begin, craneVars, Moves
<1> QED
  BY <1>1, <1>2 DEF CallersMove

\* What a step may do, as the controller sees it.
LEMMA ControlCases ==
  ASSUME ServiceTypeOK, AppInv, LifeNext
  PROVE  ControlCase
<1>1. CASE CallersMove
  BY <1>1, CallersMoveNoStop DEF CallersMove, ControlCase
<1>2. CASE Trigger \/ Reset \/ ControllerStep
  BY <1>2 DEF ControllerStep, ControlCase
<1>3. CASE RegisterCrane
  BY <1>3 DEF RegisterCrane, ControlCase, AppInv
<1>4. ASSUME \/ Start \/ Shutdown \/ PoseCrane \/ ListAisle \/ FinishStart
             \/ AllCancelled \/ ClearStarted \/ CallCancel \/ \E i \in Ids : CancelCrane(i)
             \/ \E i \in Ids, status \in {"active", "inactive"} : SetAisle(i, status)
      PROVE  UNCHANGED <<controllerVars, eStopActive, phase>>
  BY <1>4 DEF Start, Shutdown, PoseCrane, ListAisle, FinishStart, AllCancelled, ClearStarted,
     CallCancel, CancelCall, CancelCrane, CancelRead, SetAisle, serviceVars, craneVars
<1>5. CASE UNCHANGED <<controllerVars, eStopActive, phase>>
  BY <1>5 DEF ControlCase, Moves
<1> QED
  BY <1>1, <1>2, <1>3, <1>4, <1>5 DEF LifeNext, StartStep, ShutdownStep

\* Trigger covers the services that are registered.
LEMMA TriggerKeeps == ASSUME ControlInv, Trigger PROVE ControlInv'
<1>1. /\ step' = "stopping" /\ active' = TRUE /\ monitor' = TRUE
      /\ pending' = CraneIDs /\ covered' = {Get(i) : i \in CraneIDs}
      /\ step = "none"
      /\ UNCHANGED <<generation, triggered, got, idling, eStopActive, phase>>
  BY DEF Trigger, serviceVars, craneVars
<1>2. CraneIDs' = CraneIDs /\ \A i : Get(i)' = Get(i)
  BY <1>1 DEF CraneIDs, Get
<1>3. \A i \in CraneIDs : /\ Get(i) \in Cranes /\ Get(i)[1] = i
                          /\ Get(i)[2] <= generation[i] /\ i \in Ids
  BY GetFacts, ControllerAssumption DEF ControlInv, ControlTypes
<1>4. got = {} /\ idling = {}
  BY <1>1 DEF ControlInv, StopInv
<1>5. ControlTypes'
  BY <1>1, <1>2, <1>3, <1>4 DEF ControlInv, ControlTypes
<1>6. \A k \in covered' : k[1] \in pending' /\ k = Get(k[1])'
  BY <1>1, <1>2, <1>3
<1>7. StopInv'
  BY <1>1, <1>4, <1>6 DEF StopInv
<1>8. ReleaseInv'
  BY <1>1 DEF ControlInv, ReleaseInv, Clean
<1> QED
  BY <1>5, <1>7, <1>8 DEF ControlInv

\* A crane is stopped while the registry is locked.
LEMMA StopKeeps == ASSUME ControlInv, NEW i \in Ids, StopCrane(i) PROVE ControlInv'
<1>1. /\ step = "stopping" /\ i \in pending /\ pending' = pending \ {i}
      /\ eStopActive' = [eStopActive EXCEPT ![Get(i)] = TRUE]
      /\ phase' = [phase EXCEPT ![Get(i)] = "emergency"]
      /\ UNCHANGED <<generation, active, monitor, triggered, covered, step, got, idling>>
  BY DEF StopCrane, SetEStop, stopVars
<1>2. CraneIDs' = CraneIDs /\ \A j : Get(j)' = Get(j)
  BY <1>1 DEF CraneIDs, Get
<1>3. i \in CraneIDs /\ Get(i) \in Cranes /\ Get(i)[1] = i /\ Get(i)[2] = generation[i]
  BY <1>1, GetFacts DEF ControlInv, ControlTypes
<1>4. /\ eStopActive' \in [Cranes -> BOOLEAN] /\ eStopActive'[Get(i)]
      /\ phase' \in [Cranes -> Phases]
      /\ \A k \in Cranes \ {Get(i)} : eStopActive'[k] = eStopActive[k] /\ phase'[k] = phase[k]
  BY <1>1, <1>3 DEF ControlInv, ControlTypes, Phases
<1>5. ControlTypes'
  BY <1>1, <1>2, <1>4 DEF ControlInv, ControlTypes
<1>6. ASSUME NEW k \in covered
      PROVE  eStopActive'[k] \/ (k[1] \in pending' /\ k = Get(k[1]))
  <2>1. k \in Cranes
    BY DEF ControlInv, ControlTypes
  <2>2. CASE k = Get(i)
    BY <1>4, <2>2
  <2>3. CASE k # Get(i)
    BY <1>1, <1>4, <2>1, <2>3 DEF ControlInv, StopInv
  <2> QED
    BY <2>2, <2>3
<1>7. StopInv'
  BY <1>1, <1>2, <1>6 DEF ControlInv, StopInv
<1>8. \A k \in Cranes : k[2] > generation[k[1]] => k # Get(i)
  <2>1. generation[i] \in Int
    BY <1>3, ControllerAssumption DEF ControlInv, ControlTypes, CraneIDs
  <2> QED
    BY <1>3, <2>1
<1>9. ReleaseInv'
  BY <1>1, <1>4, <1>8 DEF ControlInv, StopInv, ReleaseInv, Clean
<1> QED
  BY <1>5, <1>7, <1>9 DEF ControlInv

\* Reset goes through the cranes it finds registered.
LEMMA ReleaseKeeps ==
  ASSUME ControlInv,
         \/ \E i \in Ids : GetCrane(i)
         \/ \E k \in Cranes : ReleaseCrane(k) \/ IdleCrane(k)
  PROVE  ControlInv'
<1>t. /\ eStopActive \in [Cranes -> BOOLEAN] /\ phase \in [Cranes -> Phases]
      /\ \A i \in CraneIDs : /\ Get(i) \in Cranes /\ Get(i)[1] = i
                             /\ Get(i)[2] <= generation[i] /\ i \in Ids
  BY GetFacts, ControllerAssumption DEF ControlInv, ControlTypes
<1>1. ASSUME NEW i \in Ids, GetCrane(i) PROVE ControlInv'
  <2>1. /\ step = "releasing" /\ got = {} /\ idling = {} /\ i \in pending
        /\ got' = {Get(i)} /\ pending' = pending \ {i}
        /\ UNCHANGED <<generation, active, monitor, triggered, covered, step, idling,
                       eStopActive, phase>>
    BY <1>1 DEF GetCrane, stopVars, serviceVars, craneVars
  <2>2. CraneIDs' = CraneIDs /\ \A j : Get(j)' = Get(j)
    BY <2>1 DEF CraneIDs, Get
  <2>3. i \in CraneIDs
    BY <2>1 DEF ControlInv, ControlTypes
  <2>4. ControlTypes'
    BY <1>t, <2>1, <2>2, <2>3 DEF ControlInv, ControlTypes
  <2>5. StopInv'
    BY <2>1 DEF ControlInv, StopInv
  <2>6. \A j \in CraneIDs : ToRelease(j) => ToRelease(j)'
    BY <2>1, <2>2 DEF ToRelease
  <2>7. ReleaseInv'
    BY <2>1, <2>2, <2>6 DEF ControlInv, ReleaseInv, Clean
  <2> QED
    BY <2>4, <2>5, <2>7 DEF ControlInv
<1>2. ASSUME NEW k \in Cranes, ReleaseCrane(k) PROVE ControlInv'
  <2>1. /\ k \in got /\ got' = {} /\ idling' = {k}
        /\ eStopActive' = [eStopActive EXCEPT ![k] = FALSE]
        /\ UNCHANGED <<generation, active, monitor, triggered, covered, step, pending, phase>>
    BY <1>2 DEF ReleaseCrane, SetEStop, stopVars
  <2>2. CraneIDs' = CraneIDs /\ \A j : Get(j)' = Get(j)
    BY <2>1 DEF CraneIDs, Get
  <2>3. /\ eStopActive' \in [Cranes -> BOOLEAN] /\ ~eStopActive'[k]
        /\ \A l \in Cranes \ {k} : eStopActive'[l] = eStopActive[l]
    BY <1>t, <2>1
  <2>4. step = "releasing" /\ ~active
    BY <2>1 DEF ControlInv, StopInv
  <2>5. ControlTypes'
    BY <2>1, <2>2, <2>3 DEF ControlInv, ControlTypes
  <2>6. StopInv'
    BY <2>1, <2>4 DEF ControlInv, StopInv
  <2>7. ASSUME NEW j \in CraneIDs PROVE (Clean(Get(j)) \/ ToRelease(j))'
    <3>1. CASE Get(j) = k
      BY <2>1, <2>2, <2>3, <2>4, <3>1 DEF ToRelease
    <3>2. CASE Get(j) # k
      <4>1. eStopActive'[Get(j)] = eStopActive[Get(j)] /\ phase'[Get(j)] = phase[Get(j)]
        BY <1>t, <2>1, <2>3, <3>2
      <4>2. Get(j) \notin got /\ idling = {}
        BY <2>1, <3>2, <1>t DEF ControlInv, ControlTypes, StopInv
      <4>3. Clean(Get(j)) \/ j \in pending
        BY <2>4, <4>2 DEF ControlInv, ReleaseInv, ToRelease
      <4> QED
        BY <2>1, <2>2, <2>4, <4>1, <4>3 DEF ToRelease, Clean
    <3> QED
      BY <3>1, <3>2
  <2>8. \A l \in Cranes : Clean(l) => Clean(l)'
    BY <2>1, <2>3 DEF Clean
  <2>9. ReleaseInv'
    BY <2>1, <2>2, <2>4, <2>7, <2>8 DEF ControlInv, ReleaseInv
  <2> QED
    BY <2>5, <2>6, <2>9 DEF ControlInv
<1>3. ASSUME NEW k \in Cranes, IdleCrane(k) PROVE ControlInv'
  <2>1. /\ k \in idling /\ idling' = {} /\ phase' = [phase EXCEPT ![k] = "idle"]
        /\ UNCHANGED <<generation, active, monitor, triggered, covered, step, pending, got, eStopActive>>
    BY <1>3 DEF IdleCrane, SetPhase, stopVars
  <2>2. CraneIDs' = CraneIDs /\ \A j : Get(j)' = Get(j)
    BY <2>1 DEF CraneIDs, Get
  <2>3. /\ phase' \in [Cranes -> Phases] /\ phase'[k] = "idle"
        /\ \A l \in Cranes \ {k} : phase'[l] = phase[l]
    BY <1>t, <2>1 DEF Phases
  <2>4. step = "releasing" /\ ~active
    BY <2>1 DEF ControlInv, StopInv
  <2>5. ControlTypes'
    BY <2>1, <2>2, <2>3 DEF ControlInv, ControlTypes
  <2>6. StopInv'
    BY <2>1, <2>4 DEF ControlInv, StopInv
  <2>7. ASSUME NEW j \in CraneIDs PROVE (Clean(Get(j)) \/ ToRelease(j))'
    <3>1. Clean(Get(j)) \/ ToRelease(j)
      BY <2>4 DEF ControlInv, ReleaseInv
    <3>2. CASE Get(j) = k
      BY <2>1, <2>2, <2>3, <3>1, <3>2 DEF ToRelease, Clean
    <3>3. CASE Get(j) # k
      <4>1. phase'[Get(j)] = phase[Get(j)]
        BY <1>t, <2>3, <3>3
      <4>2. Get(j) \notin idling
        BY <2>1, <3>3 DEF ControlInv, StopInv, ControlTypes, IdleCrane
      <4> QED
        BY <2>1, <2>2, <3>1, <4>1, <4>2 DEF ToRelease, Clean
    <3> QED
      BY <3>2, <3>3
  <2>8. \A l \in Cranes : Clean(l) => Clean(l)'
    BY <2>1, <2>3 DEF Clean
  <2>9. ReleaseInv'
    BY <2>1, <2>2, <2>4, <2>7, <2>8 DEF ControlInv, ReleaseInv
  <2> QED
    BY <2>5, <2>6, <2>9 DEF ControlInv
<1> QED
  BY <1>1, <1>2, <1>3

\* The beginnings and ends of Trigger and Reset that reach no crane.
LEMMA TurnKeeps ==
  ASSUME ControlInv, Reset \/ AllStopped \/ ListTriggered \/ AllReleased
  PROVE  ControlInv'
<1>1. UNCHANGED <<generation, covered, got, idling, eStopActive, phase>>
  BY DEF Reset, AllStopped, ListTriggered, AllReleased, stopVars, serviceVars, craneVars
<1>2. CraneIDs' = CraneIDs /\ \A j : Get(j)' = Get(j) /\ (Clean(Get(j)) <=> Clean(Get(j))')
  BY <1>1 DEF CraneIDs, Get, Clean
<1>3. \A k \in Cranes : k[2] > generation'[k[1]] => Clean(k)'
  BY <1>1 DEF ControlInv, ReleaseInv, Clean
<1>4. CASE Reset
  <2>1. /\ step = "none" /\ step' = "releasing" /\ active' = FALSE /\ monitor' = FALSE
        /\ pending' = CraneIDs /\ triggered' = triggered
    BY <1>4 DEF Reset
  <2>2. ControlTypes' /\ StopInv'
    BY <1>1, <1>2, <2>1 DEF ControlInv, ControlTypes, StopInv
  <2>3. \A j \in CraneIDs : ToRelease(j)'
    BY <2>1 DEF ToRelease
  <2>4. ReleaseInv'
    BY <1>2, <1>3, <2>1, <2>3 DEF ReleaseInv
  <2> QED
    BY <2>2, <2>4 DEF ControlInv
<1>5. CASE AllStopped
  <2>1. /\ step = "stopping" /\ step' = "listing" /\ pending = {} /\ active
        /\ UNCHANGED <<active, monitor, triggered, pending>>
    BY <1>5 DEF AllStopped, stopVars, ControlInv, StopInv
  <2>2. ControlTypes' /\ StopInv'
    BY <1>1, <1>2, <2>1 DEF ControlInv, ControlTypes, StopInv
  <2>3. ReleaseInv'
    BY <1>3, <2>1 DEF ReleaseInv
  <2> QED
    BY <2>2, <2>3 DEF ControlInv
<1>6. CASE ListTriggered
  <2>1. /\ step = "listing" /\ step' = "none" /\ active /\ triggered' = CraneIDs
        /\ UNCHANGED <<active, monitor, pending>>
    BY <1>6 DEF ListTriggered, ControlInv, StopInv
  <2>2. ControlTypes' /\ StopInv'
    BY <1>1, <1>2, <2>1 DEF ControlInv, ControlTypes, StopInv
  <2>3. ReleaseInv'
    BY <1>3, <2>1 DEF ReleaseInv
  <2> QED
    BY <2>2, <2>3 DEF ControlInv
<1>7. CASE AllReleased
  <2>1. /\ step = "releasing" /\ step' = "none" /\ ~active /\ triggered' = {}
        /\ pending = {} /\ got = {} /\ idling = {}
        /\ UNCHANGED <<active, monitor, pending>>
    BY <1>7 DEF AllReleased, ControlInv, StopInv
  <2>2. ControlTypes' /\ StopInv'
    BY <1>1, <1>2, <2>1 DEF ControlInv, ControlTypes, StopInv
  <2>3. \A j \in CraneIDs : Clean(Get(j))
    BY <2>1 DEF ControlInv, ReleaseInv, ToRelease
  <2>4. ReleaseInv'
    BY <1>2, <1>3, <2>1, <2>3 DEF ReleaseInv
  <2> QED
    BY <2>2, <2>4 DEF ControlInv
<1> QED
  BY <1>4, <1>5, <1>6, <1>7

\* A fresh service is not stopped.
LEMMA RegisterKeeps ==
  ASSUME ControlInv, NEW i \in Ids, Register(i)
  PROVE  ControlInv'
<1>1. /\ step # "stopping" /\ UNCHANGED <<active, monitor, triggered, covered, step, pending,
                                          got, idling, eStopActive, phase>>
  BY DEF Register, stopVars, loopVars, serviceVars, craneVars
<1>2. /\ generation' \in [Ids -> 0..Generations] /\ CraneIDs' = CraneIDs \cup {i}
      /\ generation'[i] = generation[i] + 1
      /\ \A j \in Ids \ {i} : generation'[j] = generation[j]
  BY RegisterFacts DEF ControlInv, ControlTypes
<1>3. \A j \in Ids : generation[j] \in Nat /\ generation'[j] >= generation[j]
  BY <1>2, ControllerAssumption DEF ControlInv, ControlTypes
<1>4. \A k \in Cranes : k[1] \in Ids /\ k[2] \in Nat
  BY CraneFacts
<1>5. \A k \in covered \cup got \cup idling : k \in Cranes /\ k[2] <= generation'[k[1]]
  <2> SUFFICES ASSUME NEW k \in covered \cup got \cup idling
               PROVE  k \in Cranes /\ k[2] <= generation'[k[1]]
    OBVIOUS
  <2>1. k \in Cranes /\ k[2] <= generation[k[1]]
    BY DEF ControlInv, ControlTypes
  <2>2. generation[k[1]] \in Nat /\ generation'[k[1]] \in Nat /\ generation'[k[1]] >= generation[k[1]]
    BY <1>2, <1>3, <1>4, <2>1, ControllerAssumption
  <2> QED
    BY <1>4, <2>1, <2>2
<1>6. ControlTypes'
  BY <1>1, <1>2, <1>5 DEF ControlInv, ControlTypes
<1>7. StopInv'
  BY <1>1 DEF ControlInv, StopInv
<1>8. ASSUME NEW k \in Cranes, k[2] > generation'[k[1]] PROVE Clean(k)'
  <2>1. generation[k[1]] \in Nat /\ generation'[k[1]] \in Nat /\ generation'[k[1]] >= generation[k[1]]
    BY <1>2, <1>3, <1>4, ControllerAssumption
  <2>2. k[2] > generation[k[1]]
    BY <1>4, <1>8, <2>1
  <2> QED
    BY <1>1, <2>2 DEF ControlInv, ReleaseInv, Clean
<1>9. ASSUME ~active, NEW j \in CraneIDs' PROVE (Clean(Get(j)) \/ ToRelease(j))'
  <2>1. CASE j = i
    <3>1. Get(i)' \in Cranes /\ Get(i)'[1] = i /\ Get(i)'[2] > generation[i]
      <4>1. generation'[i] \in 1..Generations /\ generation'[i] > generation[i]
        BY <1>2, <1>3, ControllerAssumption
      <4> QED
        BY <4>1, ControllerAssumption DEF Get
    <3>2. Clean(Get(i)')
      BY <3>1 DEF ControlInv, ReleaseInv
    <3> QED
      BY <1>1, <2>1, <3>2 DEF Clean
  <2>2. CASE j # i
    <3>1. j \in CraneIDs /\ Get(j)' = Get(j)
      BY <1>2, <2>2 DEF Get, CraneIDs
    <3>2. Clean(Get(j)) \/ ToRelease(j)
      BY <1>9, <3>1 DEF ControlInv, ReleaseInv
    <3> QED
      BY <1>1, <3>1, <3>2 DEF Clean, ToRelease
  <2> QED
    BY <2>1, <2>2
<1>10. ReleaseInv'
  BY <1>1, <1>8, <1>9 DEF ControlInv, ReleaseInv
<1> QED
  BY <1>6, <1>7, <1>10 DEF ControlInv

\* Steps of everybody else.
LEMMA MovesKeep ==
  ASSUME ControlInv, UNCHANGED controllerVars, Moves, phase' \in [Cranes -> Phases]
  PROVE  ControlInv'
<1>1. UNCHANGED <<generation, active, monitor, triggered, covered, step, pending, got, idling,
                  eStopActive>>
  BY DEF controllerVars, stopVars, loopVars, Moves
<1>2. CraneIDs' = CraneIDs /\ \A j : Get(j)' = Get(j)
  BY <1>1 DEF CraneIDs, Get
<1>3. \A k \in Cranes : Clean(k) => Clean(k)'
  BY <1>1 DEF Clean, Moves
<1>4. \A j \in CraneIDs : Get(j) \in Cranes /\ (ToRelease(j) => ToRelease(j)')
  BY <1>1, <1>2, GetFacts DEF ToRelease, ControlInv, ControlTypes
<1>5. ControlTypes' /\ StopInv'
  BY <1>1, <1>2 DEF ControlInv, ControlTypes, StopInv
<1>6. ReleaseInv'
  BY <1>1, <1>2, <1>3, <1>4 DEF ControlInv, ReleaseInv
<1> QED
  BY <1>5, <1>6 DEF ControlInv

-------------------------------------------------------------------------------
(***************************************************************************)
(* The invariant.                                                          *)
(***************************************************************************)

LifeInv == ServiceTypeOK /\ AppInv /\ ControlInv

\* Every step keeps the invariant.
LEMMA LifeNextInv == LifeInv /\ [LifeNext]_lifeVars => LifeInv'
<1> SUFFICES ASSUME LifeInv, [LifeNext]_lifeVars PROVE LifeInv'
  OBVIOUS
<1>1. CASE UNCHANGED lifeVars
  <2>1. UNCHANGED <<serviceVars, generation, active, monitor, triggered, covered, step, pending,
                    got, idling, started, boot, at, aisles, closing, toCancel, configured,
                    eStopActive, phase>>
    BY <1>1 DEF lifeVars, controllerVars, stopVars, loopVars, appVars, boundVars, serviceVars, craneVars
  <2>2. ServiceTypeOK'
    BY <2>1, NextType DEF LifeInv
  <2>3. AppInv'
    BY <2>1, AppNext DEF LifeInv, AppStep, appVars
  <2>4. ControlInv'
    BY <2>1, <2>2, MovesKeep
    DEF LifeInv, controllerVars, stopVars, loopVars, Moves, ServiceTypeOK
  <2> QED
    BY <2>2, <2>3, <2>4 DEF LifeInv
<1>2. CASE LifeNext
  <2>1. AppInv'
    BY <1>2, AppCases, AppNext DEF LifeInv
  <2>2. ServiceTypeOK'
    <3>t. /\ generation \in [Ids -> 0..Generations] /\ got \subseteq Cranes /\ idling \subseteq Cranes
          /\ pending \subseteq CraneIDs /\ toCancel \subseteq CraneIDs
      BY DEF LifeInv, ControlInv, ControlTypes, AppInv
    <3>1. CASE CallersMove
      BY <3>1, <3>t, CallersType DEF LifeInv
    <3>2. CASE \/ \E i \in Ids : StopCrane(i) \/ CancelCrane(i)
               \/ \E k \in Cranes : ReleaseCrane(k) \/ IdleCrane(k)
               \/ PoseCrane \/ CallCancel
      <4>1. /\ \A i \in Ids : StopCrane(i) \/ CancelCrane(i) => i \in CraneIDs
            /\ PoseCrane => at \in CraneIDs
        BY <3>t DEF StopCrane, CancelCrane, PoseCrane, LifeInv, AppInv, BootInv
      <4> QED
        BY <3>t, <3>2, <4>1, OthersType DEF LifeInv
    <3>3. CASE UNCHANGED serviceVars
      BY <3>3, NextType DEF LifeInv
    <3>4. \/ CallersMove
          \/ \E i \in Ids : StopCrane(i) \/ CancelCrane(i)
          \/ \E k \in Cranes : ReleaseCrane(k) \/ IdleCrane(k)
          \/ PoseCrane \/ CallCancel \/ UNCHANGED serviceVars
      BY <1>2 DEF LifeNext, StartStep, ShutdownStep, ControllerStep, Start, Shutdown, Trigger,
         Reset, SetAisle, RegisterCrane, Register, ListAisle, FinishStart, AllCancelled,
         ClearStarted, AllStopped, ListTriggered, AllReleased, GetCrane
    <3> QED
      BY <3>1, <3>2, <3>3, <3>4
  <2>3. ControlInv'
    <3>1. ControlCase
      BY <1>2, ControlCases DEF LifeInv
    <3>2. phase' \in [Cranes -> Phases]
      BY <2>2 DEF ServiceTypeOK
    <3> QED
      BY <3>1, <3>2, TriggerKeeps, StopKeeps, ReleaseKeeps, TurnKeeps, RegisterKeeps, MovesKeep
      DEF ControlCase, LifeInv
  <2> QED
    BY <2>1, <2>2, <2>3 DEF LifeInv
<1> QED
  BY <1>1, <1>2

\* Before the first Start nothing is registered, listed or stopped.
LEMMA LifeInitInv == LifeInit => LifeInv
<1> SUFFICES ASSUME LifeInit PROVE LifeInv
  OBVIOUS
<1>1. ServiceTypeOK
  BY InitType DEF LifeInit, ControllerInit
<1>2. generation \in [Ids -> 0..Generations] /\ CraneIDs = {}
  BY ControllerAssumption DEF LifeInit, ControllerInit, CraneIDs
<1>3. AppInv
  BY <1>2, LifeAssumption DEF LifeInit, AppInv, BootInv
<1>4. /\ \A k \in Cranes : Clean(k)
      /\ eStopActive \in [Cranes -> BOOLEAN] /\ phase \in [Cranes -> Phases]
  BY DEF LifeInit, ControllerInit, ServiceInit, ServiceInitAt, Clean, Phases
<1>5. ControlInv
  BY <1>2, <1>4
  DEF LifeInit, ControllerInit, ControlInv, ControlTypes, StopInv, ReleaseInv
<1> QED
  BY <1>1, <1>3, <1>5 DEF LifeInv

\* What Start, Shutdown, Trigger, Reset and the callers keep between them.
THEOREM LifeInvAlways == LifeSpec => []LifeInv
BY LifeInitInv, LifeNextInv, PTL DEF LifeSpec

\* The application counts as started only with every configured crane registered
\* and every aisle listed, however Start and Shutdown overlap (app.go).
THEOREM LifeTypes == LifeSpec => []LifeTypeOK
<1>1. LifeInv => LifeTypeOK
  <2> SUFFICES ASSUME LifeInv PROVE LifeTypeOK
    OBVIOUS
  <2>1. ControllerTypeOK
    BY DEF LifeInv, ControlInv, ControlTypes, ControllerTypeOK
  <2>2. started => CraneIDs = 1..configured
    BY DEF LifeInv, AppInv
  <2> QED
    BY <2>1, <2>2 DEF LifeInv, AppInv, LifeTypeOK
<1> QED
  BY <1>1, LifeInvAlways, PTL

\* When Trigger has returned every service it found registered is stopped, until
\* Reset is called, whatever is registered meanwhile (safety/estop.go).
THEOREM StopCompleteAlways == LifeSpec => []StopComplete
<1>1. LifeInv => StopComplete
  BY DEF LifeInv, ControlInv, StopInv, StopComplete
<1> QED
  BY <1>1, LifeInvAlways, PTL

\* When Reset has returned no registered crane is stopped or shows an emergency
\* (safety/estop.go).
THEOREM ReleaseCompleteAlways == LifeSpec => []ReleaseComplete
<1>1. LifeInv => ReleaseComplete
  BY DEF LifeInv, ControlInv, StopInv, ReleaseInv, ToRelease, Clean, ReleaseComplete
<1> QED
  BY <1>1, LifeInvAlways, PTL

-------------------------------------------------------------------------------
(***************************************************************************)
(* Where the cranes of the listed aisles stand.                            *)
(***************************************************************************)

\* A planned route ends travel and hoist at a cell, and no cell is at the origin.
NoRouteToOrigin ==
  \A r \in Routes : \A n \in 1..Len(r) : r[n].axis \in {"travel", "hoist"} => r[n].to # 0

Placed(k) == mm[k]["travel"] # 0 /\ mm[k]["hoist"] # 0

\* Neither travel nor hoist is on its way to the origin.
Bound(r) == \A n \in 1..Len(r) : r[n].axis \in {"travel", "hoist"} => r[n].to # 0

\* The first service of an id is placed before its aisle is listed.
PlacedInv ==
  /\ \A i \in Ids : aisles[i] # "unknown" /\ generation[i] = 1 => Placed(<<i, 1>>)
  /\ boot = "list" /\ generation[at] = 1 => Placed(<<at, 1>>)
  /\ \A c \in Callers : Bound(route[c])

\* What is left of a route goes where the route goes.
LEMMA BoundFacts ==
  ASSUME NEW r \in Seq(MotionStep), r # << >>, Bound(r)
  PROVE  /\ Head(r).axis \in {"travel", "hoist"} => Head(r).to # 0
         /\ Bound(Tail(r))
<1>1. Head(r) = r[1] /\ 1 \in 1..Len(r)
  BY HeadTailProperties, EmptySeq, LenProperties
<1>2. /\ Len(Tail(r)) = Len(r) - 1 /\ Len(r) \in Nat
      /\ \A n \in 1..(Len(r) - 1) : Tail(r)[n] = r[n + 1] /\ n + 1 \in 1..Len(r)
  BY HeadTailProperties, LenProperties
<1> QED
  BY <1>1, <1>2 DEF Bound

\* Homes are cells.
LEMMA HomePlaced ==
  ASSUME NEW i \in Ids
  PROVE  LocationToPosition(CraneHome(i))["travel"] # 0 /\ LocationToPosition(CraneHome(i))["hoist"] # 0
<1>1. BayPitch \in Int /\ LevelPitch \in Int /\ BayPitch > 0 /\ LevelPitch > 0
  BY WarehouseAssumption DEF Validate
<1>2. /\ LocationToPosition(CraneHome(i))["travel"] = 1 * BayPitch
      /\ LocationToPosition(CraneHome(i))["hoist"] = 1 * LevelPitch
  BY DEF LocationToPosition, CraneHome, Axes
<1> QED
  BY <1>1, <1>2

\* Callers take no crane to the origin.
LEMMA CallersPlace ==
  ASSUME ServiceTypeOK, NoRouteToOrigin, CallersMove, \A c \in Callers : Bound(route[c])
  PROVE  /\ \A k \in Cranes : Placed(k) => Placed(k)'
         /\ \A c \in Callers : Bound(route[c])'
<1>1. ASSUME NEW c \in Callers, NEW i, NEW r \in Routes, Begin(c, Get(i), r)
      PROVE  UNCHANGED mm /\ \A d \in Callers : Bound(route[d])'
  <2>1. UNCHANGED mm /\ route' = [route EXCEPT ![c] = r]
    BY <1>1 DEF Begin, craneVars
  <2>2. Bound(r)
    BY DEF NoRouteToOrigin, Bound
  <2>3. \A d \in Callers : route'[d] = IF d = c THEN r ELSE route[d]
    BY <2>1 DEF ServiceTypeOK
  <2> QED
    BY <2>1, <2>2, <2>3 DEF Bound
<1>2. ASSUME NEW c \in Callers, CallerStep(c)
      PROVE  /\ \A k \in Cranes : Placed(k) => Placed(k)'
             /\ \A d \in Callers : Bound(route[d])'
  <2>0. Bound(<< >>)
    BY DEF Bound
  <2>r. route \in [Callers -> Seq(MotionStep)] /\ mm \in [Cranes -> [Axes -> Positions]]
    BY DEF ServiceTypeOK
  <2>1. CASE CommitMotion(c)
    <3>1. /\ mm' = [mm EXCEPT ![crane[c]][axis(c)] = Head(route[c]).to] /\ UNCHANGED route
          /\ route[c] # << >>
      BY <2>1 DEF CommitMotion, Goto, ServiceTypeOK
    <3>2. axis(c) \in {"travel", "hoist"} => Head(route[c]).to # 0
      BY <3>1, <2>r, BoundFacts DEF axis
    <3>3. ASSUME NEW k \in Cranes, NEW a \in {"travel", "hoist"}, mm[k][a] # 0 PROVE mm'[k][a] # 0
      BY <3>1, <3>2, <3>3, <2>r DEF Axes
    <3> QED
      BY <3>1, <3>3 DEF Placed, Bound
  <2>2. CASE CheckMotionAllowed(c) \/ ClearCancel(c)
    <3>1. UNCHANGED mm
      BY <2>2 DEF CheckMotionAllowed, ClearCancel, craneVars
    <3>2. /\ route' = [route EXCEPT ![c] = route'[c]]
          /\ route'[c] \in {route[c], << >>, Tail(route[c])} /\ route[c] # << >>
      BY <2>2, <2>r DEF CheckMotionAllowed, ClearCancel, Goto, ServiceTypeOK
    <3>3. Bound(route'[c])
      BY <3>2, <2>0, <2>r, BoundFacts
    <3>4. \A d \in Callers \ {c} : route'[d] = route[d]
      BY <3>2, <2>r
    <3> QED
      BY <3>1, <3>3, <3>4 DEF Placed, Bound
  <2>3. CASE ~CommitMotion(c) /\ ~CheckMotionAllowed(c) /\ ~ClearCancel(c)
    <3>1. UNCHANGED <<mm, route>>
      BY <1>2, <2>3 DEF CallerStep, Install, LockHoist, EnterSelect, StartMotion, MidSelect,
         UnlockHoist, craneVars
    <3> QED
      BY <3>1 DEF Placed, Bound
  <2> QED
    BY <2>1, <2>2, <2>3
<1> QED
  BY <1>1, <1>2 DEF CallersMove, Placed

\* Every step keeps the places.
LEMMA PlacedNext ==
  ASSUME NoRouteToOrigin, LifeInv, PlacedInv, [LifeNext]_lifeVars
  PROVE  PlacedInv'
<1>t. /\ generation \in [Ids -> 0..Generations] /\ AppInv /\ ServiceTypeOK
      /\ \A i \in Ids : generation[i] = 1 => <<i, 1>> \in Cranes
  BY ControllerAssumption DEF LifeInv, AppInv
<1>1. CASE CallersMove /\ UNCHANGED appVars
  <2>1. UNCHANGED <<generation, aisles, boot, at>>
    BY <1>1 DEF CallersMove, controllerVars, appVars
  <2>2. /\ \A k \in Cranes : Placed(k) => Placed(k)'
        /\ \A c \in Callers : Bound(route[c])'
    BY <1>1, <1>t, CallersPlace DEF PlacedInv
  <2>3. boot = "list" => at \in Ids
    BY <1>t DEF AppInv, BootInv, CraneIDs
  <2> QED
    BY <1>t, <2>1, <2>2, <2>3 DEF PlacedInv
<1>2. CASE PoseCrane
  <2>1. /\ mm' = [mm EXCEPT ![Get(at)] = LocationToPosition(CraneHome(at))]
        /\ UNCHANGED <<generation, aisles, at, route>>
    BY <1>2 DEF PoseCrane, callVars, controllerVars
  <2>2. at \in CraneIDs /\ at \in Ids /\ Get(at) \in Cranes
    BY <1>2, <1>t, GetFacts DEF PoseCrane, AppInv, BootInv
  <2>3. Placed(Get(at))' /\ \A k \in Cranes : Placed(k) => Placed(k)'
    <3>1. \A k \in Cranes : mm'[k] = IF k = Get(at) THEN LocationToPosition(CraneHome(at)) ELSE mm[k]
      BY <2>1, <1>t DEF ServiceTypeOK
    <3>2. Get(at)' = Get(at)
      BY <2>1 DEF Get
    <3> QED
      BY <2>2, <3>1, <3>2, HomePlaced DEF Placed
  <2> QED
    BY <1>t, <2>1, <2>2, <2>3 DEF PlacedInv, Get, Bound
<1>3. CASE RegisterCrane
  <2>1. /\ boot' = "pose" /\ at \in Ids /\ Register(at) /\ UNCHANGED <<mm, route, aisles>>
    BY <1>3, <1>t DEF RegisterCrane, Register, serviceVars, craneVars, callVars, AppInv
  <2>2. \A i \in Ids : aisles[i] # "unknown" /\ generation'[i] = 1 => generation[i] = 1
    BY <1>t, <2>1, RegisterFacts, ControllerAssumption DEF AppInv, CraneIDs
  <2> QED
    BY <2>1, <2>2 DEF PlacedInv, Placed, Bound
<1>4. CASE ListAisle
  <2>1. /\ boot = "list" /\ boot' \in {"register", "finish"}
        /\ aisles' = [aisles EXCEPT ![at] = "active"]
        /\ UNCHANGED <<mm, route, generation>>
    BY <1>4 DEF ListAisle, serviceVars, craneVars, callVars, controllerVars
  <2>2. \A i \in Ids \ {at} : aisles'[i] = aisles[i]
    BY <1>t, <2>1 DEF AppInv
  <2> QED
    BY <2>1, <2>2 DEF PlacedInv, Placed, Bound
<1>5. ASSUME NEW i \in Ids, NEW status, SetAisle(i, status) PROVE PlacedInv'
  <2>1. /\ aisles[i] # "unknown" /\ aisles' = [aisles EXCEPT ![i] = status]
        /\ UNCHANGED <<mm, route, generation, boot, at>>
    BY <1>5 DEF SetAisle, serviceVars, craneVars, callVars, controllerVars
  <2>2. \A j \in Ids : aisles'[j] # "unknown" => aisles[j] # "unknown"
    BY <1>t, <2>1 DEF AppInv
  <2> QED
    BY <2>1, <2>2 DEF PlacedInv, Placed, Bound
<1>6. CASE UNCHANGED <<mm, route, generation, aisles>> /\ (boot' = "list" => UNCHANGED <<boot, at>>)
  BY <1>6 DEF PlacedInv, Placed, Bound
<1>7. \/ CallersMove /\ UNCHANGED appVars
      \/ PoseCrane \/ RegisterCrane \/ ListAisle
      \/ \E i \in Ids, status \in {"active", "inactive"} : SetAisle(i, status)
      \/ UNCHANGED <<mm, route, generation, aisles>> /\ (boot' = "list" => UNCHANGED <<boot, at>>)
  <2>1. ASSUME \/ Trigger \/ Reset \/ ControllerStep
        PROVE  UNCHANGED <<mm, route, generation>>
    BY <2>1 DEF Trigger, Reset, ControllerStep, AllStopped, ListTriggered, AllReleased, StopCrane,
       GetCrane, ReleaseCrane, IdleCrane, SetEStop, SetPhase, serviceVars, craneVars, callVars
  <2>2. ASSUME \/ Start \/ FinishStart \/ Shutdown \/ AllCancelled \/ ClearStarted
               \/ CallCancel \/ \E i \in Ids : CancelCrane(i)
        PROVE  UNCHANGED <<mm, route, generation, aisles>> /\ (boot' = "list" => UNCHANGED <<boot, at>>)
    BY <2>2 DEF Start, FinishStart, Shutdown, AllCancelled, ClearStarted, CallCancel,
       CancelCall, CancelCrane, CancelRead, serviceVars, craneVars, callVars, controllerVars,
       appVars
  <2>3. CASE UNCHANGED lifeVars
    BY <2>3 DEF lifeVars, serviceVars, craneVars, callVars, controllerVars, appVars
  <2>4. CASE LifeNext
    BY <2>1, <2>2, <2>4 DEF LifeNext, StartStep, ShutdownStep, appVars
  <2> QED
    BY <2>3, <2>4
<1> QED
  BY <1>1, <1>2, <1>3, <1>4, <1>5, <1>6, <1>7

\* A client that goes through the aisle registry finds no crane at the origin
\* before the application is started again (App.Start lists an aisle last).
THEOREM ListedCranePlaced ==
  ASSUME NoRouteToOrigin
  PROVE  LifeSpec => []AisleCranePlaced
<1>1. LifeInit => PlacedInv
  BY DEF LifeInit, ControllerInit, ServiceInit, ServiceInitAt, PlacedInv, Bound
<1>2. LifeInv /\ PlacedInv /\ [LifeNext]_lifeVars => PlacedInv'
  BY PlacedNext
<1>3. PlacedInv => AisleCranePlaced
  <2> SUFFICES ASSUME PlacedInv, NEW i \in Ids, NEW k \in CraneForAisle(i), k[2] = 1
               PROVE  mm[k]["travel"] # 0 /\ mm[k]["hoist"] # 0
    BY DEF AisleCranePlaced
  <2>1. aisles[i] = "active" /\ k = <<i, generation[i]>>
    BY DEF CraneForAisle, Get
  <2>2. generation[i] = 1 /\ k = <<i, 1>>
    BY <2>1
  <2> QED
    BY <2>1, <2>2 DEF PlacedInv, Placed
<1> QED
  BY <1>1, <1>2, <1>3, LifeInvAlways, PTL DEF LifeSpec

-------------------------------------------------------------------------------
(***************************************************************************)
(* What calls leave behind on the services.                                *)
(***************************************************************************)

\* What a step does to calls, phases and progress of the services.
LEMMA LifeGoesOn ==
  ASSUME LifeInv, [LifeNext]_lifeVars
  PROVE  CallsGoOn /\ ProgressGoesOn
<1>1. ASSUME UNCHANGED serviceVars PROVE CallsGoOn /\ ProgressGoesOn
  BY <1>1 DEF CallsGoOn, ProgressGoesOn, serviceVars, craneVars, lockVars, callVars
<1>2. CASE CallersMove
  <2>1. ASSUME NEW c \in Callers, CallerStep(c) PROVE CallsGoOn /\ ProgressGoesOn
    BY <2>1 DEF CallsGoOn, ProgressGoesOn
  <2>2. ASSUME NEW c \in Callers, NEW i \in CraneIDs, NEW r \in Routes, Begin(c, Get(i), r)
        PROVE  CallsGoOn /\ ProgressGoesOn
    <3>1. Get(i) \in Cranes
      BY GetFacts DEF LifeInv, AppInv
    <3>2. r \in Seq(MotionStep) /\ r # << >>
      BY ServiceAssumption
    <3>3. CallsGoOn
      BY <2>2, <3>1, <3>2 DEF CallsGoOn
    <3>4. UNCHANGED <<phase, complete>>
      BY <2>2 DEF Begin, craneVars
    <3> QED
      BY <3>3, <3>4 DEF ProgressGoesOn
  <2> QED
    BY <1>2, <2>1, <2>2 DEF CallersMove
<1>3. ASSUME NEW k \in Cranes, NEW b \in BOOLEAN, SetEStop(k, b)
      PROVE  CallsGoOn /\ ProgressGoesOn
  BY <1>3 DEF CallsGoOn, ProgressGoesOn, SetEStop, lockVars, callVars
<1>4. ASSUME NEW i \in Ids, StopCrane(i) PROVE CallsGoOn /\ ProgressGoesOn
  <2>1. Get(i) \in Cranes /\ SetEStop(Get(i), TRUE)
    BY <1>4, GetFacts DEF StopCrane, LifeInv, AppInv, ControlInv, ControlTypes
  <2> QED
    BY <1>3, <2>1
<1>5. ASSUME NEW k \in Cranes, ReleaseCrane(k) PROVE CallsGoOn /\ ProgressGoesOn
  BY <1>3, <1>5 DEF ReleaseCrane
<1>6. ASSUME NEW k \in Cranes, IdleCrane(k) PROVE CallsGoOn /\ ProgressGoesOn
  <2>1. SetPhase(k, "idle") /\ "idle" \in Phases /\ \A a \in Axes : PhaseForAxis(a) # "idle"
    BY <1>6, PhaseForAxisInjective DEF IdleCrane, Phases
  <2>2. CallsGoOn
    BY <2>1 DEF CallsGoOn, SetPhase, lockVars, callVars
  <2> QED
    BY <2>1, <2>2 DEF ProgressGoesOn
<1>7. CASE PoseCrane \/ CallCancel \/ \E i \in Ids : CancelCrane(i)
  BY <1>7 DEF PoseCrane, CallCancel, CancelCall, CancelCrane, CancelRead, CallsGoOn,
     ProgressGoesOn, craneVars, lockVars, callVars
<1>8. \/ CallersMove
      \/ \E i \in Ids : StopCrane(i) \/ CancelCrane(i)
      \/ \E k \in Cranes : ReleaseCrane(k) \/ IdleCrane(k)
      \/ PoseCrane \/ CallCancel \/ UNCHANGED serviceVars
  BY DEF LifeNext, StartStep, ShutdownStep, ControllerStep, Start, Shutdown, Trigger,
     Reset, SetAisle, RegisterCrane, Register, ListAisle, FinishStart, AllCancelled,
     ClearStarted, AllStopped, ListTriggered, AllReleased, GetCrane, lifeVars
<1> QED
  BY <1>1, <1>2, <1>4, <1>5, <1>6, <1>7, <1>8

\* Across Start, Shutdown, a second Start, Trigger and Reset, on every service,
\* replaced or not: no cancel function of a finished call stays registered for
\* Shutdown or the next MoveAxis to find; every locked hoist has a motion that
\* will unlock it; and a crane that shows an axis in motion has that axis
\* incomplete.
THEOREM LifeLeavesNothing ==
  LifeSpec => [](CancelFnLive /\ HoistLockOwned /\ PhaseMatchesProgress)
<1>1. LifeInit => CallInv /\ PhaseMatchesProgress
  BY InitType, CallInit, ProgressInit DEF LifeInit, ControllerInit, ServiceInit
<1>2. LifeInv /\ CallInv /\ PhaseMatchesProgress /\ [LifeNext]_lifeVars
        => CallInv' /\ PhaseMatchesProgress'
  <2> SUFFICES ASSUME LifeInv, CallInv, PhaseMatchesProgress, [LifeNext]_lifeVars
               PROVE  CallInv' /\ PhaseMatchesProgress'
    OBVIOUS
  <2>1. ServiceTypeOK /\ ServiceTypeOK'
    BY LifeNextInv DEF LifeInv
  <2>2. CallsGoOn /\ ProgressGoesOn
    BY LifeGoesOn
  <2> QED
    BY <2>1, <2>2, CallNext, ProgressNext
<1>3. CallInv => CancelFnLive /\ HoistLockOwned
  BY DEF CallInv, HoistInv
<1> QED
  BY <1>1, <1>2, <1>3, LifeInvAlways, PTL DEF LifeSpec
================================================================================

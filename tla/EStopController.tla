---------------------------- MODULE EStopController ----------------------------
(***************************************************************************)
(* internal/safety.EStopController over the Coordinator's registry, which   *)
(* maps crane ids to services and gets a fresh service whenever an id is    *)
(* registered.  Trigger and Reset exclude each other (the controller's      *)
(* mutex is held all the way), but they reach one crane after another while *)
(* callers move the cranes and, between two readings of the registry,       *)
(* services are registered.  The controller is the only one here that sets  *)
(* stops and phases.                                                       *)
(***************************************************************************)
EXTENDS CraneService

CONSTANTS
  Ids,         \* crane ids
  Generations  \* bound: services an id is given, one after the other

\* A service is named by its id and by which of the id's services it is.
ASSUME ControllerAssumption ==
  Generations \in Nat \ {0} /\ Cranes = Ids \X (1..Generations)

VARIABLES
  generation,  \* Coordinator.cranes: the service of each id, 0 for none
  active,      \* EStopController.active
  monitor,     \* Monitor.estop
  triggered,   \* EStopController.triggered
  step,        \* what the holder of the controller's mutex is doing
  pending,     \* the ids it still has to reach
  got,         \* Reset: the service it holds, its stop not yet released ...
  idling,      \* ... or released and not yet set to idle
  covered      \* ghost: the services registered when the stop was triggered

loopVars == <<step, pending, got, idling>>
stopVars == <<active, monitor, triggered, covered>>
controllerVars == <<generation, stopVars, loopVars>>

\* Coordinator.Get, of a registered id.
Get(i) == <<i, generation[i]>>

CraneIDs == {i \in Ids : generation[i] > 0}

ControllerInit ==
  /\ ServiceInit
  /\ generation = [i \in Ids |-> 0]
  /\ active = FALSE /\ monitor = FALSE
  /\ triggered = {} /\ covered = {}
  /\ step = "none" /\ pending = {} /\ got = {} /\ idling = {}

\* Trigger locks the controller and, in SetEStopAll, the registry: no service
\* is registered before the last one there is stopped.
Trigger ==
  /\ step = "none" /\ step' = "stopping"
  /\ active' = TRUE /\ monitor' = TRUE
  /\ pending' = CraneIDs
  /\ covered' = {Get(i) : i \in CraneIDs}
  /\ UNCHANGED <<serviceVars, generation, triggered, got, idling>>

StopCrane(i) ==
  /\ step = "stopping"
  /\ i \in pending
  /\ SetEStop(Get(i), TRUE)
  /\ pending' = pending \ {i}
  /\ UNCHANGED <<generation, stopVars, step, got, idling>>

\* Mutant: the loop over the cranes may end before the last of them.
AllStopped_Early ==
  /\ step = "stopping" /\ step' = "listing"
  /\ pending' = {}
  /\ UNCHANGED <<serviceVars, generation, stopVars, got, idling>>

\* SetEStopAll returns and releases the registry.
AllStopped ==
  /\ step = "stopping" /\ step' = "listing"
  /\ pending = {}
  /\ UNCHANGED <<serviceVars, generation, stopVars, pending, got, idling>>

\* The registry is read again for the list of triggered cranes.
ListTriggered ==
  /\ step = "listing" /\ step' = "none"
  /\ triggered' = CraneIDs
  /\ UNCHANGED <<serviceVars, generation, active, monitor, covered, pending, got, idling>>

\* Reset goes through a copy of the list of ids ...
Reset ==
  /\ step = "none" /\ step' = "releasing"
  /\ active' = FALSE /\ monitor' = FALSE
  /\ pending' = CraneIDs
  /\ UNCHANGED <<serviceVars, generation, triggered, covered, got, idling>>

\* ... and looks each of them up for the service it has by now.
GetCrane(i) ==
  /\ step = "releasing"
  /\ got = {} /\ idling = {} /\ i \in pending
  /\ got' = {Get(i)}
  /\ pending' = pending \ {i}
  /\ UNCHANGED <<serviceVars, generation, stopVars, step, idling>>

\* Mutant: a crane whose phase is no longer the emergency is passed over.
ReleaseCrane_IfShown(k) ==
  /\ k \in got
  /\ SetEStop(k, eStopActive[k] /\ phase[k] # "emergency")
  /\ got' = {} /\ idling' = {k}
  /\ UNCHANGED <<generation, stopVars, step, pending>>

\* The stop of a crane comes off ...
ReleaseCrane(k) ==
  /\ k \in got
  /\ SetEStop(k, FALSE)
  /\ got' = {} /\ idling' = {k}
  /\ UNCHANGED <<generation, stopVars, step, pending>>

\* ... and in a second critical section its phase goes to idle.
IdleCrane(k) ==
  /\ k \in idling
  /\ SetPhase(k, "idle")
  /\ idling' = {}
  /\ UNCHANGED <<generation, stopVars, step, pending, got>>

AllReleased ==
  /\ step = "releasing" /\ step' = "none"
  /\ pending = {} /\ got = {} /\ idling = {}
  /\ triggered' = {}
  /\ UNCHANGED <<serviceVars, generation, active, monitor, covered, pending, got, idling>>

\* Coordinator.Register: a fresh service replaces the one the id had, which is
\* left as it is.
Register(i) ==
  /\ step # "stopping"
  /\ generation[i] < Generations
  /\ generation' = [generation EXCEPT ![i] = @ + 1]
  /\ UNCHANGED <<serviceVars, stopVars, loopVars>>

ControllerStep ==
  \/ AllStopped \/ ListTriggered \/ AllReleased
  \/ \E i \in Ids : StopCrane(i) \/ GetCrane(i)
  \/ \E k \in Cranes : ReleaseCrane(k) \/ IdleCrane(k)

\* Callers find a service in the registry and go on with it to the end of
\* their route, replaced or not.  (Cancelled contexts: see CraneService.)
CallersMove ==
  /\ \E c \in Callers :
       \/ \E i \in CraneIDs, r \in Routes : Begin(c, Get(i), r)
       \/ CallerStep(c)
  /\ UNCHANGED controllerVars

-------------------------------------------------------------------------------
\* Types; the controller works on registered ids, and on one crane at a time.
ControllerTypeOK ==
  /\ ServiceTypeOK
  /\ generation \in [Ids -> 0..Generations]
  /\ active \in BOOLEAN /\ monitor \in BOOLEAN
  /\ step \in {"none", "stopping", "listing", "releasing"}
  /\ triggered \subseteq CraneIDs /\ pending \subseteq CraneIDs
  /\ \A k \in covered \cup got \cup idling : k \in Cranes /\ k[2] <= generation[k[1]]
  /\ got = {} \/ idling = {}

\* Once Trigger has returned, and until Reset is called, every service that was
\* registered when it was called is stopped, replaced meanwhile or not, and
\* controller and monitor agree.
StopComplete ==
  step = "none" /\ active => monitor /\ \A k \in covered : eStopActive[k]

\* Once Reset has returned no registered crane is stopped or shows an emergency,
\* whichever motions ended and services were replaced in between.
ReleaseComplete ==
  step = "none" /\ ~active =>
    /\ ~monitor /\ triggered = {}
    /\ \A i \in CraneIDs : ~eStopActive[Get(i)] /\ phase[Get(i)] # "emergency"
================================================================================

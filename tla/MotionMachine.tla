----------------------------- MODULE MotionMachine -----------------------------
(***************************************************************************)
(* internal/fsm.MotionMachine with the effects the application registers   *)
(* (MotionSideEffects).  A firer commits the machine's phase under the     *)
(* machine's mutex, releases it, and only then applies the effects to the  *)
(* crane's service, one critical section of the service at a time; callers *)
(* keep moving the cranes meanwhile.  The machine is the only client of    *)
(* the service here.  The dwell tick it keeps per crane is left out: no    *)
(* code reads it.                                                          *)
(***************************************************************************)
EXTENDS CraneService

CONSTANTS
  Firers,         \* goroutines that fire events or request transitions
  MachineIds,     \* the crane ids they use
  ForcedTargets   \* the phases they request with Force

ASSUME MachineAssumption ==
  /\ Firers \subseteq Cancellers
  /\ Cranes \subseteq MachineIds     \* the others are not registered
  /\ ForcedTargets \subseteq Phases

VARIABLES
  machine,  \* MotionMachine.phases; an id it has not seen is idle
  todo,     \* the effects a firer still has to apply
  target,   \* the crane it applies them to
  latched,  \* ghost: the crane left an emergency for something else than idle
  driven    \* ghost: the cranes whose phase a motion was the last to set

machineVars == <<machine, todo, target, latched, driven>>
allVars == <<serviceVars, machineVars>>

\* The critical sections an effect is made of.
Stop(on) == [do |-> "estop", arg |-> on]
Show(p)  == [do |-> "phase", arg |-> p]
CancelMotion == << [do |-> "read", arg |-> TRUE], [do |-> "call", arg |-> TRUE] >>

\* Mutant: an emergency only cancels the motion.
MotionSideEffects_NoStop(from, to) ==
  CASE to \in {"traveling", "hoisting", "forking"} -> << Show(to) >>
    [] to = "emergency" -> CancelMotion
    [] to = "idle" ->
         (IF from = "emergency" THEN << Stop(FALSE) >> ELSE << >>) \o << Show("idle") >>
    [] to = "fault" -> CancelMotion \o << Show("fault") >>
    [] OTHER -> << >>

\* Mutant: a fault is cancelled but not shown.
MotionSideEffects_HiddenFault(from, to) ==
  CASE to \in {"traveling", "hoisting", "forking"} -> << Show(to) >>
    [] to = "emergency" -> << Stop(TRUE) >> \o CancelMotion
    [] to = "idle" ->
         (IF from = "emergency" THEN << Stop(FALSE) >> ELSE << >>) \o << Show("idle") >>
    [] to = "fault" -> CancelMotion
    [] OTHER -> << >>

\* MotionSideEffects: what a transition asks of the service, in order.  (The
\* error it may return on leaving dwell comes after all of it and undoes nothing.)
MotionSideEffects(from, to) ==
  CASE to \in {"traveling", "hoisting", "forking"} -> << Show(to) >>
    [] to = "emergency" -> << Stop(TRUE) >> \o CancelMotion
    [] to = "idle" ->
         (IF from = "emergency" THEN << Stop(FALSE) >> ELSE << >>) \o << Show("idle") >>
    [] to = "fault" -> CancelMotion \o << Show("fault") >>
    [] OTHER -> << >>

MachineInit ==
  /\ ServiceInit
  /\ machine = [id \in MachineIds |-> "idle"]
  /\ todo = [f \in Firers |-> << >>]
  /\ target \in [Firers -> Cranes]
  /\ latched = [k \in Cranes |-> FALSE]
  /\ driven = {}

\* The machine goes to phase "to"; the effects of an unregistered crane fail
\* with the machine's phase already changed.
Enter(f, id, to) ==
  /\ todo[f] = << >>
  /\ machine' = [machine EXCEPT ![id] = to]
  /\ IF id \in Cranes
     THEN /\ todo' = [todo EXCEPT ![f] = MotionSideEffects(machine[id], to)]
          /\ target' = [target EXCEPT ![f] = id]
          /\ latched' = [latched EXCEPT ![id] =
                           @ \/ (machine[id] = "emergency" /\ to # "idle")]
     ELSE UNCHANGED <<todo, target, latched>>
  /\ UNCHANGED <<serviceVars, driven>>

\* An event without an entry in the table changes nothing.
Fire(f, id, event) ==
  \E to \in Phases : CanTransition(machine[id], event, to) /\ Enter(f, id, to)

\* A request is honoured when forced or when some event leads there; one with
\* another From, or for the phase the crane is in, changes nothing.
Transition(f, id, to, force) ==
  /\ machine[id] # to
  /\ force \/ CanReach(machine[id], to)
  /\ Enter(f, id, to)

\* The next critical section of the effects of firer f.
ApplyEffect(f) ==
  LET effect == Head(todo[f])
      k == target[f]
  IN
  /\ todo[f] # << >>
  /\ todo' = [todo EXCEPT ![f] = Tail(@)]
  /\ CASE effect.do = "estop" -> SetEStop(k, effect.arg)
       [] effect.do = "phase" -> SetPhase(k, effect.arg)
       [] effect.do = "read"  -> CancelRead(f, k)
       [] effect.do = "call"  -> IF taken[f] = NoCall THEN UNCHANGED serviceVars
                                 ELSE CancelCall(f)
  /\ latched' = IF effect = Stop(FALSE) THEN [latched EXCEPT ![k] = FALSE] ELSE latched
  /\ driven' = IF effect.do = "phase" \/ effect = Stop(TRUE) THEN driven \ {k} ELSE driven
  /\ UNCHANGED <<machine, target>>

FirerNext == \E f \in Firers :
  \/ \E id \in MachineIds, event \in Events : Fire(f, id, event)
  \/ \E id \in MachineIds, to \in Phases : Transition(f, id, to, FALSE)
  \/ \E id \in MachineIds, to \in ForcedTargets : Transition(f, id, to, TRUE)
  \/ ApplyEffect(f)

\* A step of a caller's route, which knows nothing of the machine; for the
\* ghost, a motion that starts or commits sets the phase.
Drive(c) ==
  /\ CallerStep(c)
  /\ driven' = IF pc[c] \in {"start", "commit"} THEN driven \cup {crane[c]} ELSE driven
  /\ UNCHANGED <<machine, todo, target, latched>>

CallersNext == \E c \in Callers :
  \/ Drive(c)
  \/ (\E k \in Cranes, r \in Routes : Begin(c, k, r)) /\ UNCHANGED machineVars
  \/ ContextDone(c) /\ UNCHANGED machineVars

MachineNext == FirerNext \/ CallersNext

MachineSpec == MachineInit /\ [][MachineNext]_allVars

\* Applying effects and moving take the service's mutex only, which nobody
\* keeps: no goroutine under way is blocked for good.
MachineFairness ==
  /\ \A f \in Firers : WF_allVars(ApplyEffect(f))
  /\ \A c \in Callers : WF_allVars(Drive(c))

FairMachineSpec == MachineSpec /\ MachineFairness

-------------------------------------------------------------------------------
\* Types; a transition never leaves more than three critical sections to apply.
MachineTypeOK ==
  /\ ServiceTypeOK
  /\ machine \in [MachineIds -> Phases]
  /\ target \in [Firers -> Cranes]
  /\ latched \in [Cranes -> BOOLEAN] /\ driven \subseteq Cranes
  /\ \A f \in Firers : Len(todo[f]) <= 3

\* No firer has effects on the crane left to apply.
Quiet(k) == \A f \in Firers : todo[f] # << >> => target[f] # k

\* With one firer, once its effects are applied the crane's stop is on exactly
\* in an emergency of the machine, or after an emergency that turned into
\* something else than the reset to idle: then the next reset does not take it
\* off, and the crane refuses to move although the machine is idle.
StopAgrees ==
  \A k \in Cranes : Quiet(k) =>
    (eStopActive[k] <=> machine[k] = "emergency" \/ latched[k])

\* With one firer, once its effects are applied the crane shows the machine's
\* phase, except for the phases that have no effect and after a motion that
\* started or committed since an effect last set the phase.
PhaseAgrees ==
  \A k \in Cranes \ driven :
    Quiet(k) /\ machine[k] \notin {"dwell", "loading", "unloading"} => phase[k] = machine[k]

\* With one firer, a crane whose machine stays in an emergency comes to rest:
\* the stop arrives, whatever motion was admitted before it drains, and no
\* effect of an earlier transition takes it off again.
EmergencyDrains ==
  \A k \in Cranes : <>[](machine[k] = "emergency") =>
    <>[](\A c \in Callers : crane[c] = k => ~InFlight(c))

\* fsm_test.go: once a fired emergency stop has returned, the crane is stopped.
EmergencyStopsCrane ==
  \A k \in Cranes : Quiet(k) /\ machine[k] = "emergency" => eStopActive[k]
================================================================================

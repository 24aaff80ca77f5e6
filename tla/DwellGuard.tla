------------------------------ MODULE DwellGuard ------------------------------
(***************************************************************************)
(* internal/interlock.Guard's dwell windows on top of the process clock.   *)
(* The map of windows has no mutex: like RunDemo, the model lets one       *)
(* goroutine at a time work on it, so a window is written in one step.     *)
(***************************************************************************)
EXTENDS ProcessClock

CONSTANTS
  Cranes,
  DwellWindowTicks,  \* LimitSet.DwellWindowTicks
  None               \* the crane has no window

ASSUME DwellAssumption == DwellWindowTicks \in Nat /\ None \notin Nat

VARIABLES
  dwells,  \* StartTick of the crane's window, or None
  ran      \* ghost: ticks added to the clock since the window was started

dwellVars == <<clockVars, dwells, ran>>

DwellInit ==
  /\ ProcessInit
  /\ dwells = [k \in Cranes |-> None]
  /\ ran = [k \in Cranes |-> 0]

StartDwell(k) ==
  /\ dwells' = [dwells EXCEPT ![k] = tick]
  /\ ran' = [ran EXCEPT ![k] = 0]
  /\ UNCHANGED clockVars

ClearDwell(k) ==
  /\ dwells' = [dwells EXCEPT ![k] = None]
  /\ ran' = [ran EXCEPT ![k] = 0]
  /\ UNCHANGED clockVars

\* A crane without a window is done with it.
DwellComplete(k) == dwells[k] = None \/ WindowClosed(dwells[k], DwellWindowTicks)

\* A window that has closed leaves nothing to wait for.
DwellRemaining(k) ==
  IF dwells[k] = None \/ ElapsedTicks(dwells[k]) >= DwellWindowTicks THEN 0
  ELSE DwellWindowTicks - ElapsedTicks(dwells[k])

\* The clock runs; a window sees the ticks that are added after its start.
ClockRuns ==
  /\ ProcessNext
  /\ ran' = [k \in Cranes |->
       IF dwells[k] = None THEN 0 ELSE ran[k] + (added' - added)]
  /\ UNCHANGED dwells

DwellNext == ClockRuns \/ \E k \in Cranes : StartDwell(k) \/ ClearDwell(k)

DwellSpec == DwellInit /\ [][DwellNext]_dwellVars

-------------------------------------------------------------------------------
\* Every variable has its type: a window starts at a tick the clock can show.
DwellTypeOK ==
  /\ ProcessTypeOK
  /\ dwells \in [Cranes -> Nat \cup {None}]
  /\ ran \in [Cranes -> Nat]

\* With one advancing goroutine a dwell window closes with the very tick that
\* completes it, neither earlier nor later, wherever in an Advance it was
\* started and however often the clock was paused, and what remains of it is
\* what the clock still has to add.
DwellExact ==
  \A k \in Cranes : dwells[k] # None =>
    /\ DwellComplete(k) <=> ran[k] >= DwellWindowTicks
    /\ ran[k] < DwellWindowTicks => DwellRemaining(k) = DwellWindowTicks - ran[k]
================================================================================

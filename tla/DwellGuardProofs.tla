--------------------------- MODULE DwellGuardProofs ---------------------------
(***************************************************************************)
(* Theorems about ProcessClock and about the dwell windows DwellGuard      *)
(* measures with it: what any number of goroutines can do to the tick,     *)
(* that a single advancing goroutine sees an atomic clock, and that dwell  *)
(* windows are then exact, for all cranes, window lengths and amounts the  *)
(* clock is advanced by.                                                   *)
(***************************************************************************)
EXTENDS DwellGuard, TLAPS

-------------------------------------------------------------------------------
(***************************************************************************)
(* The process clock.                                                      *)
(***************************************************************************)

\* The types and the bound on ticks are inductive together.
TickInv == ProcessTypeOK /\ NoTickInvented

\* A new clock is well typed.
LEMMA TypeInit == ProcessInit => ProcessTypeOK
<1> SUFFICES ASSUME ProcessInit PROVE ProcessTypeOK
  OBVIOUS
<1>1. resetting \subseteq Resetters
  BY DEF ProcessInit
<1> QED
  BY <1>1 DEF ProcessInit, ProcessTypeOK

\* A new clock has invented no tick.
LEMMA TickInit == ProcessInit => TickInv
BY TypeInit DEF ProcessInit, TickInv, NoTickInvented

\* What both halves of a Reset do, and what they leave alone.
LEMMA ResetFacts ==
  ASSUME ProcessTypeOK, NEW r \in Resetters, Reset(r) \/ ResetStore(r)
  PROVE  /\ resetting' \subseteq Resetters
         /\ tick' = 0 /\ paused' \in BOOLEAN
         /\ UNCHANGED <<holder, at, by, cur, added>>
BY DEF ProcessTypeOK, Reset, ResetStore

\* No step of any goroutine, racing stores included, invents a tick.
LEMMA TickNext == TickInv /\ [ProcessNext]_clockVars => TickInv'
<1> SUFFICES ASSUME TickInv, [ProcessNext]_clockVars PROVE TickInv'
  OBVIOUS
<1> USE DEF TickInv, ProcessTypeOK, NoTickInvented
<1>1. ASSUME NEW p \in Advancers, NEW n \in Steps, Lock(p, n) PROVE TickInv'
  <2>1. n \in Nat
    BY <1>1, ClockAssumption DEF Lock
  <2> QED
    BY <1>1, <2>1 DEF Lock
<1>2. ASSUME NEW p \in Advancers, Add(p) PROVE TickInv'
  <2>1. cur[p] + by[p] \in Nat /\ cur[p] + by[p] <= added + by[p] /\ added <= added + by[p]
    OBVIOUS
  <2>2. \A q \in Advancers : cur'[q] \in Nat /\ cur'[q] <= added'
    BY <1>2, <2>1 DEF Add
  <2> QED
    BY <1>2, <2>1, <2>2 DEF Add
<1>3. ASSUME NEW p \in Advancers, Unlock(p) PROVE TickInv'
  <2>1. PICK v \in {cur[p], tick} : cur' = [cur EXCEPT ![p] = v]
    BY <1>3 DEF Unlock
  <2> QED
    BY <1>3, <2>1 DEF Unlock
<1>4. ASSUME NEW p \in Advancers, Store(p) PROVE TickInv'
  BY <1>4 DEF Store
<1>5. ASSUME NEW o \in Operators, NEW b \in BOOLEAN, SetPaused(o, b) PROVE TickInv'
  BY <1>5 DEF SetPaused
<1>6. ASSUME NEW r \in Resetters, Reset(r) \/ ResetStore(r) PROVE TickInv'
  BY <1>6, ResetFacts
<1>7. CASE UNCHANGED clockVars
  BY <1>7 DEF clockVars
<1> QED
  BY <1>1, <1>2, <1>3, <1>4, <1>5, <1>6, <1>7 DEF ProcessNext, AdvanceNext, ControlNext

\* However many goroutines advance, pause and reset the clock at once, it never
\* shows a tick that was not added (clock.go, Advance and Reset).
THEOREM NoTickInventedAlways == ProcessSpec => []NoTickInvented
<1>1. TickInv => NoTickInvented
  BY DEF TickInv
<1> QED
  BY <1>1, TickInit, TickNext, PTL DEF ProcessSpec

-------------------------------------------------------------------------------
(***************************************************************************)
(* One advancing goroutine, no reset.                                      *)
(***************************************************************************)

SingleAdvancer ==
  /\ \A p, q \in Advancers : p = q
  /\ Resetters = {}

\* With one advancing goroutine its register is never out of date.
SingleInv == ProcessTypeOK /\ InsideHolds /\ RegisterFresh

\* A new clock has no Advance under way.
LEMMA SingleInit == ProcessInit => SingleInv
BY TypeInit DEF ProcessInit, SingleInv, InsideHolds, RegisterFresh

\* Every step keeps the types.
LEMMA TypeNext == ProcessTypeOK /\ [ProcessNext]_clockVars => ProcessTypeOK'
<1> SUFFICES ASSUME ProcessTypeOK, [ProcessNext]_clockVars PROVE ProcessTypeOK'
  OBVIOUS
<1> USE DEF ProcessTypeOK
<1>1. ASSUME NEW p \in Advancers, NEW n \in Steps, Lock(p, n) PROVE ProcessTypeOK'
  <2>1. n \in Nat
    BY <1>1, ClockAssumption DEF Lock
  <2> QED
    BY <1>1, <2>1 DEF Lock
<1>2. ASSUME NEW p \in Advancers, Add(p) PROVE ProcessTypeOK'
  <2>1. cur[p] + by[p] \in Nat /\ added + by[p] \in Nat
    OBVIOUS
  <2> QED
    BY <1>2, <2>1 DEF Add
<1>3. ASSUME NEW p \in Advancers, Unlock(p) PROVE ProcessTypeOK'
  <2>1. PICK v \in {cur[p], tick} : cur' = [cur EXCEPT ![p] = v]
    BY <1>3 DEF Unlock
  <2> QED
    BY <1>3, <2>1 DEF Unlock
<1>4. ASSUME NEW p \in Advancers, Store(p) PROVE ProcessTypeOK'
  BY <1>4 DEF Store
<1>5. ASSUME NEW o \in Operators, NEW b \in BOOLEAN, SetPaused(o, b) PROVE ProcessTypeOK'
  BY <1>5 DEF SetPaused
<1>6. ASSUME NEW r \in Resetters, Reset(r) \/ ResetStore(r) PROVE ProcessTypeOK'
  BY <1>6, ResetFacts
<1>7. CASE UNCHANGED clockVars
  BY <1>7 DEF clockVars
<1> QED
  BY <1>1, <1>2, <1>3, <1>4, <1>5, <1>6, <1>7 DEF ProcessNext, AdvanceNext, ControlNext

\* Every variable of the clock keeps its type, racing stores included: the tick
\* is never negative (clock.go).
THEOREM ProcessTypes == ProcessSpec => []ProcessTypeOK
BY TypeInit, TypeNext, PTL DEF ProcessSpec

\* The register of the only advance always holds the tick.
LEMMA SingleNext ==
  ASSUME SingleAdvancer
  PROVE  SingleInv /\ [ProcessNext]_clockVars => SingleInv'
<1> SUFFICES ASSUME SingleInv, [ProcessNext]_clockVars
             PROVE  InsideHolds' /\ RegisterFresh'
  BY TypeNext DEF SingleInv
<1> USE DEF SingleInv, ProcessTypeOK, InsideHolds, RegisterFresh, SingleAdvancer
<1>1. ASSUME NEW p \in Advancers, NEW n \in Steps, Lock(p, n)
      PROVE  InsideHolds' /\ RegisterFresh'
  BY <1>1 DEF Lock
<1>2. ASSUME NEW p \in Advancers, Add(p) PROVE InsideHolds' /\ RegisterFresh'
  BY <1>2 DEF Add
<1>3. ASSUME NEW p \in Advancers, Unlock(p) PROVE InsideHolds' /\ RegisterFresh'
  <2>1. PICK v \in {cur[p], tick} : cur' = [cur EXCEPT ![p] = v]
    BY <1>3 DEF Unlock
  <2>2. v = tick
    BY <1>3, <2>1 DEF Unlock
  <2> QED
    BY <1>3, <2>1, <2>2 DEF Unlock
<1>4. ASSUME NEW p \in Advancers, Store(p) PROVE InsideHolds' /\ RegisterFresh'
  BY <1>4 DEF Store
<1>5. ASSUME NEW o \in Operators, NEW b \in BOOLEAN, SetPaused(o, b)
      PROVE  InsideHolds' /\ RegisterFresh'
  BY <1>5, ClockAssumption DEF SetPaused
<1>6. CASE UNCHANGED clockVars
  BY <1>6 DEF clockVars
<1> QED
  BY <1>1, <1>2, <1>3, <1>4, <1>5, <1>6 DEF ProcessNext, AdvanceNext, ControlNext

\* Every step of the single-advancer clock is a step of the atomic clock.
LEMMA StepIsAtomic ==
  ASSUME SingleAdvancer, SingleInv, [ProcessNext]_clockVars
  PROVE  [Atomic!Forward \/ Atomic!Halt]_<<tick, paused>>
<1> USE DEF SingleInv, ProcessTypeOK, SingleAdvancer
<1>1. ASSUME NEW p \in Advancers, NEW n \in Steps, Lock(p, n)
      PROVE  UNCHANGED <<tick, paused>>
  BY <1>1 DEF Lock
<1>2. ASSUME NEW p \in Advancers, Add(p) PROVE Atomic!Forward
  <2>1. ~paused /\ by[p] \in Steps /\ by[p] > 0 /\ cur[p] = tick
    BY <1>2 DEF Add, InsideHolds, RegisterFresh
  <2> QED
    BY <1>2, <2>1 DEF Add, Atomic!Forward
<1>3. ASSUME NEW p \in Advancers, Unlock(p) PROVE UNCHANGED <<tick, paused>>
  BY <1>3 DEF Unlock
<1>4. ASSUME NEW p \in Advancers, Store(p) PROVE UNCHANGED <<tick, paused>>
  BY <1>4 DEF Store, RegisterFresh
<1>5. ASSUME NEW o \in Operators, NEW b \in BOOLEAN, SetPaused(o, b) PROVE Atomic!Halt
  BY <1>5 DEF SetPaused, Atomic!Halt
<1>6. CASE UNCHANGED clockVars
  BY <1>6 DEF clockVars
<1> QED
  BY <1>1, <1>2, <1>3, <1>4, <1>5, <1>6 DEF ProcessNext, AdvanceNext, ControlNext

\* With one advancing goroutine and no reset, the clock implements the atomic
\* clock: its second store is invisible, also to a pause.
THEOREM SingleAdvancerIsAtomic ==
  ASSUME SingleAdvancer
  PROVE  ProcessSpec => ImplementsAtomicClock
<1>1. ProcessInit => Atomic!ClockInit
  BY DEF ProcessInit, Atomic!ClockInit
<1>2. SingleInv /\ [ProcessNext]_clockVars => [Atomic!Forward \/ Atomic!Halt]_<<tick, paused>>
  BY StepIsAtomic
<1>3. SingleInv /\ [ProcessNext]_clockVars => SingleInv'
  BY SingleNext
<1> QED
  BY <1>1, <1>2, <1>3, SingleInit, PTL DEF ProcessSpec, ImplementsAtomicClock, Atomic!ClockSpec

-------------------------------------------------------------------------------
(***************************************************************************)
(* Dwell windows.                                                          *)
(***************************************************************************)

\* No step takes back ticks that were added.
LEMMA AddedGrows ==
  ASSUME ProcessTypeOK, ProcessNext
  PROVE  added' - added \in Nat
<1>1. added' = added \/ \E p \in Advancers : added' = added + by[p]
  BY DEF ProcessNext, AdvanceNext, ControlNext, Lock, Add, Unlock, Store, SetPaused,
         Reset, ResetStore
<1> QED
  BY <1>1 DEF ProcessTypeOK

\* A dwell window starts at a tick the clock can show and no negative number of
\* ticks runs in it, whatever races on the clock (guard.go).
THEOREM DwellTypes == DwellSpec => []DwellTypeOK
<1>1. DwellInit => DwellTypeOK
  BY TypeInit DEF DwellInit, DwellTypeOK
<1>2. DwellTypeOK /\ [DwellNext]_dwellVars => DwellTypeOK'
  <2> SUFFICES ASSUME DwellTypeOK, [DwellNext]_dwellVars PROVE DwellTypeOK'
    OBVIOUS
  <2>1. CASE ClockRuns
    <3>1. ProcessTypeOK' /\ added' - added \in Nat
      BY <2>1, TypeNext, AddedGrows DEF ClockRuns, DwellTypeOK
    <3>2. \A k \in Cranes : ran[k] + (added' - added) \in Nat
      BY <3>1 DEF DwellTypeOK
    <3>3. ran' \in [Cranes -> Nat]
      BY <2>1, <3>2 DEF ClockRuns
    <3> QED
      BY <2>1, <3>1, <3>3 DEF ClockRuns, DwellTypeOK
  <2>2. ASSUME NEW k \in Cranes, StartDwell(k) \/ ClearDwell(k) PROVE DwellTypeOK'
    BY <2>2 DEF StartDwell, ClearDwell, DwellTypeOK, ProcessTypeOK, clockVars
  <2>3. CASE UNCHANGED dwellVars
    BY <2>3 DEF dwellVars, clockVars, DwellTypeOK, ProcessTypeOK
  <2> QED
    BY <2>1, <2>2, <2>3 DEF DwellNext
<1> QED
  BY <1>1, <1>2, PTL DEF DwellSpec

\* The window's view of the clock: its start plus what ran since is the tick.
WindowAligned == \A k \in Cranes : dwells[k] # None => tick = dwells[k] + ran[k]

\* The inductive invariant of DwellExact.
DwellInv == SingleInv /\ DwellTypeOK /\ WindowAligned

\* The tick and the ticks added move together.
LEMMA TickFollowsAdded ==
  ASSUME SingleAdvancer, SingleInv, ProcessNext
  PROVE  \E d \in Nat : tick' = tick + d /\ added' = added + d
<1> USE DEF SingleInv, ProcessTypeOK, SingleAdvancer
<1>1. ASSUME NEW p \in Advancers, Add(p)
      PROVE  tick' = tick + by[p] /\ added' = added + by[p] /\ by[p] \in Nat
  BY <1>1 DEF Add, RegisterFresh
<1>2. ASSUME NEW p \in Advancers, Store(p) PROVE tick' = tick /\ added' = added
  BY <1>2 DEF Store, RegisterFresh
<1>3. CASE tick' = tick /\ added' = added
  <2>1. tick' = tick + 0 /\ added' = added + 0
    BY <1>3
  <2> QED
    BY <2>1
<1>4. \/ \E p \in Advancers : Add(p) \/ Store(p)
      \/ tick' = tick /\ added' = added
  BY DEF ProcessNext, AdvanceNext, ControlNext, Lock, Unlock, SetPaused
<1> QED
  BY <1>1, <1>2, <1>3, <1>4

\* Running the clock keeps every window aligned.
LEMMA ClockKeepsWindows ==
  ASSUME SingleAdvancer, DwellInv, ClockRuns
  PROVE  DwellTypeOK' /\ WindowAligned'
<1>1. ProcessTypeOK'
  BY TypeNext DEF DwellInv, SingleInv, ClockRuns
<1>2. PICK d \in Nat : tick' = tick + d /\ added' = added + d
  BY TickFollowsAdded DEF DwellInv, ClockRuns
<1>3. tick \in Nat /\ added \in Nat /\ dwells' = dwells
  BY DEF DwellInv, SingleInv, ProcessTypeOK, ClockRuns
<1>4. ASSUME NEW k \in Cranes
      PROVE  /\ ran[k] \in Nat
             /\ ran'[k] = IF dwells[k] = None THEN 0 ELSE ran[k] + d
  BY <1>2, <1>3 DEF DwellInv, DwellTypeOK, ClockRuns
<1>5. ran' \in [Cranes -> Nat]
  <2>1. ran' = [k \in Cranes |-> ran'[k]]
    BY DEF ClockRuns
  <2> QED
    BY <1>4, <2>1
<1>6. ASSUME NEW k \in Cranes, dwells'[k] # None PROVE tick' = dwells'[k] + ran'[k]
  <2>1. dwells[k] \in Nat /\ tick = dwells[k] + ran[k]
    BY <1>3, <1>6 DEF DwellInv, DwellTypeOK, WindowAligned
  <2> QED
    BY <1>2, <1>3, <1>4, <1>6, <2>1
<1> QED
  BY <1>1, <1>3, <1>5, <1>6 DEF DwellTypeOK, WindowAligned, DwellInv

\* Starting or clearing a window leaves the clock and the other windows alone.
LEMMA GuardKeepsWindows ==
  ASSUME DwellInv, NEW k \in Cranes, StartDwell(k) \/ ClearDwell(k)
  PROVE  DwellInv'
<1>1. UNCHANGED clockVars
  BY DEF StartDwell, ClearDwell
<1>2. SingleInv'
  BY <1>1 DEF DwellInv, SingleInv, ProcessTypeOK, InsideHolds, RegisterFresh, clockVars
<1>3. tick' = tick /\ tick \in Nat
  BY <1>1 DEF clockVars, DwellInv, SingleInv, ProcessTypeOK
<1>4. /\ dwells' \in [Cranes -> Nat \cup {None}]
      /\ ran' \in [Cranes -> Nat]
  BY <1>3 DEF StartDwell, ClearDwell, DwellInv, DwellTypeOK
<1>5. ASSUME NEW j \in Cranes, dwells'[j] # None PROVE tick' = dwells'[j] + ran'[j]
  <2>1. CASE j = k
    BY <1>3, <1>5, <2>1 DEF StartDwell, ClearDwell, DwellInv, DwellTypeOK
  <2>2. CASE j # k
    BY <1>3, <1>5, <2>2 DEF StartDwell, ClearDwell, DwellInv, DwellTypeOK, WindowAligned
  <2> QED
    BY <2>1, <2>2
<1> QED
  BY <1>2, <1>4, <1>5 DEF DwellInv, DwellTypeOK, WindowAligned, SingleInv

\* Alignment makes the answers of the guard exact.
LEMMA AlignedIsExact ==
  ASSUME DwellInv
  PROVE  DwellExact
<1> SUFFICES ASSUME NEW k \in Cranes, dwells[k] # None
             PROVE  /\ DwellComplete(k) <=> ran[k] >= DwellWindowTicks
                    /\ ran[k] < DwellWindowTicks =>
                         DwellRemaining(k) = DwellWindowTicks - ran[k]
  BY DEF DwellExact
<1>1. /\ dwells[k] \in Nat /\ ran[k] \in Nat /\ tick = dwells[k] + ran[k]
      /\ DwellWindowTicks \in Nat
  BY DwellAssumption DEF DwellInv, DwellTypeOK, WindowAligned
<1>2. ElapsedTicks(dwells[k]) = ran[k]
  BY <1>1 DEF ElapsedTicks
<1>3. DwellComplete(k) <=> ran[k] >= DwellWindowTicks
  BY <1>1, <1>2 DEF DwellComplete, WindowClosed
<1>4. ran[k] < DwellWindowTicks => DwellRemaining(k) = DwellWindowTicks - ran[k]
  BY <1>1, <1>2 DEF DwellRemaining
<1> QED
  BY <1>3, <1>4

\* With one advancing goroutine and no reset, a dwell window closes with the
\* tick that completes it and DwellRemaining counts down to it, for all cranes,
\* window lengths and pauses (guard.go, window.go).
THEOREM DwellExactAlways ==
  ASSUME SingleAdvancer
  PROVE  DwellSpec => []DwellExact
<1>1. DwellInit => DwellInv
  <2> SUFFICES ASSUME DwellInit PROVE DwellInv
    OBVIOUS
  <2>1. SingleInv
    BY SingleInit DEF DwellInit
  <2> QED
    BY <2>1 DEF DwellInit, DwellInv, SingleInv, DwellTypeOK, WindowAligned
<1>2. DwellInv /\ [DwellNext]_dwellVars => DwellInv'
  <2> SUFFICES ASSUME DwellInv, [DwellNext]_dwellVars PROVE DwellInv'
    OBVIOUS
  <2>1. CASE ClockRuns
    <3>1. SingleInv'
      BY <2>1, SingleNext DEF ClockRuns, DwellInv
    <3> QED
      BY <2>1, <3>1, ClockKeepsWindows DEF DwellInv
  <2>2. ASSUME NEW k \in Cranes, StartDwell(k) \/ ClearDwell(k) PROVE DwellInv'
    BY <2>2, GuardKeepsWindows
  <2>3. CASE UNCHANGED dwellVars
    BY <2>3 DEF dwellVars, clockVars, DwellInv, SingleInv, DwellTypeOK, ProcessTypeOK,
                WindowAligned, InsideHolds, RegisterFresh
  <2> QED
    BY <2>1, <2>2, <2>3 DEF DwellNext
<1>3. DwellInv => DwellExact
  BY AlignedIsExact
<1> QED
  BY <1>1, <1>2, <1>3, PTL DEF DwellSpec
================================================================================

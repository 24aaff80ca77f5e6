----------------------------- MODULE ProcessClock -----------------------------
(***************************************************************************)
(* internal/clock.ProcessClock: Advance reads and adds under the mutex but *)
(* stores the result again, atomically, after releasing it (line 47), so   *)
(* the store of one Advance can land inside or after another operation.    *)
(* The plain accesses under the mutex race with that store: they are steps *)
(* of their own here, and what the second read of the field returns is     *)
(* either the value just written (kept in a register) or the value in      *)
(* memory.  Words are not torn on the 64-bit targets the build produces.   *)
(* An Advance of a paused clock changes nothing.                           *)
(***************************************************************************)
EXTENDS Integers

CONSTANTS
  Advancers,   \* goroutines that call Advance
  Operators,   \* goroutines that call Pause and Resume
  Resetters,   \* goroutines that call Reset
  Steps,       \* the amounts Advance is called with
  MaxAdded,    \* bound of the model on the ticks added in a behaviour
  Free         \* nobody holds the mutex

ASSUME ClockAssumption ==
  /\ Steps \subseteq Int
  /\ MaxAdded \in Nat
  /\ Free \notin Advancers

VARIABLES
  tick, paused,
  holder,     \* the Advance that holds the mutex
  at,         \* where each Advance stands
  by,         \* its n
  cur,        \* its register: the tick it read, then its result
  resetting,  \* resetters whose final store is due
  added       \* ghost: all ticks ever added

clockVars == <<tick, paused, holder, at, by, cur, resetting, added>>

ProcessInit ==
  /\ tick = 0
  /\ paused = FALSE
  /\ holder = Free
  /\ at = [p \in Advancers |-> "idle"]
  /\ by = [p \in Advancers |-> 0]
  /\ cur = [p \in Advancers |-> 0]
  /\ resetting = {}
  /\ added = 0

\* Mutant: Advance accepts amounts that are not positive.
Lock_AnyAmount(p, n) ==
  /\ at[p] = "idle"
  /\ holder = Free
  /\ ~paused
  /\ added + n <= MaxAdded
  /\ holder' = p
  /\ at' = [at EXCEPT ![p] = "add"]
  /\ by' = [by EXCEPT ![p] = n]
  /\ cur' = [cur EXCEPT ![p] = tick]
  /\ UNCHANGED <<tick, paused, resetting, added>>

\* Advance, lines 34 to 38 and the read of line 43.
Lock(p, n) ==
  /\ at[p] = "idle"
  /\ holder = Free
  /\ ~paused
  /\ added + n <= MaxAdded
  /\ n > 0
  /\ holder' = p
  /\ at' = [at EXCEPT ![p] = "add"]
  /\ by' = [by EXCEPT ![p] = n]
  /\ cur' = [cur EXCEPT ![p] = tick]
  /\ UNCHANGED <<tick, paused, resetting, added>>

\* The write of line 43.
Add(p) ==
  /\ at[p] = "add"
  /\ tick' = cur[p] + by[p]
  /\ added' = added + by[p]
  /\ at' = [at EXCEPT ![p] = "read"]
  /\ cur' = [cur EXCEPT ![p] = cur[p] + by[p]]
  /\ UNCHANGED <<paused, holder, by, resetting>>

\* Lines 44 to 46: the result, and the mutex released.
Unlock(p) ==
  /\ at[p] = "read"
  /\ \E v \in {cur[p], tick} : cur' = [cur EXCEPT ![p] = v]
  /\ holder' = Free
  /\ at' = [at EXCEPT ![p] = "store"]
  /\ UNCHANGED <<tick, paused, by, resetting, added>>

\* Mutant: the store adds to the tick once more.
Store_AddsAgain(p) ==
  /\ at[p] = "store"
  /\ tick' = tick + by[p]
  /\ at' = [at EXCEPT ![p] = "idle"]
  /\ by' = [by EXCEPT ![p] = 0]
  /\ cur' = [cur EXCEPT ![p] = 0]
  /\ UNCHANGED <<paused, holder, resetting, added>>

\* Line 47, without the mutex.
Store(p) ==
  /\ at[p] = "store"
  /\ tick' = cur[p]
  /\ at' = [at EXCEPT ![p] = "idle"]
  /\ by' = [by EXCEPT ![p] = 0]
  /\ cur' = [cur EXCEPT ![p] = 0]
  /\ UNCHANGED <<paused, holder, resetting, added>>

\* Mutant: the pause flag is written without the mutex.
SetPaused_NoMutex(o, b) ==
  /\ paused' = b
  /\ UNCHANGED <<tick, holder, at, by, cur, resetting, added>>

SetPaused(o, b) ==
  /\ holder = Free
  /\ paused' = b
  /\ UNCHANGED <<tick, holder, at, by, cur, resetting, added>>

\* Reset under the mutex ...
Reset(r) ==
  /\ r \notin resetting
  /\ holder = Free
  /\ tick' = 0
  /\ paused' = FALSE
  /\ resetting' = resetting \cup {r}
  /\ UNCHANGED <<holder, at, by, cur, added>>

\* ... and its atomic store after it.
ResetStore(r) ==
  /\ r \in resetting
  /\ tick' = 0
  /\ resetting' = resetting \ {r}
  /\ UNCHANGED <<paused, holder, at, by, cur, added>>

AdvanceNext == \E p \in Advancers :
  (\E n \in Steps : Lock(p, n)) \/ Add(p) \/ Unlock(p) \/ Store(p)

ControlNext ==
  \/ \E o \in Operators, b \in BOOLEAN : SetPaused(o, b)
  \/ \E r \in Resetters : Reset(r) \/ ResetStore(r)

ProcessNext == AdvanceNext \/ ControlNext

ProcessSpec == ProcessInit /\ [][ProcessNext]_clockVars

\* Ticks since a start tick; a start tick ahead of the clock counts as now.
ElapsedTicks(since) == IF tick < since THEN 0 ELSE tick - since

\* Mutant: the window closes only after one tick more than it asks for.
WindowClosed_Strict(start, window) == window = 0 \/ ElapsedTicks(start) > window

WindowClosed(start, window) == window = 0 \/ ElapsedTicks(start) >= window

-------------------------------------------------------------------------------
\* Every variable has its type: the clock never shows a negative tick.
ProcessTypeOK ==
  /\ tick \in Nat
  /\ paused \in BOOLEAN
  /\ holder \in Advancers \cup {Free}
  /\ at \in [Advancers -> {"idle", "add", "read", "store"}]
  /\ by \in [Advancers -> Nat]
  /\ cur \in [Advancers -> Nat]
  /\ resetting \subseteq Resetters
  /\ added \in Nat

\* Between its lock and its unlock an Advance holds the mutex of a running clock.
InsideHolds ==
  \A p \in Advancers : at[p] \in {"add", "read"} =>
    holder = p /\ ~paused /\ by[p] \in Steps /\ by[p] > 0

\* Nobody else wrote the tick since an Advance read it.
RegisterFresh == \A p \in Advancers : at[p] # "idle" => cur[p] = tick

\* Overlapping advances may lose ticks, and a late store may bring an old tick
\* back, even after a reset, but the clock never shows more ticks than were
\* ever added, and neither does any result still to be stored.
NoTickInvented ==
  /\ tick <= added
  /\ \A p \in Advancers : cur[p] <= added

\* The code's clock is the atomic one.
Atomic == INSTANCE AtomicClock WITH time <- tick, halted <- paused

\* A clock advanced by one goroutine and never reset is atomic: the store after
\* the mutex changes nothing anybody can see, pauses included.
ImplementsAtomicClock == Atomic!ClockSpec

\* clock_test.go: "paused clock should not advance".
PausedClockStands == [][paused => tick' <= tick]_clockVars
================================================================================

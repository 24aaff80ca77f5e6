------------------------------ MODULE AtomicClock ------------------------------
(***************************************************************************)
(* What a process clock promises between resets: it moves forward by whole *)
(* advances, each in one step, and stands still while it is paused.        *)
(***************************************************************************)
EXTENDS Integers

CONSTANT Steps  \* the amounts a clock is asked to advance by

VARIABLES time, halted

ClockInit == time = 0 /\ halted = FALSE

Forward ==
  ~halted /\ (\E n \in Steps : n > 0 /\ time' = time + n) /\ UNCHANGED halted

Halt == halted' \in BOOLEAN /\ UNCHANGED time

ClockSpec == ClockInit /\ [][Forward \/ Halt]_<<time, halted>>
================================================================================

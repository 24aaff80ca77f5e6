----------------------------- MODULE MCDwellGuard -----------------------------
(***************************************************************************)
(* Instance of DwellGuard for TLC: two cranes whose windows overlap.       *)
(***************************************************************************)
EXTENDS DwellGuard

MCSteps == {-1, 1, 2}
================================================================================

------------------------------ MODULE CraneDomain ------------------------------
(***************************************************************************)
(* Vocabulary shared by every component: motion axes, crane phases, crane  *)
(* events and the phase transition table (internal/model, internal/fsm).   *)
(***************************************************************************)

Axes == {"travel", "hoist", "fork"}

Phases == {"idle", "traveling", "hoisting", "forking", "loading",
           "unloading", "dwell", "emergency", "fault"}

Events == {"start_travel", "travel_done", "start_hoist", "hoist_done",
           "start_fork", "fork_done", "load_pallet", "unload_pallet",
           "dwell_start", "dwell_end", "estop", "reset", "fault"}

\* The phase a crane shows while one of its axes moves.
PhaseForAxis(axis) ==
  CASE axis = "travel" -> "traveling"
    [] axis = "hoist"  -> "hoisting"
    [] axis = "fork"   -> "forking"

\* Loading and unloading are motion phases although no axis is active in them.
IsMotionPhase(p) ==
  p \in {"traveling", "hoisting", "forking", "loading", "unloading"}

\* The axis that is active in phase p is axis.
ActiveAxis(p, axis) == p = PhaseForAxis(axis)

HasActiveAxis(p) == \E axis \in Axes : ActiveAxis(p, axis)

\* The table "allowed": <<from, event, to>>.
allowed ==
  { <<"idle",      "start_travel",  "traveling">>,
    <<"idle",      "start_hoist",   "hoisting">>,
    <<"idle",      "start_fork",    "forking">>,
    <<"traveling", "travel_done",   "idle">>,
    <<"hoisting",  "hoist_done",    "idle">>,
    <<"forking",   "fork_done",     "idle">>,
    <<"loading",   "load_pallet",   "dwell">>,
    <<"unloading", "unload_pallet", "dwell">>,
    <<"dwell",     "dwell_end",     "idle">>,
    <<"emergency", "reset",         "idle">>,
    <<"fault",     "reset",         "idle">> }
  \cup { <<p, "estop", "emergency">> : p \in Phases \ {"emergency", "fault"} }
  \cup { <<p, "fault", "fault">>     : p \in Phases \ {"fault"} }

CanTransition(from, event, to) == <<from, event, to>> \in allowed

CanReach(from, to) == \E event \in Events : CanTransition(from, event, to)
================================================================================

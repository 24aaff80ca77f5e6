----------------------------- MODULE ForkTelescope -----------------------------
(***************************************************************************)
(* internal/fork: a LoadHandler moves the two actuators of its Telescope,  *)
(* left before right, with the telescope's mutex held over both moves.  An *)
(* Actuator refuses a move while another is under way.  Handlers use the   *)
(* telescope; operators move one actuator directly (Left(), Right()).      *)
(***************************************************************************)
EXTENDS Integers, Sequences

CONSTANTS
  Handlers,    \* goroutines that call Pickup and Deposit
  Operators,   \* goroutines that call Extend, Retract or Center on an actuator
  Depths,      \* the targets (mm) they ask for
  MaxMM,       \* the reach of an actuator
  Free         \* nobody holds the telescope's mutex

Sides == {"left", "right"}
Users == Handlers \cup Operators

ASSUME TelescopeAssumption ==
  /\ Depths \subseteq Int
  /\ MaxMM \in Nat
  /\ Handlers \cap Operators = {}
  /\ Free \notin Users

VARIABLES
  extensionMM, moving,  \* the actuators
  mu,         \* the handler that holds the telescope's mutex
  pc,         \* where each user stands
  moves,      \* the actuator moves it still has to make
  apart,      \* ghost: since the telescope was last locked, a call of ExtendBoth
              \* or RetractBoth has failed or an operator has moved an actuator
  disturbed   \* ghost: the handlers that met a move of another user in their call

ghosts == <<apart, disturbed>>
telescopeVars == <<extensionMM, moving, mu, pc, moves, ghosts>>

Move(s, mm) == [side |-> s, to |-> mm]
Both(mm) == << Move("left", mm), Move("right", mm) >>

\* The ForkPosition a move leaves behind: that of its target, whatever was
\* asked for, so that Center ends as "extended".
Position(mm) ==
  CASE mm = 0                            -> "retracted"
    [] mm # 0 /\ mm >= MaxMM \div 2      -> "extended"
    [] mm # 0 /\ mm < MaxMM \div 2       -> "centered"

IsRetracted(s) == Position(extensionMM[s]) = "retracted"

\* Where Retract and Center move to.
Presets == {0, MaxMM \div 2}

side(u) == Head(moves[u]).side
to(u) == Head(moves[u]).to

\* The user is between the two critical sections that set and clear "moving".
Moving(u) == pc[u] \in {"select", "commit", "end", "moved"}

TelescopeInit ==
  /\ extensionMM = [s \in Sides |-> 0]
  /\ moving = [s \in Sides |-> FALSE]
  /\ mu = Free
  /\ pc = [u \in Users |-> "ready"]
  /\ moves = [u \in Users |-> << >>]
  /\ apart = FALSE
  /\ disturbed = {}

-------------------------------------------------------------------------------
(***************************************************************************)
(* LoadHandler.                                                            *)
(***************************************************************************)

\* Pickup first looks whether both actuators are retracted ...
Pickup(h, depth) ==
  /\ pc[h] = "ready"
  /\ pc' = [pc EXCEPT ![h] = "left?"]
  /\ moves' = [moves EXCEPT ![h] = Both(depth)]
  /\ UNCHANGED <<extensionMM, moving, mu, ghosts>>

\* Where a call stands that is to look at an actuator.
LookPoint(s) == CASE s = "left" -> "left?" [] s = "right" -> "right?"

\* Mutant: BothRetracted looks at the left actuator only.
LookAt_LeftOnly(h, s) ==
  /\ pc[h] = LookPoint(s)
  /\ pc' = [pc EXCEPT ![h] = "wait"]
  /\ moves' = IF IsRetracted(s) THEN moves
              ELSE [moves EXCEPT ![h] = Both(0) \o @]
  /\ UNCHANGED <<extensionMM, moving, mu, ghosts>>

\* ... one after the other, and retracts them when one is not.
LookAt(h, s) ==
  /\ pc[h] = LookPoint(s)
  /\ pc' = [pc EXCEPT ![h] =
             IF s = "left" /\ IsRetracted(s) THEN "right?" ELSE "wait"]
  /\ moves' = IF IsRetracted(s) THEN moves
              ELSE [moves EXCEPT ![h] = Both(0) \o @]
  /\ UNCHANGED <<extensionMM, moving, mu, ghosts>>

\* Deposit extends and then retracts.
Deposit(h, depth) ==
  /\ pc[h] = "ready"
  /\ pc' = [pc EXCEPT ![h] = "wait"]
  /\ moves' = [moves EXCEPT ![h] = Both(depth) \o Both(0)]
  /\ UNCHANGED <<extensionMM, moving, mu, ghosts>>

\* ExtendBoth and RetractBoth lock the telescope.
LockTelescope(h) ==
  /\ pc[h] = "wait"
  /\ mu = Free
  /\ mu' = h
  /\ pc' = [pc EXCEPT ![h] = "begin"]
  /\ apart' = FALSE
  /\ UNCHANGED <<extensionMM, moving, moves, disturbed>>

\* Mutant: the error return of the left move forgets the mutex.
UnlockTelescope_OnSuccess(h) ==
  /\ pc[h] \in {"return", "error"}
  /\ mu' = IF pc[h] = "error" THEN mu ELSE Free
  /\ apart' = (apart \/ pc[h] = "error")
  /\ IF pc[h] = "error" \/ moves[h] = << >>
     THEN /\ pc' = [pc EXCEPT ![h] = "ready"]
          /\ moves' = [moves EXCEPT ![h] = << >>]
          /\ disturbed' = disturbed \ {h}
     ELSE /\ pc' = [pc EXCEPT ![h] = "wait"]
          /\ UNCHANGED <<moves, disturbed>>
  /\ UNCHANGED <<extensionMM, moving>>

\* They unlock it however the moves ended; an error ends the handler's call.
UnlockTelescope(h) ==
  /\ pc[h] \in {"return", "error"}
  /\ mu' = Free
  /\ apart' = (apart \/ pc[h] = "error")
  /\ IF pc[h] = "error" \/ moves[h] = << >>
     THEN /\ pc' = [pc EXCEPT ![h] = "ready"]
          /\ moves' = [moves EXCEPT ![h] = << >>]
          /\ disturbed' = disturbed \ {h}
     ELSE /\ pc' = [pc EXCEPT ![h] = "wait"]
          /\ UNCHANGED <<moves, disturbed>>
  /\ UNCHANGED <<extensionMM, moving>>

-------------------------------------------------------------------------------
(***************************************************************************)
(* Actuator.move, by a handler that holds the telescope or by an operator. *)
(***************************************************************************)

\* Mutant: an error of the left move does not keep the right one from moving.
AfterMove_IgnoresLeft(u, ok) ==
  CASE u \in Operators                       -> "ready"
    [] u \in Handlers /\ side(u) = "left"     -> "begin"
    [] u \in Handlers /\ side(u) = "right" /\ ok  -> "return"
    [] u \in Handlers /\ side(u) = "right" /\ ~ok -> "error"

\* Where a user goes on after a move that succeeded (ok) or not.
AfterMove(u, ok) ==
  CASE u \in Operators                         -> "ready"
    [] u \in Handlers /\ ~ok                    -> "error"
    [] u \in Handlers /\ ok /\ side(u) = "left"  -> "begin"
    [] u \in Handlers /\ ok /\ side(u) = "right" -> "return"

Operate(o, s, mm) ==
  /\ pc[o] = "ready"
  /\ pc' = [pc EXCEPT ![o] = "begin"]
  /\ moves' = [moves EXCEPT ![o] = << Move(s, mm) >>]
  /\ UNCHANGED <<extensionMM, moving, mu, ghosts>>

\* The move is over and the user's next move, if any, is at the head.
Finish(u, ok) ==
  /\ pc' = [pc EXCEPT ![u] = AfterMove(u, ok)]
  /\ moves' = [moves EXCEPT ![u] = Tail(@)]

\* First critical section: one move at a time, and within reach.
BeginMove(u) ==
  /\ pc[u] = "begin"
  /\ IF moving[side(u)] \/ to(u) < 0 \/ to(u) > MaxMM
     THEN Finish(u, FALSE) /\ UNCHANGED moving
     ELSE /\ moving' = [moving EXCEPT ![side(u)] = TRUE]
          /\ pc' = [pc EXCEPT ![u] = "select"]
          /\ UNCHANGED moves
  /\ UNCHANGED <<extensionMM, mu, ghosts>>

\* The select: a context that is done ends the move where it is, and with it
\* the call, so nobody looks at that context again.
Select(u) ==
  /\ pc[u] = "select"
  /\ \E next \in {"commit", "end"} : pc' = [pc EXCEPT ![u] = next]
  /\ UNCHANGED <<extensionMM, moving, mu, moves, ghosts>>

\* Second critical section; the deferred one follows it, with success.
CommitMove(u) ==
  /\ pc[u] = "commit"
  /\ extensionMM' = [extensionMM EXCEPT ![side(u)] = to(u)]
  /\ pc' = [pc EXCEPT ![u] = "moved"]
  /\ apart' = (apart \/ u \in Operators)
  /\ disturbed' = disturbed \cup { h \in Handlers \ {u} : pc[h] # "ready" }
  /\ UNCHANGED <<moving, mu, moves>>

\* Mutant: a cancelled move leaves the actuator marked as moving.
EndMove_OnSuccess(u) ==
  /\ pc[u] \in {"end", "moved"}
  /\ moving' = IF pc[u] = "moved" THEN [moving EXCEPT ![side(u)] = FALSE] ELSE moving
  /\ Finish(u, pc[u] = "moved")
  /\ UNCHANGED <<extensionMM, mu, ghosts>>

EndMove(u) ==
  /\ pc[u] \in {"end", "moved"}
  /\ moving' = [moving EXCEPT ![side(u)] = FALSE]
  /\ Finish(u, pc[u] = "moved")
  /\ UNCHANGED <<extensionMM, mu, ghosts>>

HandlerStep(h) == LookAt(h, "left") \/ LookAt(h, "right") \/ UnlockTelescope(h)

MoveStep(u) == BeginMove(u) \/ Select(u) \/ CommitMove(u) \/ EndMove(u)

TelescopeNext ==
  \/ \E h \in Handlers :
       \/ \E depth \in Depths : Pickup(h, depth) \/ Deposit(h, depth)
       \/ HandlerStep(h) \/ LockTelescope(h)
  \/ \E o \in Operators, s \in Sides, mm \in Depths \cup Presets : Operate(o, s, mm)
  \/ \E u \in Users : MoveStep(u)

TelescopeSpec == TelescopeInit /\ [][TelescopeNext]_telescopeVars

\* Nobody is descheduled for good, and sync.Mutex hands the lock to a waiter
\* that has waited long enough.
TelescopeFairness ==
  /\ \A u \in Users : WF_telescopeVars(MoveStep(u))
  /\ \A h \in Handlers : WF_telescopeVars(HandlerStep(h)) /\ SF_telescopeVars(LockTelescope(h))

FairTelescopeSpec == TelescopeSpec /\ TelescopeFairness
-------------------------------------------------------------------------------
\* A handler is inside a critical section of the telescope.
Locked(h) ==
  pc[h] \in {"begin", "select", "commit", "end", "moved", "return", "error"}

\* Types, and the mutex is held exactly by the handler that is inside.
TelescopeTypeOK ==
  /\ extensionMM \in [Sides -> 0 .. MaxMM]
  /\ moving \in [Sides -> BOOLEAN]
  /\ pc \in [Users -> {"ready", "left?", "right?", "wait", "begin", "select",
                       "commit", "end", "moved", "return", "error"}]
  /\ moves \in [Users -> Seq([side : Sides, to : Depths \cup Presets])]
  /\ apart \in BOOLEAN /\ disturbed \subseteq Handlers
  /\ mu \in Handlers \cup {Free}
  /\ \A h \in Handlers : mu = h <=> Locked(h)

\* An actuator is marked as moving exactly while one user moves it, whether
\* moves succeed, are refused or are cancelled: no two users move it at once,
\* and no way out of a move leaves it blocked for everybody after.
MovingOwned ==
  /\ \A u, v \in Users : Moving(u) /\ Moving(v) /\ side(u) = side(v) => u = v
  /\ \A s \in Sides : moving[s] <=> \E u \in Users : Moving(u) /\ side(u) = s

\* The two actuators differ, between two calls, only when the last call of the
\* telescope reported an error or an operator has moved one of them since that
\* call began: whatever skew was there before, one successful call removes it.
SkewOnlyAfterFailure ==
  mu = Free /\ ~apart => extensionMM["left"] = extensionMM["right"]

\* Pickup starts to extend with both actuators retracted, also after calls that
\* stopped half way, unless another user moved one while Pickup ran: its look
\* at the actuators and its extension are not one critical section.
PickupStartsRetracted ==
  \A h \in Handlers \ disturbed :
    pc[h] = "begin" /\ Len(moves[h]) = 2 /\ to(h) # 0 => \A s \in Sides : IsRetracted(s)

\* Every Pickup and Deposit returns, whoever else uses the telescope.
CallsReturn == \A h \in Handlers : pc[h] # "ready" ~> pc[h] = "ready"
================================================================================

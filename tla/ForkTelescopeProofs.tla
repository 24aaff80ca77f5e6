--------------------------- MODULE ForkTelescopeProofs ---------------------------
(***************************************************************************)
(* Theorems about ForkTelescope for every number of handlers and operators *)
(* and every set of depths: how the two actuators stand when nobody holds  *)
(* the telescope, whichever moves fail.                                    *)
(***************************************************************************)
EXTENDS ForkTelescope, SequenceTheorems, TLAPS

Targets == Depths \cup Presets
ActuatorMove == [side : Sides, to : Targets]

Points == {"ready", "left?", "right?", "wait", "begin", "select",
           "commit", "end", "moved", "return", "error"}

\* Where a user has an actuator move at hand.
MovePoints == {"begin", "select", "commit", "end", "moved"}

\* The moves of a handler come in pairs, left before right, to one target.
InOrder(m) ==
  /\ Len(m) <= 4
  /\ \A j \in 1..Len(m) : m[j].side = "left" <=> Len(m) - j \in {1, 3}
  /\ \A j \in 1..Len(m) : m[j].side = "left" => m[j].to = m[j + 1].to

\* A handler outside the telescope has whole pairs left.
PairsLeft(p, m) ==
  /\ p \in {"left?", "right?"} => Len(m) = 2
  /\ p = "wait" => Len(m) \in {2, 4}
  /\ p = "return" => Len(m) \in {0, 2}

\* What the place of user u says about its moves.
MovesFit(u, p, m) ==
  /\ p \in MovePoints => m # << >>
  /\ p \in {"select", "commit"} => Head(m).to \in 0..MaxMM
  /\ u \in Handlers => InOrder(m) /\ PairsLeft(p, m)

\* The types, strengthened so that they are inductive.
MovesInv ==
  /\ TelescopeTypeOK
  /\ \A u \in Users : MovesFit(u, pc[u], moves[u])

-------------------------------------------------------------------------------
(***************************************************************************)
(* Lists of moves.                                                         *)
(***************************************************************************)

\* Targets are numbers.
LEMMA TargetsAreNumbers == Targets \subseteq Int
BY TelescopeAssumption DEF Targets, Presets

\* The first move of a list and the moves after it.
LEMMA FirstMove ==
  ASSUME NEW m \in Seq(ActuatorMove), m # << >>
  PROVE  /\ Head(m) = m[1] /\ Head(m) \in ActuatorMove
         /\ Head(m).side \in Sides /\ Head(m).to \in Targets
         /\ Tail(m) \in Seq(ActuatorMove)
         /\ Len(m) \in Nat \ {0} /\ Len(Tail(m)) = Len(m) - 1
         /\ \A j \in 1..Len(m) - 1 : Tail(m)[j] = m[j + 1]
<1>1. /\ Head(m) \in ActuatorMove /\ Tail(m) \in Seq(ActuatorMove)
      /\ Len(Tail(m)) = Len(m) - 1
      /\ \A j \in 1..Len(Tail(m)) : Tail(m)[j] = m[j + 1]
  BY HeadTailProperties
<1>2. Len(m) \in Nat \ {0} /\ Head(m) = m[1]
  BY EmptySeq
<1> QED
  BY <1>1, <1>2 DEF ActuatorMove

\* A pair of moves is in order.
LEMMA PairInOrder ==
  ASSUME NEW mm \in Targets
  PROVE  /\ Both(mm) \in Seq(ActuatorMove) /\ Len(Both(mm)) = 2
         /\ Both(mm)[1] = Move("left", mm) /\ Both(mm)[2] = Move("right", mm)
         /\ InOrder(Both(mm))
<1>1. Move("left", mm) \in ActuatorMove /\ Move("right", mm) \in ActuatorMove
  BY DEF Move, ActuatorMove, Sides
<1>2. /\ Both(mm) \in Seq(ActuatorMove) /\ Len(Both(mm)) = 2
      /\ Both(mm)[1] = Move("left", mm) /\ Both(mm)[2] = Move("right", mm)
  BY <1>1 DEF Both
<1> QED
  BY <1>2 DEF InOrder, Move

\* Two pairs, one after the other, are in order.
LEMMA PairsInOrder ==
  ASSUME NEW a \in Targets, NEW m \in Seq(ActuatorMove), Len(m) = 2, InOrder(m)
  PROVE  /\ Both(a) \o m \in Seq(ActuatorMove) /\ Len(Both(a) \o m) = 4
         /\ (Both(a) \o m)[1].to = a /\ (Both(a) \o m)[3] = m[1]
         /\ InOrder(Both(a) \o m)
<1> DEFINE l == Both(a) \o m
<1>1. /\ Both(a) \in Seq(ActuatorMove) /\ Len(Both(a)) = 2
      /\ Both(a)[1] = Move("left", a) /\ Both(a)[2] = Move("right", a)
  BY PairInOrder
<1>2. /\ l \in Seq(ActuatorMove) /\ Len(l) = 2 + 2
      /\ \A j \in 1..2 + 2 : l[j] = IF j <= 2 THEN Both(a)[j] ELSE m[j - 2]
  <2>1. /\ Both(a) \o m \in Seq(ActuatorMove)
        /\ Len(Both(a) \o m) = Len(Both(a)) + Len(m)
        /\ \A j \in 1..Len(Both(a)) + Len(m) : (Both(a) \o m)[j] =
             IF j <= Len(Both(a)) THEN Both(a)[j] ELSE m[j - Len(Both(a))]
    BY <1>1, ConcatProperties
  <2> QED
    BY <1>1, <2>1
<1> HIDE DEF l
<1>3. /\ Len(l) = 4
      /\ l[1] = Move("left", a) /\ l[2] = Move("right", a) /\ l[3] = m[1] /\ l[4] = m[2]
  BY <1>1, <1>2
<1>4. m[1].side = "left" /\ m[2].side # "left" /\ m[1].to = m[2].to
  BY DEF InOrder
<1>5. InOrder(l)
  <2>1. ASSUME NEW j \in 1..4
        PROVE  /\ l[j].side = "left" <=> 4 - j \in {1, 3}
               /\ l[j].side = "left" => l[j].to = l[j + 1].to
    <3>1. CASE j = 1
      BY <1>3, <3>1 DEF Move
    <3>2. CASE j = 2
      BY <1>3, <3>2 DEF Move
    <3>3. CASE j = 3
      BY <1>3, <1>4, <3>3
    <3>4. CASE j = 4
      BY <1>3, <1>4, <3>4
    <3> QED
      BY <3>1, <3>2, <3>3, <3>4
  <2> QED
    BY <1>3, <2>1 DEF InOrder
<1>6. l[1].to = a
  BY <1>3 DEF Move
<1> QED
  BY <1>2, <1>3, <1>5, <1>6 DEF l

\* After its first move a list of moves is still in order; a left move leaves
\* the right move to the same target at the head.
LEMMA RestInOrder ==
  ASSUME NEW m \in Seq(ActuatorMove), m # << >>, InOrder(m)
  PROVE  /\ InOrder(Tail(m))
         /\ Head(m).side = "left" => /\ Len(m) \in {2, 4} /\ Tail(m) # << >>
                                     /\ Head(Tail(m)).to = Head(m).to
         /\ Head(m).side = "right" => Len(m) \in {1, 3}
<1> DEFINE t == Tail(m)
<1>1. /\ Head(m) = m[1] /\ t \in Seq(ActuatorMove)
      /\ \A j \in 1..Len(m) - 1 : t[j] = m[j + 1]
  BY FirstMove
<1>2. Len(m) \in Nat \ {0} /\ Len(t) = Len(m) - 1
  BY FirstMove
<1> HIDE DEF t
<1>3. Len(m) \in 1..4
  <2>1. Len(m) <= 4
    BY DEF InOrder
  <2> QED
    BY <1>2, <2>1
<1>4. ASSUME NEW j \in 1..Len(m)
      PROVE  /\ m[j].side = "left" <=> Len(m) - j \in {1, 3}
             /\ m[j].side = "left" => m[j].to = m[j + 1].to
  BY <1>4 DEF InOrder
<1>5. ASSUME NEW j \in 1..Len(t)
      PROVE  /\ t[j].side = "left" <=> Len(t) - j \in {1, 3}
             /\ t[j].side = "left" => t[j].to = t[j + 1].to
  <2>1. j \in Nat /\ j + 1 \in 1..Len(m) /\ j \in 1..Len(m) - 1
    BY <1>2
  <2>2. t[j] = m[j + 1]
    BY <1>1, <2>1
  <2>3. t[j].side = "left" <=> Len(m) - (j + 1) \in {1, 3}
    BY <1>4, <2>1, <2>2
  <2>4. ASSUME t[j].side = "left" PROVE t[j].to = t[j + 1].to
    <3>1. m[j + 1].to = m[(j + 1) + 1].to
      BY <1>4, <2>1, <2>2, <2>4
    <3>2. j + 1 \in 1..Len(m) - 1
      BY <1>2, <2>1, <2>3, <2>4
    <3>3. t[j + 1] = m[(j + 1) + 1]
      BY <1>1, <3>2
    <3> QED
      BY <2>2, <3>1, <3>3
  <2>5. Len(t) - j = Len(m) - (j + 1)
    BY <1>2, <2>1
  <2> QED
    BY <2>3, <2>4, <2>5
<1>6. Len(t) <= 4
  <2>1. Len(m) <= 4
    BY DEF InOrder
  <2> QED
    BY <1>2, <2>1
<1>7. InOrder(t)
  BY <1>5, <1>6 DEF InOrder
<1>8. 1 \in 1..Len(m) /\ 1 + 1 = 2
  BY <1>2
<1>9. m[1].side = "left" <=> Len(m) \in {2, 4}
  <2>1. m[1].side = "left" <=> Len(m) - 1 \in {1, 3}
    BY <1>4, <1>8
  <2> QED
    BY <1>3, <2>1
<1>10. ASSUME m[1].side = "left" PROVE t # << >> /\ Head(t).to = m[1].to
  <2>1. Len(m) \in {2, 4} /\ m[1].to = m[2].to
    BY <1>4, <1>8, <1>9, <1>10
  <2>2. t[1] = m[2]
    BY <1>1, <1>8, <2>1
  <2>3. Len(t) # 0
    BY <1>2, <2>1
  <2>4. t # << >>
    BY <1>1, <2>3, EmptySeq
  <2>5. Head(t) = t[1]
    BY <1>1, <2>4, FirstMove
  <2> QED
    BY <2>1, <2>2, <2>4, <2>5
<1> QED
  BY <1>1, <1>3, <1>7, <1>9, <1>10 DEF t

-------------------------------------------------------------------------------
(***************************************************************************)
(* The types, and what the place of a user says about its moves.           *)
(***************************************************************************)

\* User u goes from where it stands to p with the moves m.
Goes(u, p, m) == pc' = [pc EXCEPT ![u] = p] /\ moves' = [moves EXCEPT ![u] = m]

\* A step that takes one user to a place its moves fit, and leaves the mutex as
\* that place asks, keeps the invariant.
LEMMA GoesKeepsMoves ==
  ASSUME MovesInv, NEW u \in Users, NEW p \in Points, NEW m \in Seq(ActuatorMove),
         Goes(u, p, m), MovesFit(u, p, m),
         extensionMM' \in [Sides -> 0..MaxMM], moving' \in [Sides -> BOOLEAN],
         apart' \in BOOLEAN, disturbed' \subseteq Handlers,
         mu' \in Handlers \cup {Free},
         \A h \in Handlers : mu' = h <=>
           IF h = u THEN p \in MovePoints \cup {"return", "error"} ELSE mu = h
  PROVE  MovesInv'
<1>1. pc' \in [Users -> Points] /\ moves' \in [Users -> Seq(ActuatorMove)]
  BY DEF Goes, MovesInv, TelescopeTypeOK, Points, ActuatorMove, Targets
<1>2. /\ pc'[u] = p /\ moves'[u] = m
      /\ \A v \in Users \ {u} : pc'[v] = pc[v] /\ moves'[v] = moves[v]
  BY DEF Goes, MovesInv, TelescopeTypeOK
<1>3. \A v \in Users : MovesFit(v, pc'[v], moves'[v])
  BY <1>2 DEF MovesInv
<1>4. ASSUME NEW h \in Handlers PROVE mu' = h <=> Locked(h)'
  <2>1. h \in Users
    BY DEF Users
  <2>2. CASE h = u
    BY <1>2, <2>2 DEF Locked, MovePoints
  <2>3. CASE h # u
    BY <1>2, <2>1, <2>3 DEF Locked, MovesInv, TelescopeTypeOK
  <2> QED
    BY <2>2, <2>3
<1>5. TelescopeTypeOK'
  BY <1>1, <1>4 DEF TelescopeTypeOK, Points, ActuatorMove, Targets
<1> QED
  BY <1>3, <1>5 DEF MovesInv

\* What every user has, by the invariant.
LEMMA UserFacts ==
  ASSUME MovesInv, NEW u \in Users
  PROVE  /\ pc[u] \in Points /\ moves[u] \in Seq(ActuatorMove)
         /\ MovesFit(u, pc[u], moves[u])
         /\ mu \in Handlers \cup {Free}
         /\ \A h \in Handlers : mu = h <=> pc[h] \in MovePoints \cup {"return", "error"}
         /\ extensionMM \in [Sides -> 0..MaxMM] /\ moving \in [Sides -> BOOLEAN]
         /\ apart \in BOOLEAN /\ disturbed \subseteq Handlers
         /\ \A v \in Users : pc[v] \in Points
         /\ pc = [pc EXCEPT ![u] = pc[u]] /\ moves = [moves EXCEPT ![u] = moves[u]]
BY DEF MovesInv, TelescopeTypeOK, Points, ActuatorMove, Targets, Locked, MovePoints

\* The calls of a handler, up to its lock of the telescope and after it.
LEMMA HandlerKeepsMoves ==
  ASSUME MovesInv, NEW h \in Handlers,
         \/ \E depth \in Depths : Pickup(h, depth) \/ Deposit(h, depth)
         \/ HandlerStep(h) \/ LockTelescope(h)
  PROVE  MovesInv'
<1>0. h \in Users /\ 0 \in Targets /\ Depths \subseteq Targets
  BY DEF Users, Targets, Presets
<1>u. /\ pc[h] \in Points /\ moves[h] \in Seq(ActuatorMove)
      /\ MovesFit(h, pc[h], moves[h])
      /\ mu \in Handlers \cup {Free}
      /\ \A g \in Handlers : mu = g <=> pc[g] \in MovePoints \cup {"return", "error"}
      /\ extensionMM \in [Sides -> 0..MaxMM] /\ moving \in [Sides -> BOOLEAN]
      /\ apart \in BOOLEAN /\ disturbed \subseteq Handlers
      /\ pc = [pc EXCEPT ![h] = pc[h]] /\ moves = [moves EXCEPT ![h] = moves[h]]
  BY <1>0, UserFacts
<1>1. ASSUME NEW depth \in Depths, Pickup(h, depth) PROVE MovesInv'
  <2>1. Both(depth) \in Seq(ActuatorMove) /\ MovesFit(h, "left?", Both(depth))
    BY <1>0, PairInOrder DEF MovesFit, PairsLeft, MovePoints
  <2>2. Goes(h, "left?", Both(depth))
    BY <1>1 DEF Goes, Pickup
  <2> QED
    BY <1>0, <1>u, <1>1, <2>1, <2>2, GoesKeepsMoves DEF Pickup, ghosts, Points, MovePoints
<1>2. ASSUME NEW depth \in Depths, Deposit(h, depth) PROVE MovesInv'
  <2> DEFINE m == Both(depth) \o Both(0)
  <2>1. m \in Seq(ActuatorMove) /\ Len(m) = 4 /\ InOrder(m)
    BY <1>0, PairInOrder, PairsInOrder
  <2>2. MovesFit(h, "wait", m)
    BY <2>1 DEF MovesFit, PairsLeft, MovePoints
  <2>3. Goes(h, "wait", m)
    BY <1>2 DEF Goes, Deposit
  <2> HIDE DEF m
  <2> QED
    BY <1>0, <1>u, <1>2, <2>1, <2>2, <2>3, GoesKeepsMoves DEF Deposit, ghosts, Points, MovePoints
<1>3. ASSUME NEW s \in Sides, LookAt(h, s) PROVE MovesInv'
  <2>1. pc[h] \in {"left?", "right?"}
    BY <1>3 DEF LookAt, LookPoint, Sides
  <2>2. Len(moves[h]) = 2 /\ InOrder(moves[h])
    BY <1>u, <2>1 DEF MovesFit, PairsLeft
  <2>3. PICK p \in {"right?", "wait"} : /\ pc' = [pc EXCEPT ![h] = p]
                                        /\ p = "right?" => IsRetracted(s)
    BY <1>3 DEF LookAt
  <2>4. CASE IsRetracted(s)
    <3>1. Goes(h, p, moves[h])
      BY <1>u, <1>3, <2>3, <2>4 DEF LookAt, Goes
    <3>2. MovesFit(h, p, moves[h])
      BY <2>2 DEF MovesFit, PairsLeft, MovePoints
    <3>3. UNCHANGED <<extensionMM, moving, mu, apart, disturbed>> /\ p \in Points
      BY <1>3 DEF LookAt, ghosts, Points
    <3>4. \A g \in Handlers : mu' = g <=>
            IF g = h THEN p \in MovePoints \cup {"return", "error"} ELSE mu = g
      BY <1>u, <2>1, <3>3 DEF MovePoints
    <3> QED
      BY <1>0, <1>u, <3>1, <3>2, <3>3, <3>4, GoesKeepsMoves
  <2>5. CASE ~IsRetracted(s)
    <3> DEFINE m == Both(0) \o moves[h]
    <3>1. m \in Seq(ActuatorMove) /\ Len(m) = 4 /\ InOrder(m)
      BY <1>0, <1>u, <2>2, PairsInOrder
    <3>2. Goes(h, "wait", m)
      BY <1>3, <2>3, <2>5 DEF LookAt, Goes
    <3>3. MovesFit(h, "wait", m)
      BY <3>1 DEF MovesFit, PairsLeft, MovePoints
    <3> HIDE DEF m
    <3> QED
      BY <1>0, <1>u, <1>3, <2>1, <3>1, <3>2, <3>3, GoesKeepsMoves
      DEF LookAt, ghosts, Points, MovePoints
  <2> QED
    BY <2>4, <2>5
<1>4. CASE LockTelescope(h)
  <2>1. Goes(h, "begin", moves[h])
    BY <1>u, <1>4 DEF LockTelescope, Goes
  <2>2. Len(moves[h]) \in {2, 4} /\ InOrder(moves[h])
    BY <1>u, <1>4 DEF LockTelescope, MovesFit, PairsLeft
  <2>3. moves[h] # << >>
    BY <2>2
  <2>4. MovesFit(h, "begin", moves[h])
    BY <2>2, <2>3 DEF MovesFit, PairsLeft, MovePoints
  <2>5. /\ mu = Free /\ mu' = h /\ apart' \in BOOLEAN
        /\ UNCHANGED <<extensionMM, moving, disturbed>> /\ "begin" \in Points
    BY <1>4 DEF LockTelescope, Points
  <2>6. \A g \in Handlers : mu' = g <=>
          IF g = h THEN "begin" \in MovePoints \cup {"return", "error"} ELSE mu = g
    BY <2>5, TelescopeAssumption DEF MovePoints, Users
  <2>7. mu' \in Handlers \cup {Free}
    BY <2>5
  <2> QED
    BY <1>0, <1>u, <2>1, <2>4, <2>5, <2>6, <2>7, GoesKeepsMoves
<1>5. CASE UnlockTelescope(h)
  <2>0. << >> \in Seq(ActuatorMove) /\ MovesFit(h, "ready", << >>)
    BY DEF MovesFit, PairsLeft, MovePoints, InOrder
  <2>1. /\ mu = h /\ mu' = Free /\ apart' \in BOOLEAN /\ disturbed' \subseteq Handlers
        /\ UNCHANGED <<extensionMM, moving>>
    BY <1>u, <1>5 DEF UnlockTelescope, MovePoints
  <2>u. ASSUME NEW p \in {"ready", "wait"}
        PROVE  /\ p \in Points
               /\ \A g \in Handlers : mu' = g <=>
                    IF g = h THEN p \in MovePoints \cup {"return", "error"} ELSE mu = g
    BY <2>1, TelescopeAssumption DEF Points, MovePoints, Users
  <2>f. mu' \in Handlers \cup {Free}
    BY <2>1
  <2>2. CASE pc[h] = "error" \/ moves[h] = << >>
    <3>1. Goes(h, "ready", << >>)
      BY <1>5, <2>2 DEF UnlockTelescope, Goes
    <3> QED
      BY <1>0, <1>u, <2>0, <2>1, <2>u, <2>f, <3>1, GoesKeepsMoves
  <2>3. CASE ~(pc[h] = "error" \/ moves[h] = << >>)
    <3>1. Goes(h, "wait", moves[h])
      BY <1>u, <1>5, <2>3 DEF UnlockTelescope, Goes
    <3>2. Len(moves[h]) \in {0, 2} /\ InOrder(moves[h])
      BY <1>u, <1>5, <2>3 DEF UnlockTelescope, MovesFit, PairsLeft
    <3>3. Len(moves[h]) # 0
      BY <1>u, <2>3, EmptySeq
    <3>4. MovesFit(h, "wait", moves[h])
      BY <3>2, <3>3 DEF MovesFit, PairsLeft, MovePoints
    <3> QED
      BY <1>0, <1>u, <2>1, <2>u, <2>f, <3>1, <3>4, GoesKeepsMoves
  <2> QED
    BY <2>2, <2>3
<1> QED
  BY <1>1, <1>2, <1>3, <1>4, <1>5 DEF HandlerStep, Sides

\* The end of a move leaves a handler inside the telescope, with moves that fit.
LEMMA FinishFits ==
  ASSUME MovesInv, NEW u \in Users, pc[u] \in MovePoints, NEW ok \in BOOLEAN,
         Finish(u, ok)
  PROVE  /\ Goes(u, AfterMove(u, ok), Tail(moves[u]))
         /\ Tail(moves[u]) \in Seq(ActuatorMove)
         /\ AfterMove(u, ok) \in Points
         /\ MovesFit(u, AfterMove(u, ok), Tail(moves[u]))
         /\ u \in Operators => AfterMove(u, ok) = "ready"
         /\ u \in Handlers => AfterMove(u, ok) \in {"begin", "return", "error"}
<1> DEFINE m == moves[u]
           t == Tail(moves[u])
           p == AfterMove(u, ok)
<1>1. m \in Seq(ActuatorMove) /\ MovesFit(u, pc[u], m) /\ m # << >>
  BY UserFacts DEF MovesFit
<1>2. t \in Seq(ActuatorMove) /\ side(u) \in Sides /\ side(u) = Head(m).side
  BY <1>1, FirstMove DEF side
<1>3. Len(m) \in Nat /\ Len(t) = Len(m) - 1
  BY <1>1, FirstMove
<1>4. Goes(u, p, t)
  BY DEF Finish, Goes, MovesInv, TelescopeTypeOK
<1>5. CASE u \in Operators
  <2>1. u \notin Handlers /\ p = "ready"
    BY <1>5, TelescopeAssumption DEF AfterMove
  <2> QED
    BY <1>2, <1>4, <2>1 DEF Points, MovesFit, MovePoints
<1>6. CASE u \in Handlers
  <2>1. u \notin Operators /\ side(u) \in {"left", "right"}
    BY <1>2, <1>6, TelescopeAssumption DEF Sides
  <2>2. InOrder(m)
    BY <1>1, <1>6 DEF MovesFit
  <2>3. /\ InOrder(t)
        /\ side(u) = "left" => t # << >>
        /\ side(u) = "right" => Len(m) \in {1, 3}
    BY <1>1, <1>2, <2>2, RestInOrder
  <2>4. CASE ~ok
    <3>1. p = "error"
      BY <1>6, <2>1, <2>4 DEF AfterMove
    <3> QED
      BY <1>2, <1>4, <2>1, <2>3, <3>1 DEF Points, MovesFit, MovePoints, PairsLeft
  <2>5. CASE ok /\ side(u) = "left"
    <3>1. p = "begin"
      BY <1>6, <2>1, <2>5 DEF AfterMove
    <3> QED
      BY <1>2, <1>4, <2>1, <2>3, <2>5, <3>1 DEF Points, MovesFit, MovePoints, PairsLeft
  <2>6. CASE ok /\ side(u) = "right"
    <3>1. p = "return"
      BY <1>6, <2>1, <2>6 DEF AfterMove
    <3>2. Len(t) \in {0, 2}
      BY <1>3, <2>3, <2>6
    <3> QED
      BY <1>2, <1>4, <2>1, <2>3, <3>1, <3>2 DEF Points, MovesFit, MovePoints, PairsLeft
  <2> QED
    BY <2>1, <2>4, <2>5, <2>6
<1> QED
  BY <1>5, <1>6 DEF Users

\* The moves of an actuator, by handlers and by operators.
LEMMA MoveKeepsMoves ==
  ASSUME MovesInv, NEW u \in Users, MoveStep(u)
  PROVE  MovesInv'
<1>u. /\ pc[u] \in Points /\ moves[u] \in Seq(ActuatorMove)
      /\ MovesFit(u, pc[u], moves[u])
      /\ mu \in Handlers \cup {Free}
      /\ \A g \in Handlers : mu = g <=> pc[g] \in MovePoints \cup {"return", "error"}
      /\ extensionMM \in [Sides -> 0..MaxMM] /\ moving \in [Sides -> BOOLEAN]
      /\ apart \in BOOLEAN /\ disturbed \subseteq Handlers
      /\ pc = [pc EXCEPT ![u] = pc[u]] /\ moves = [moves EXCEPT ![u] = moves[u]]
  BY UserFacts
<1>1. pc[u] \in MovePoints /\ moves[u] # << >> /\ mu' = mu
  BY <1>u DEF MoveStep, BeginMove, Select, CommitMove, EndMove, MovePoints, MovesFit
<1>2. side(u) \in Sides /\ to(u) \in Int
  BY <1>u, <1>1, FirstMove, TargetsAreNumbers DEF side, to
\* A place inside the telescope keeps the mutex with the handler.
<1>3. ASSUME NEW p \in Points, u \in Handlers => p \in MovePoints \cup {"return", "error"}
      PROVE  \A g \in Handlers : mu' = g <=>
               IF g = u THEN p \in MovePoints \cup {"return", "error"} ELSE mu = g
  BY <1>u, <1>1, <1>3
<1>4. ASSUME NEW ok \in BOOLEAN, Finish(u, ok), moving' \in [Sides -> BOOLEAN],
             UNCHANGED <<extensionMM, mu, ghosts>>
      PROVE  MovesInv'
  <2>1. /\ Goes(u, AfterMove(u, ok), Tail(moves[u]))
        /\ Tail(moves[u]) \in Seq(ActuatorMove)
        /\ AfterMove(u, ok) \in Points
        /\ MovesFit(u, AfterMove(u, ok), Tail(moves[u]))
        /\ u \in Handlers => AfterMove(u, ok) \in MovePoints \cup {"return", "error"}
    BY <1>1, <1>4, FinishFits DEF MovePoints
  <2>2. \A g \in Handlers : mu' = g <=>
          IF g = u THEN AfterMove(u, ok) \in MovePoints \cup {"return", "error"} ELSE mu = g
    BY <1>3, <2>1
  <2> QED
    BY <1>u, <1>4, <2>1, <2>2, GoesKeepsMoves DEF ghosts
\* A move goes on to place p with the same moves.
<1>5. ASSUME NEW p \in MovePoints, pc' = [pc EXCEPT ![u] = p], UNCHANGED moves,
             p \in {"select", "commit"} => to(u) \in 0..MaxMM,
             extensionMM' \in [Sides -> 0..MaxMM], moving' \in [Sides -> BOOLEAN],
             apart' \in BOOLEAN, disturbed' \subseteq Handlers
      PROVE  MovesInv'
  <2>1. Goes(u, p, moves[u])
    BY <1>u, <1>5 DEF Goes
  <2>2. MovesFit(u, p, moves[u]) /\ p \in Points
    BY <1>u, <1>1, <1>5 DEF MovesFit, MovePoints, PairsLeft, to, Points
  <2>3. \A g \in Handlers : mu' = g <=>
          IF g = u THEN p \in MovePoints \cup {"return", "error"} ELSE mu = g
    BY <1>3, <2>2
  <2> QED
    BY <1>u, <1>1, <1>5, <2>1, <2>2, <2>3, GoesKeepsMoves
<1>6. CASE BeginMove(u)
  <2>1. CASE moving[side(u)] \/ to(u) < 0 \/ to(u) > MaxMM
    BY <1>u, <1>4, <1>6, <2>1 DEF BeginMove
  <2>2. CASE ~(moving[side(u)] \/ to(u) < 0 \/ to(u) > MaxMM)
    <3>1. to(u) \in 0..MaxMM
      BY <1>2, <2>2, TelescopeAssumption
    <3>2. moving' \in [Sides -> BOOLEAN]
      BY <1>u, <1>6, <2>2 DEF BeginMove
    <3>3. /\ pc' = [pc EXCEPT ![u] = "select"] /\ UNCHANGED <<moves, extensionMM, apart, disturbed>>
          /\ "select" \in MovePoints
      BY <1>6, <2>2 DEF BeginMove, ghosts, MovePoints
    <3> QED
      BY <1>u, <1>5, <3>1, <3>2, <3>3
  <2> QED
    BY <2>1, <2>2
<1>7. CASE Select(u)
  <2>1. PICK p \in {"commit", "end"} : pc' = [pc EXCEPT ![u] = p]
    BY <1>7 DEF Select
  <2>2. /\ to(u) \in 0..MaxMM /\ p \in MovePoints
        /\ UNCHANGED <<extensionMM, moving, moves, apart, disturbed>>
    BY <1>u, <1>7 DEF Select, MovesFit, to, ghosts, MovePoints
  <2> QED
    BY <1>u, <1>5, <2>1, <2>2
<1>8. CASE CommitMove(u)
  <2>1. to(u) \in 0..MaxMM
    BY <1>u, <1>8 DEF CommitMove, MovesFit, to
  <2>2. /\ extensionMM' \in [Sides -> 0..MaxMM] /\ disturbed' \subseteq Handlers
        /\ apart' \in BOOLEAN
    BY <1>u, <1>8, <2>1 DEF CommitMove
  <2>3. /\ pc' = [pc EXCEPT ![u] = "moved"] /\ UNCHANGED <<moving, moves>>
        /\ "moved" \in MovePoints
    BY <1>8 DEF CommitMove, MovePoints
  <2> QED
    BY <1>u, <1>5, <2>2, <2>3
<1>9. CASE EndMove(u)
  <2>1. moving' \in [Sides -> BOOLEAN]
    BY <1>u, <1>9 DEF EndMove
  <2> QED
    BY <1>4, <1>9, <2>1 DEF EndMove
<1> QED
  BY <1>6, <1>7, <1>8, <1>9 DEF MoveStep

\* Every step keeps the invariant.
LEMMA MovesNext == MovesInv /\ [TelescopeNext]_telescopeVars => MovesInv'
<1> SUFFICES ASSUME MovesInv, [TelescopeNext]_telescopeVars PROVE MovesInv'
  OBVIOUS
<1>1. ASSUME NEW h \in Handlers,
             \/ \E depth \in Depths : Pickup(h, depth) \/ Deposit(h, depth)
             \/ HandlerStep(h) \/ LockTelescope(h)
      PROVE  MovesInv'
  BY <1>1, HandlerKeepsMoves
<1>2. ASSUME NEW o \in Operators, NEW s \in Sides, NEW mm \in Targets, Operate(o, s, mm)
      PROVE  MovesInv'
  <2> DEFINE m == << Move(s, mm) >>
  <2>0. o \in Users /\ o \notin Handlers
    BY TelescopeAssumption DEF Users
  <2>1. m \in Seq(ActuatorMove) /\ m # << >>
    BY DEF Move, ActuatorMove
  <2>2. Goes(o, "begin", m) /\ MovesFit(o, "begin", m) /\ "begin" \in Points
    BY <1>2, <2>0, <2>1 DEF Operate, Goes, MovesFit, Points
  <2> HIDE DEF m
  <2>3. UNCHANGED <<extensionMM, moving, mu, apart, disturbed>>
    BY <1>2 DEF Operate, ghosts
  <2>4. /\ extensionMM \in [Sides -> 0..MaxMM] /\ moving \in [Sides -> BOOLEAN]
        /\ apart \in BOOLEAN /\ disturbed \subseteq Handlers /\ mu \in Handlers \cup {Free}
    BY <2>0, UserFacts
  <2> QED
    BY <2>0, <2>1, <2>2, <2>3, <2>4, GoesKeepsMoves
<1>3. ASSUME NEW u \in Users, MoveStep(u) PROVE MovesInv'
  BY <1>3, MoveKeepsMoves
<1>4. CASE UNCHANGED telescopeVars
  BY <1>4 DEF telescopeVars, ghosts, MovesInv, TelescopeTypeOK, MovesFit, Locked
<1> QED
  BY <1>1, <1>2, <1>3, <1>4 DEF TelescopeNext, Targets

\* A new telescope is retracted and free.
LEMMA MovesInit == TelescopeInit => MovesInv
<1> SUFFICES ASSUME TelescopeInit PROVE MovesInv
  OBVIOUS
<1>1. << >> \in Seq(ActuatorMove) /\ \A u \in Users : MovesFit(u, "ready", << >>)
  BY DEF MovesFit, MovePoints, PairsLeft, InOrder
<1>2. \A h \in Handlers : mu # h /\ ~Locked(h)
  BY TelescopeAssumption DEF TelescopeInit, Locked, Users
<1>3. extensionMM \in [Sides -> 0..MaxMM]
  BY TelescopeAssumption DEF TelescopeInit
<1>4. moves \in [Users -> Seq([side : Sides, to : Depths \cup Presets])]
  BY DEF TelescopeInit
<1>5. TelescopeTypeOK
  BY <1>2, <1>3, <1>4 DEF TelescopeInit, TelescopeTypeOK
<1> QED
  BY <1>1, <1>5 DEF MovesInv, TelescopeInit

\* Actuators stay within reach and the telescope's mutex is held exactly by the
\* handler inside it, however moves end (fork/actuator.go, fork/telescope.go).
THEOREM TelescopeTypes == TelescopeSpec => []TelescopeTypeOK
<1>1. MovesInv => TelescopeTypeOK
  BY DEF MovesInv
<1> QED
  BY <1>1, MovesInit, MovesNext, PTL DEF TelescopeSpec

-------------------------------------------------------------------------------
(***************************************************************************)
(* MovingOwned.                                                            *)
(***************************************************************************)

\* Nobody's move begins or ends, and the actuators are marked as before.
LEMMA NobodyMoves ==
  ASSUME MovingOwned, UNCHANGED moving,
         \A v \in Users : Moving(v)' <=> Moving(v),
         \A v \in Users : Moving(v) => moves'[v] = moves[v]
  PROVE  MovingOwned'
<1>1. \A v \in Users : Moving(v) => side(v)' = side(v)
  BY DEF side
<1> QED
  BY <1>1 DEF MovingOwned

\* Every step of a user leaves the place and the moves of the others alone.
LEMMA OthersStay ==
  ASSUME MovesInv, NEW u \in Users, NEW p, pc' = [pc EXCEPT ![u] = p],
         NEW m, moves' = [moves EXCEPT ![u] = m]
  PROVE  /\ pc'[u] = p /\ moves'[u] = m
         /\ \A v \in Users \ {u} : /\ pc'[v] = pc[v] /\ moves'[v] = moves[v]
                                   /\ Moving(v)' <=> Moving(v)
                                   /\ side(v)' = side(v) /\ to(v)' = to(v)
BY DEF MovesInv, TelescopeTypeOK, Moving, side, to

\* A step that is not part of a move leaves all moves alone.
LEMMA OutsideMoves ==
  ASSUME MovesInv, TelescopeNext, ~(\E u \in Users : MoveStep(u))
  PROVE  /\ UNCHANGED <<extensionMM, moving>>
         /\ \E u \in Users : \E p \in Points, m \in Seq(ActuatorMove) :
              Goes(u, p, m) /\ pc[u] \notin MovePoints /\ p \in (Points \ MovePoints) \cup {"begin"}
<1>1. ASSUME NEW h \in Handlers
      PROVE  /\ h \in Users
             /\ pc = [pc EXCEPT ![h] = pc[h]] /\ moves = [moves EXCEPT ![h] = moves[h]]
             /\ moves[h] \in Seq(ActuatorMove)
             /\ << >> \in Seq(ActuatorMove)
             /\ \A depth \in Depths : /\ Both(depth) \in Seq(ActuatorMove)
                                      /\ Both(depth) \o Both(0) \in Seq(ActuatorMove)
             /\ Both(0) \o moves[h] \in Seq(ActuatorMove)
  <2>1. h \in Users /\ moves[h] \in Seq(ActuatorMove) /\ << >> \in Seq(ActuatorMove)
    BY UserFacts DEF Users
  <2>2. pc = [pc EXCEPT ![h] = pc[h]] /\ moves = [moves EXCEPT ![h] = moves[h]]
    BY <2>1, UserFacts
  <2>3. Both(0) \in Seq(ActuatorMove) /\ \A depth \in Depths : Both(depth) \in Seq(ActuatorMove)
    BY PairInOrder DEF Targets, Presets
  <2> QED
    BY <2>1, <2>2, <2>3, ConcatProperties
<1>2. ASSUME NEW h \in Handlers, NEW depth \in Depths, Pickup(h, depth)
      PROVE  /\ UNCHANGED <<extensionMM, moving>>
             /\ Goes(h, "left?", Both(depth)) /\ pc[h] = "ready"
  BY <1>2 DEF Pickup, Goes
<1>3. ASSUME NEW h \in Handlers, NEW depth \in Depths, Deposit(h, depth)
      PROVE  /\ UNCHANGED <<extensionMM, moving>>
             /\ Goes(h, "wait", Both(depth) \o Both(0)) /\ pc[h] = "ready"
  BY <1>3 DEF Deposit, Goes
<1>4. ASSUME NEW h \in Handlers, NEW s \in Sides, LookAt(h, s)
      PROVE  /\ UNCHANGED <<extensionMM, moving>> /\ pc[h] \in {"left?", "right?"}
             /\ \E p \in {"right?", "wait"}, m \in {moves[h], Both(0) \o moves[h]} : Goes(h, p, m)
  <2>1. pc[h] \in {"left?", "right?"}
    BY <1>4 DEF LookAt, LookPoint, Sides
  <2>2. \E p \in {"right?", "wait"} : pc' = [pc EXCEPT ![h] = p]
    BY <1>4 DEF LookAt
  <2>3. \E m \in {moves[h], Both(0) \o moves[h]} : moves' = [moves EXCEPT ![h] = m]
    BY <1>1, <1>4 DEF LookAt
  <2> QED
    BY <1>4, <2>1, <2>2, <2>3 DEF LookAt, Goes
<1>5. ASSUME NEW h \in Handlers, LockTelescope(h)
      PROVE  /\ UNCHANGED <<extensionMM, moving>>
             /\ Goes(h, "begin", moves[h]) /\ pc[h] = "wait"
  BY <1>1, <1>5 DEF LockTelescope, Goes
<1>6. ASSUME NEW h \in Handlers, UnlockTelescope(h)
      PROVE  /\ UNCHANGED <<extensionMM, moving>> /\ pc[h] \in {"return", "error"}
             /\ \E p \in {"ready", "wait"}, m \in {<< >>, moves[h]} : Goes(h, p, m)
  BY <1>1, <1>6 DEF UnlockTelescope, Goes
<1>7. ASSUME NEW o \in Operators, NEW s \in Sides, NEW mm \in Targets, Operate(o, s, mm)
      PROVE  /\ UNCHANGED <<extensionMM, moving>> /\ o \in Users
             /\ << Move(s, mm) >> \in Seq(ActuatorMove)
             /\ Goes(o, "begin", << Move(s, mm) >>) /\ pc[o] = "ready"
  BY <1>7 DEF Operate, Goes, Users, Move, ActuatorMove
<1>8. \/ \E h \in Handlers :
           \/ \E depth \in Depths : Pickup(h, depth) \/ Deposit(h, depth)
           \/ LookAt(h, "left") \/ LookAt(h, "right") \/ UnlockTelescope(h) \/ LockTelescope(h)
      \/ \E o \in Operators, s \in Sides, mm \in Targets : Operate(o, s, mm)
  BY DEF TelescopeNext, HandlerStep, Targets
<1>9. "left" \in Sides /\ "right" \in Sides
  BY DEF Sides
\* What is to be found: a user that goes from outside a move to outside a move.
<1>10. ASSUME NEW u \in Users, pc[u] \in {"ready", "left?", "right?", "wait", "return", "error"},
              NEW p \in {"ready", "left?", "right?", "wait", "begin"},
              NEW m \in Seq(ActuatorMove), Goes(u, p, m)
       PROVE  \E v \in Users : \E q \in Points, n \in Seq(ActuatorMove) :
                Goes(v, q, n) /\ pc[v] \notin MovePoints /\ q \in (Points \ MovePoints) \cup {"begin"}
  <2>1. p \in Points /\ p \in (Points \ MovePoints) \cup {"begin"} /\ pc[u] \notin MovePoints
    BY <1>10 DEF Points, MovePoints
  <2> QED
    BY <1>10, <2>1
<1>11. ASSUME NEW h \in Handlers, NEW depth \in Depths, Pickup(h, depth) \/ Deposit(h, depth)
       PROVE  \E p \in {"left?", "wait"}, m \in Seq(ActuatorMove) :
                Goes(h, p, m) /\ pc[h] = "ready" /\ UNCHANGED <<extensionMM, moving>>
  BY <1>1, <1>2, <1>3, <1>11
<1>12. ASSUME NEW h \in Handlers,
              \/ LookAt(h, "left") \/ LookAt(h, "right") \/ UnlockTelescope(h) \/ LockTelescope(h)
       PROVE  \E p \in {"ready", "right?", "wait", "begin"}, m \in Seq(ActuatorMove) :
                /\ Goes(h, p, m) /\ UNCHANGED <<extensionMM, moving>>
                /\ pc[h] \in {"left?", "right?", "wait", "return", "error"}
  <2>1. CASE LookAt(h, "left") \/ LookAt(h, "right")
    BY <1>1, <1>4, <1>9, <2>1
  <2>2. CASE UnlockTelescope(h)
    BY <1>1, <1>6, <2>2
  <2>3. CASE LockTelescope(h)
    BY <1>1, <1>5, <2>3
  <2> QED
    BY <1>12, <2>1, <2>2, <2>3
<1>13. CASE \E h \in Handlers, depth \in Depths : Pickup(h, depth) \/ Deposit(h, depth)
  <2>1. PICK h \in Handlers, p \in {"left?", "wait"}, m \in Seq(ActuatorMove) :
          Goes(h, p, m) /\ pc[h] = "ready" /\ UNCHANGED <<extensionMM, moving>>
    BY <1>11, <1>13
  <2> QED
    BY <1>1, <1>10, <2>1
<1>14. CASE \E h \in Handlers :
              LookAt(h, "left") \/ LookAt(h, "right") \/ UnlockTelescope(h) \/ LockTelescope(h)
  <2>1. PICK h \in Handlers, p \in {"ready", "right?", "wait", "begin"}, m \in Seq(ActuatorMove) :
          /\ Goes(h, p, m) /\ UNCHANGED <<extensionMM, moving>>
          /\ pc[h] \in {"left?", "right?", "wait", "return", "error"}
    BY <1>12, <1>14
  <2> QED
    BY <1>1, <1>10, <2>1
<1>15. CASE \E o \in Operators, s \in Sides, mm \in Targets : Operate(o, s, mm)
  <2>1. PICK o \in Operators, s \in Sides, mm \in Targets : Operate(o, s, mm)
    BY <1>15
  <2> QED
    BY <1>7, <1>10, <2>1
<1> QED
  BY <1>8, <1>13, <1>14, <1>15

\* The marks of the actuators follow the moves.
LEMMA MovingNext ==
  ASSUME MovesInv, MovingOwned, [TelescopeNext]_telescopeVars
  PROVE  MovingOwned'
<1>1. CASE UNCHANGED telescopeVars
  <2>1. \A v \in Users : (Moving(v)' <=> Moving(v)) /\ moves'[v] = moves[v]
    BY <1>1 DEF telescopeVars, Moving
  <2> QED
    BY <1>1, <2>1, NobodyMoves DEF telescopeVars
<1>2. CASE TelescopeNext /\ ~(\E u \in Users : MoveStep(u))
  <2>1. PICK u \in Users, p \in Points, m \in Seq(ActuatorMove) :
          /\ Goes(u, p, m) /\ pc[u] \notin MovePoints
          /\ p \in (Points \ MovePoints) \cup {"begin"} /\ UNCHANGED moving
    BY <1>2, OutsideMoves
  <2>2. ~Moving(u) /\ ~Moving(u)'
    BY <2>1, OthersStay DEF Moving, MovePoints, Goes
  <2>3. \A v \in Users : /\ Moving(v)' <=> Moving(v)
                         /\ Moving(v) => moves'[v] = moves[v]
    BY <2>1, <2>2, OthersStay DEF Goes
  <2> QED
    BY <2>1, <2>3, NobodyMoves
<1>3. ASSUME NEW u \in Users, MoveStep(u) PROVE MovingOwned'
  <2>u. /\ pc[u] \in Points /\ moves[u] \in Seq(ActuatorMove)
        /\ MovesFit(u, pc[u], moves[u]) /\ moving \in [Sides -> BOOLEAN]
        /\ moves = [moves EXCEPT ![u] = moves[u]]
    BY UserFacts
  <2>1. pc[u] \in MovePoints /\ moves[u] # << >>
    BY <1>3, <2>u DEF MoveStep, BeginMove, Select, CommitMove, EndMove, MovePoints, MovesFit
  <2>2. side(u) \in Sides
    BY <2>u, <2>1, FirstMove DEF side
  <2>3. ASSUME NEW ok \in BOOLEAN, Finish(u, ok)
        PROVE  /\ ~Moving(u)'
               /\ \A v \in Users \ {u} : /\ Moving(v)' <=> Moving(v)
                                         /\ moves'[v] = moves[v] /\ side(v)' = side(v)
    <3>1. /\ pc' = [pc EXCEPT ![u] = AfterMove(u, ok)]
          /\ moves' = [moves EXCEPT ![u] = Tail(moves[u])]
          /\ AfterMove(u, ok) \in {"ready", "begin", "return", "error"}
      BY <2>1, <2>3, FinishFits DEF Goes, Users
    <3> QED
      BY <3>1, OthersStay DEF Moving
  \* A move goes on at place p.
  <2>4. ASSUME NEW p \in {"select", "commit", "end", "moved"}, pc' = [pc EXCEPT ![u] = p],
               UNCHANGED moves
        PROVE  /\ Moving(u)' /\ side(u)' = side(u) /\ moves'[u] = moves[u]
               /\ \A v \in Users \ {u} : /\ Moving(v)' <=> Moving(v)
                                         /\ moves'[v] = moves[v] /\ side(v)' = side(v)
    <3>1. pc'[u] = p /\ UNCHANGED moves
      BY <2>4 DEF MovesInv, TelescopeTypeOK
    <3>2. Moving(u)' /\ side(u)' = side(u)
      BY <3>1 DEF Moving, side
    <3>3. moves' = [moves EXCEPT ![u] = moves[u]]
      BY <2>u, <2>4
    <3> QED
      BY <2>4, <3>1, <3>2, <3>3, OthersStay
  <2>5. CASE BeginMove(u) /\ (moving[side(u)] \/ to(u) < 0 \/ to(u) > MaxMM)
    <3>1. Finish(u, FALSE) /\ UNCHANGED moving /\ ~Moving(u)
      BY <2>5 DEF BeginMove, Moving
    <3>2. \A v \in Users : /\ Moving(v)' <=> Moving(v)
                           /\ Moving(v) => moves'[v] = moves[v]
      BY <2>3, <3>1
    <3> QED
      BY <3>1, <3>2, NobodyMoves
  <2>6. CASE BeginMove(u) /\ ~(moving[side(u)] \/ to(u) < 0 \/ to(u) > MaxMM)
    <3>1. /\ moving' = [moving EXCEPT ![side(u)] = TRUE] /\ ~moving[side(u)]
          /\ pc' = [pc EXCEPT ![u] = "select"] /\ UNCHANGED moves
      BY <2>6 DEF BeginMove
    <3>2. \A v \in Users : Moving(v) => side(v) # side(u)
      BY <2>2, <3>1 DEF MovingOwned
    <3>3. /\ Moving(u)' /\ side(u)' = side(u)
          /\ \A v \in Users \ {u} : (Moving(v)' <=> Moving(v)) /\ side(v)' = side(v)
      BY <2>4, <3>1
    <3>4. \A v, w \in Users : Moving(v)' /\ Moving(w)' /\ side(v)' = side(w)' => v = w
      BY <3>2, <3>3 DEF MovingOwned
    <3>5. ASSUME NEW s \in Sides PROVE moving'[s] <=> \E v \in Users : Moving(v)' /\ side(v)' = s
      <4>1. CASE s = side(u)
        BY <2>u, <2>2, <3>1, <3>3, <4>1
      <4>2. CASE s # side(u)
        <5>1. moving'[s] = moving[s]
          BY <2>u, <3>1, <4>2
        <5>2. (\E v \in Users : Moving(v)' /\ side(v)' = s) <=> \E v \in Users \ {u} : Moving(v) /\ side(v) = s
          BY <3>3, <4>2
        <5>3. (\E v \in Users : Moving(v) /\ side(v) = s) <=> \E v \in Users \ {u} : Moving(v) /\ side(v) = s
          BY <4>2
        <5> QED
          BY <5>1, <5>2, <5>3 DEF MovingOwned
      <4> QED
        BY <4>1, <4>2
    <3> QED
      BY <3>4, <3>5 DEF MovingOwned
  <2>7. CASE Select(u) \/ CommitMove(u)
    <3>1. PICK p \in {"commit", "end", "moved"} : pc' = [pc EXCEPT ![u] = p]
      BY <2>7 DEF Select, CommitMove
    <3>2. Moving(u) /\ UNCHANGED <<moving, moves>>
      BY <2>7 DEF Select, CommitMove, Moving
    <3>3. \A v \in Users : (Moving(v)' <=> Moving(v)) /\ moves'[v] = moves[v]
      BY <2>4, <3>1, <3>2
    <3> QED
      BY <3>2, <3>3, NobodyMoves
  <2>8. CASE EndMove(u)
    <3>1. /\ Moving(u) /\ moving' = [moving EXCEPT ![side(u)] = FALSE]
          /\ \E ok \in BOOLEAN : Finish(u, ok)
      BY <2>8 DEF EndMove, Moving
    <3>2. /\ ~Moving(u)'
          /\ \A v \in Users \ {u} : (Moving(v)' <=> Moving(v)) /\ side(v)' = side(v)
      BY <2>3, <3>1
    <3>3. \A v \in Users \ {u} : Moving(v) => side(v) # side(u)
      BY <3>1 DEF MovingOwned
    <3>4. \A v, w \in Users : Moving(v)' /\ Moving(w)' /\ side(v)' = side(w)' => v = w
      BY <3>2 DEF MovingOwned
    <3>5. ASSUME NEW s \in Sides PROVE moving'[s] <=> \E v \in Users : Moving(v)' /\ side(v)' = s
      <4>1. CASE s = side(u)
        BY <2>u, <3>1, <3>2, <3>3, <4>1
      <4>2. CASE s # side(u)
        BY <2>u, <3>1, <3>2, <4>2 DEF MovingOwned
      <4> QED
        BY <4>1, <4>2
    <3> QED
      BY <3>4, <3>5 DEF MovingOwned
  <2> QED
    BY <1>3, <2>5, <2>6, <2>7, <2>8 DEF MoveStep
<1> QED
  BY <1>1, <1>2, <1>3

\* An actuator is marked as moving exactly while one user moves it: no path out
\* of Actuator.move, refused, cancelled or done, leaves it blocked.
THEOREM MovingOwnedAlways == TelescopeSpec => []MovingOwned
<1>1. TelescopeInit => MovingOwned
  BY DEF TelescopeInit, MovingOwned, Moving
<1> QED
  BY <1>1, MovesInit, MovesNext, MovingNext, PTL DEF TelescopeSpec

-------------------------------------------------------------------------------
(***************************************************************************)
(* SkewOnlyAfterFailure.                                                   *)
(***************************************************************************)

\* Handler h, inside the telescope and undisturbed, moves the right actuator to
\* where it has moved the left one, and returns with both at one place.
InStep(h) ==
  /\ pc[h] = "moved" => extensionMM[side(h)] = to(h)
  /\ pc[h] \in MovePoints /\ side(h) = "right" => extensionMM["left"] = to(h)
  /\ pc[h] = "return" => extensionMM["left"] = extensionMM["right"]

SkewInv ==
  /\ SkewOnlyAfterFailure
  /\ \A h \in Handlers : mu = h /\ ~apart => InStep(h)

\* A pair starts with its left move.
LEMMA PairStartsLeft ==
  ASSUME NEW m \in Seq(ActuatorMove), InOrder(m), Len(m) \in {2, 4}
  PROVE  m # << >> /\ Head(m).side = "left"
<1>1. Len(m) # 0 /\ 1 \in 1..Len(m) /\ Len(m) - 1 \in {1, 3}
  OBVIOUS
<1>2. m # << >> /\ Head(m) = m[1]
  BY <1>1, FirstMove
<1>3. m[1].side = "left" <=> Len(m) - 1 \in {1, 3}
  BY <1>1 DEF InOrder
<1> QED
  BY <1>1, <1>2, <1>3

\* A handler that holds the telescope stays in step while somebody else moves on
\* without moving an actuator.
LEMMA StaysInStep ==
  ASSUME NEW h \in Handlers, InStep(h), UNCHANGED extensionMM,
         pc'[h] = pc[h], moves'[h] = moves[h]
  PROVE  InStep(h)'
BY DEF InStep, side, to

\* The handler that holds the telescope stays in step in its own moves.
LEMMA OwnMoveInStep ==
  ASSUME MovesInv, NEW h \in Handlers, MoveStep(h), InStep(h)
  PROVE  InStep(h)'
<1>0. h \in Users /\ h \notin Operators
  BY TelescopeAssumption DEF Users
<1>u. /\ moves[h] \in Seq(ActuatorMove) /\ MovesFit(h, pc[h], moves[h])
      /\ moves = [moves EXCEPT ![h] = moves[h]] /\ extensionMM \in [Sides -> 0..MaxMM]
  BY <1>0, UserFacts
<1>1. pc[h] \in MovePoints /\ moves[h] # << >> /\ InOrder(moves[h])
  BY <1>u DEF MoveStep, BeginMove, Select, CommitMove, EndMove, MovePoints, MovesFit
<1>2. side(h) \in {"left", "right"}
  BY <1>u, <1>1, FirstMove DEF side, Sides
\* A move that fails ends in an error, where nothing is asked.
<1>3. ASSUME Finish(h, FALSE) PROVE InStep(h)'
  <2>1. pc'[h] = "error"
    BY <1>0, <1>3 DEF Finish, AfterMove, MovesInv, TelescopeTypeOK
  <2> QED
    BY <2>1 DEF InStep, MovePoints
<1>4. CASE BeginMove(h)
  <2>1. CASE Finish(h, FALSE)
    BY <1>3, <2>1
  <2>2. CASE ~Finish(h, FALSE)
    <3>1. /\ pc' = [pc EXCEPT ![h] = "select"] /\ UNCHANGED <<moves, extensionMM>>
      BY <1>4, <2>2 DEF BeginMove
    <3>2. pc'[h] = "select" /\ side(h)' = side(h) /\ to(h)' = to(h)
      BY <1>0, <3>1 DEF MovesInv, TelescopeTypeOK, side, to
    <3> QED
      BY <1>1, <3>1, <3>2 DEF InStep
  <2> QED
    BY <2>1, <2>2
<1>5. CASE Select(h)
  <2>1. PICK p \in {"commit", "end"} : pc' = [pc EXCEPT ![h] = p]
    BY <1>5 DEF Select
  <2>2. pc'[h] \in {"commit", "end"} /\ side(h)' = side(h) /\ to(h)' = to(h) /\ UNCHANGED extensionMM
    BY <1>0, <1>5, <2>1 DEF Select, MovesInv, TelescopeTypeOK, side, to
  <2> QED
    BY <1>1, <2>2 DEF InStep
<1>6. CASE CommitMove(h)
  <2>1. /\ pc'[h] = "moved" /\ side(h)' = side(h) /\ to(h)' = to(h)
        /\ extensionMM' = [extensionMM EXCEPT ![side(h)] = to(h)]
    BY <1>0, <1>6 DEF CommitMove, MovesInv, TelescopeTypeOK, side, to
  <2>2. extensionMM'[side(h)] = to(h) /\ side(h) = "right" => extensionMM'["left"] = extensionMM["left"]
    BY <1>u, <1>2, <2>1 DEF Sides
  <2> QED
    BY <1>u, <1>1, <1>2, <2>1, <2>2 DEF InStep, Sides
<1>7. CASE EndMove(h)
  <2>1. CASE pc[h] = "end"
    BY <1>3, <1>7, <2>1 DEF EndMove
  <2>2. CASE pc[h] = "moved" /\ side(h) = "left"
    <3>1. pc'[h] = "begin" /\ moves'[h] = Tail(moves[h]) /\ UNCHANGED extensionMM
      BY <1>0, <1>7, <2>2 DEF EndMove, Finish, AfterMove, MovesInv, TelescopeTypeOK
    <3>2. to(h)' = to(h)
      BY <1>u, <1>1, <2>2, <3>1, RestInOrder DEF to, side
    <3> QED
      BY <2>2, <3>1, <3>2 DEF InStep
  <2>3. CASE pc[h] = "moved" /\ side(h) = "right"
    <3>1. pc'[h] = "return" /\ UNCHANGED extensionMM
      BY <1>0, <1>7, <2>3 DEF EndMove, Finish, AfterMove, MovesInv, TelescopeTypeOK
    <3> QED
      BY <1>1, <2>3, <3>1 DEF InStep, MovePoints
  <2> QED
    BY <1>2, <1>7, <2>1, <2>2, <2>3 DEF EndMove
<1> QED
  BY <1>4, <1>5, <1>6, <1>7 DEF MoveStep

\* Every step keeps the two actuators in step.
LEMMA SkewNext ==
  ASSUME MovesInv, SkewInv, [TelescopeNext]_telescopeVars
  PROVE  SkewInv'
<1>t. /\ \A h \in Handlers : h \in Users /\ h # Free /\ h \notin Operators
      /\ apart \in BOOLEAN /\ mu \in Handlers \cup {Free}
      /\ \A h \in Handlers : mu = h <=> pc[h] \in MovePoints \cup {"return", "error"}
  BY TelescopeAssumption
  DEF Users, MovesInv, TelescopeTypeOK, Locked, MovePoints
\* A step of user u that moves no actuator and does not touch the mutex.
<1>1. ASSUME NEW u \in Users, NEW p, NEW m, Goes(u, p, m), u \in Handlers => mu # u,
             UNCHANGED <<extensionMM, mu, apart>>
      PROVE  SkewInv'
  <2>1. \A h \in Handlers : mu = h => pc'[h] = pc[h] /\ moves'[h] = moves[h]
    BY <1>t, <1>1, OthersStay DEF Goes
  <2>2. \A h \in Handlers : mu' = h /\ ~apart' => InStep(h)'
    BY <1>1, <2>1, StaysInStep DEF SkewInv
  <2> QED
    BY <1>1, <2>2 DEF SkewInv, SkewOnlyAfterFailure
<1>2. ASSUME NEW h \in Handlers, NEW depth \in Depths, Pickup(h, depth) \/ Deposit(h, depth)
      PROVE  SkewInv'
  <2>1. \E p, m : Goes(h, p, m)
    BY <1>2 DEF Pickup, Deposit, Goes
  <2>2. mu # h /\ UNCHANGED <<extensionMM, mu, apart>>
    BY <1>t, <1>2 DEF Pickup, Deposit, ghosts, MovePoints
  <2> QED
    BY <1>t, <1>1, <2>1, <2>2
<1>3. ASSUME NEW h \in Handlers, NEW s \in Sides, LookAt(h, s) PROVE SkewInv'
  <2>1. moves = [moves EXCEPT ![h] = moves[h]]
    BY <1>t, UserFacts
  <2>2. \E p, m : Goes(h, p, m)
    BY <1>3, <2>1 DEF LookAt, Goes
  <2>3. mu # h /\ UNCHANGED <<extensionMM, mu, apart>>
    BY <1>t, <1>3 DEF LookAt, LookPoint, Sides, ghosts, MovePoints
  <2> QED
    BY <1>t, <1>1, <2>2, <2>3
<1>4. ASSUME NEW h \in Handlers, LockTelescope(h) PROVE SkewInv'
  <2>1. pc'[h] = "begin" /\ moves' = moves /\ mu' = h /\ UNCHANGED extensionMM
    BY <1>t, <1>4 DEF LockTelescope, MovesInv, TelescopeTypeOK
  <2>2. moves[h] \in Seq(ActuatorMove) /\ MovesFit(h, "wait", moves[h])
    BY <1>t, <1>4, UserFacts DEF LockTelescope
  <2>3. side(h)' = "left"
    BY <2>1, <2>2, PairStartsLeft DEF MovesFit, PairsLeft, side
  <2>4. InStep(h)'
    BY <2>1, <2>3 DEF InStep
  <2> QED
    BY <1>t, <2>1, <2>4 DEF SkewInv, SkewOnlyAfterFailure
<1>5. ASSUME NEW h \in Handlers, UnlockTelescope(h) PROVE SkewInv'
  <2>1. /\ mu = h /\ mu' = Free /\ UNCHANGED extensionMM
        /\ ~apart' => ~apart /\ pc[h] = "return"
    BY <1>t, <1>5 DEF UnlockTelescope
  <2>2. ~apart' => extensionMM["left"] = extensionMM["right"]
    BY <2>1 DEF SkewInv, InStep
  <2> QED
    BY <1>t, <2>1, <2>2 DEF SkewInv, SkewOnlyAfterFailure
<1>6. ASSUME NEW o \in Operators, NEW s \in Sides, NEW mm \in Targets, Operate(o, s, mm)
      PROVE  SkewInv'
  <2>1. o \in Users /\ o \notin Handlers /\ \E p, m : Goes(o, p, m)
    BY <1>t, <1>6 DEF Operate, Goes, Users
  <2>2. UNCHANGED <<extensionMM, mu, apart>>
    BY <1>6 DEF Operate, ghosts
  <2> QED
    BY <1>1, <2>1, <2>2
<1>7. ASSUME NEW u \in Users, MoveStep(u) PROVE SkewInv'
  <2>2. CASE u \in Handlers
    <3>1. mu = u
      BY <1>t, <1>7, <2>2 DEF MoveStep, BeginMove, Select, CommitMove, EndMove, MovePoints
    <3>2. mu' = mu /\ (~apart' => ~apart)
      <4>1. CASE CommitMove(u)
        BY <4>1 DEF CommitMove
      <4>2. CASE BeginMove(u)
        BY <4>2 DEF BeginMove, ghosts
      <4>3. CASE Select(u)
        BY <4>3 DEF Select, ghosts
      <4>4. CASE EndMove(u)
        BY <4>4 DEF EndMove, ghosts
      <4> QED
        BY <1>7, <4>1, <4>2, <4>3, <4>4 DEF MoveStep
    <3>3. ~apart' => InStep(u)'
      BY <1>7, <2>2, <3>1, <3>2, OwnMoveInStep DEF SkewInv
    <3> QED
      BY <1>t, <2>2, <3>1, <3>2, <3>3 DEF SkewInv, SkewOnlyAfterFailure
  <2>3. CASE u \in Operators
    <3>1. CASE CommitMove(u)
      <4>1. apart'
        BY <1>t, <2>3, <3>1 DEF CommitMove
      <4> QED
        BY <4>1 DEF SkewInv, SkewOnlyAfterFailure
    <3>2. CASE ~CommitMove(u)
      <4>1. UNCHANGED <<extensionMM, mu, apart>>
        BY <1>7, <3>2 DEF MoveStep, BeginMove, Select, EndMove, ghosts
      <4>2. moves = [moves EXCEPT ![u] = moves[u]]
        BY UserFacts
      <4>3. \E p, m : Goes(u, p, m)
        <5>1. ASSUME NEW ok \in BOOLEAN, Finish(u, ok) PROVE \E p, m : Goes(u, p, m)
          <6>1. Goes(u, AfterMove(u, ok), Tail(moves[u]))
            BY <5>1 DEF Finish, Goes, MovesInv, TelescopeTypeOK
          <6> QED
            BY <6>1
        <5>2. CASE EndMove(u)
          BY <5>1, <5>2 DEF EndMove
        <5>3. CASE Select(u)
          BY <4>2, <5>3 DEF Select, Goes
        <5>4. CASE BeginMove(u)
          <6>1. CASE Finish(u, FALSE)
            BY <5>1, <6>1
          <6>2. CASE ~Finish(u, FALSE)
            BY <4>2, <5>4, <6>2 DEF BeginMove, Goes
          <6> QED
            BY <6>1, <6>2
        <5> QED
          BY <1>7, <3>2, <5>2, <5>3, <5>4 DEF MoveStep
      <4>4. u \notin Handlers
        BY <1>t, <2>3
      <4> QED
        BY <1>1, <4>1, <4>3, <4>4
    <3> QED
      BY <3>1, <3>2
  <2> QED
    BY <2>2, <2>3 DEF Users
<1>8. CASE UNCHANGED telescopeVars
  BY <1>8 DEF telescopeVars, ghosts, SkewInv, SkewOnlyAfterFailure, InStep, side, to
<1> QED
  BY <1>2, <1>3, <1>4, <1>5, <1>6, <1>7, <1>8
  DEF TelescopeNext, HandlerStep, Targets, Sides

\* Between two calls the actuators differ only when the last call reported an
\* error or an operator moved one since it began (Telescope.ExtendBoth and
\* RetractBoth): one successful call removes whatever skew there was.
THEOREM SkewAlwaysReported == TelescopeSpec => []SkewOnlyAfterFailure
<1>1. TelescopeInit => SkewInv
  BY TelescopeAssumption
  DEF TelescopeInit, SkewInv, SkewOnlyAfterFailure, Sides, Users
<1>2. SkewInv => SkewOnlyAfterFailure
  BY DEF SkewInv
<1> QED
  BY <1>1, <1>2, MovesInit, MovesNext, SkewNext, PTL DEF TelescopeSpec

-------------------------------------------------------------------------------
(***************************************************************************)
(* PickupStartsRetracted.                                                  *)
(***************************************************************************)

\* A handler at p with the moves m, met by nobody else's move, has the left
\* actuator at l and the right one at r.  The moves before an extension of
\* Pickup retract, and what has been looked at or retracted is at zero.
Prepared(p, m, l, r) ==
  /\ p = "right?" => l = 0
  /\ p \in {"wait", "begin", "return"} /\ Len(m) = 2 /\ m[1].to # 0 => l = 0 /\ r = 0
  /\ p \in MovePoints \cup {"wait"} /\ Len(m) = 4 /\ m[3].to # 0 =>
       m[1].to = 0 /\ (p = "moved" => l = 0)
  /\ p \in MovePoints /\ Len(m) = 3 /\ m[2].to # 0 =>
       m[1].to = 0 /\ l = 0 /\ (p = "moved" => r = 0)

PreparedInv ==
  \A h \in Handlers \ disturbed :
    Prepared(pc[h], moves[h], extensionMM["left"], extensionMM["right"])

\* Only an actuator at zero counts as retracted.
LEMMA RetractedIsZero ==
  ASSUME MovesInv, NEW s \in Sides
  PROVE  IsRetracted(s) <=> extensionMM[s] = 0
<1>1. extensionMM[s] \in Int /\ MaxMM \div 2 \in Int
  BY TelescopeAssumption DEF MovesInv, TelescopeTypeOK
<1>2. extensionMM[s] >= MaxMM \div 2 \/ extensionMM[s] < MaxMM \div 2
  BY <1>1
<1> QED
  BY <1>1, <1>2 DEF IsRetracted, Position

\* A handler is prepared as before while others move no actuator.
LEMMA StaysPrepared ==
  ASSUME MovesInv, PreparedInv, NEW u \in Users, NEW p, NEW m, Goes(u, p, m),
         UNCHANGED <<extensionMM, disturbed>>,
         u \in Handlers \ disturbed =>
           Prepared(p, m, extensionMM["left"], extensionMM["right"])
  PROVE  PreparedInv'
<1>1. ASSUME NEW h \in Handlers \ disturbed
      PROVE  Prepared(pc'[h], moves'[h], extensionMM["left"], extensionMM["right"])
  <2>1. CASE h = u
    BY <2>1, OthersStay DEF Goes
  <2>2. CASE h # u
    BY <2>2, OthersStay DEF Goes, PreparedInv, Users
  <2> QED
    BY <2>1, <2>2
<1> QED
  BY <1>1 DEF PreparedInv

\* What a handler does outside its moves keeps everybody prepared.
LEMMA CallPrepared ==
  ASSUME MovesInv, PreparedInv, NEW h \in Handlers,
         \/ \E depth \in Depths : Pickup(h, depth) \/ Deposit(h, depth)
         \/ HandlerStep(h) \/ LockTelescope(h)
  PROVE  PreparedInv'
<1> DEFINE l == extensionMM["left"]
           r == extensionMM["right"]
<1>0. /\ h \in Users /\ 0 \in Targets /\ Depths \subseteq Targets
      /\ "left" \in Sides /\ "right" \in Sides
  BY DEF Users, Targets, Presets, Sides
<1>u. /\ moves[h] \in Seq(ActuatorMove) /\ MovesFit(h, pc[h], moves[h])
      /\ moves = [moves EXCEPT ![h] = moves[h]]
  BY <1>0, UserFacts
<1>1. ASSUME NEW depth \in Depths, Pickup(h, depth) PROVE PreparedInv'
  <2>1. Goes(h, "left?", Both(depth)) /\ UNCHANGED <<extensionMM, disturbed>>
    BY <1>1 DEF Pickup, Goes, ghosts
  <2>2. Prepared("left?", Both(depth), l, r)
    BY DEF Prepared, MovePoints
  <2> QED
    BY <1>0, <2>1, <2>2, StaysPrepared
<1>2. ASSUME NEW depth \in Depths, Deposit(h, depth) PROVE PreparedInv'
  <2> DEFINE m == Both(depth) \o Both(0)
  <2>1. Goes(h, "wait", m) /\ UNCHANGED <<extensionMM, disturbed>>
    BY <1>2 DEF Deposit, Goes, ghosts
  <2>2. Len(m) = 4 /\ m[3] = Both(0)[1] /\ Both(0)[1].to = 0
    <3>1. /\ Both(0) \in Seq(ActuatorMove) /\ Len(Both(0)) = 2 /\ InOrder(Both(0))
          /\ Both(0)[1] = Move("left", 0)
      BY <1>0, PairInOrder
    <3>2. Len(m) = 4 /\ m[3] = Both(0)[1]
      BY <1>0, <3>1, PairsInOrder
    <3> QED
      BY <3>1, <3>2 DEF Move
  <2> HIDE DEF m
  <2>3. Prepared("wait", m, l, r)
    BY <2>2 DEF Prepared, MovePoints
  <2> QED
    BY <1>0, <2>1, <2>3, StaysPrepared
<1>3. ASSUME NEW s \in Sides, LookAt(h, s) PROVE PreparedInv'
  <2>1. /\ pc[h] = LookPoint(s) /\ UNCHANGED <<extensionMM, disturbed>>
        /\ s \in {"left", "right"}
    BY <1>3 DEF LookAt, ghosts, Sides
  <2>2. Len(moves[h]) = 2 /\ InOrder(moves[h])
    BY <1>u, <2>1 DEF MovesFit, PairsLeft, LookPoint
  <2>3. CASE IsRetracted(s)
    <3>1. Goes(h, IF s = "left" THEN "right?" ELSE "wait", moves[h]) /\ extensionMM[s] = 0
      BY <1>u, <1>3, <2>3, RetractedIsZero DEF LookAt, Goes
    <3>2. CASE s = "left"
      <4>1. Prepared("right?", moves[h], l, r)
        BY <3>1, <3>2 DEF Prepared, MovePoints
      <4> QED
        BY <1>0, <2>1, <3>1, <3>2, <4>1, StaysPrepared
    <3>3. CASE s = "right"
      <4>1. h \notin disturbed => l = 0
        BY <2>1, <3>3 DEF PreparedInv, Prepared, LookPoint
      <4>2. h \notin disturbed => Prepared("wait", moves[h], l, r)
        BY <2>2, <3>1, <3>3, <4>1 DEF Prepared, MovePoints
      <4> QED
        BY <1>0, <2>1, <3>1, <3>3, <4>2, StaysPrepared
    <3> QED
      BY <2>1, <3>2, <3>3
  <2>4. CASE ~IsRetracted(s)
    <3> DEFINE m == Both(0) \o moves[h]
    <3>1. Goes(h, "wait", m)
      BY <1>3, <2>4 DEF LookAt, Goes
    <3>2. Len(m) = 4 /\ m[1].to = 0
      BY <1>0, <1>u, <2>2, PairsInOrder
    <3> HIDE DEF m
    <3>3. Prepared("wait", m, l, r)
      BY <3>2 DEF Prepared, MovePoints
    <3> QED
      BY <1>0, <2>1, <3>1, <3>3, StaysPrepared
  <2> QED
    BY <2>3, <2>4
<1>4. CASE LockTelescope(h)
  <2>1. /\ Goes(h, "begin", moves[h]) /\ pc[h] = "wait"
        /\ UNCHANGED <<extensionMM, disturbed>>
    BY <1>u, <1>4 DEF LockTelescope, Goes
  <2>2. Len(moves[h]) \in {2, 4}
    BY <1>u, <2>1 DEF MovesFit, PairsLeft
  <2>3. h \notin disturbed => Prepared("begin", moves[h], l, r)
    BY <2>1, <2>2 DEF PreparedInv, Prepared, MovePoints
  <2> QED
    BY <1>0, <2>1, <2>3, StaysPrepared
<1>5. CASE UnlockTelescope(h)
  <2>1. CASE pc[h] = "error" \/ moves[h] = << >>
    <3>1. Goes(h, "ready", << >>) /\ UNCHANGED extensionMM /\ disturbed' = disturbed \ {h}
      BY <1>5, <2>1 DEF UnlockTelescope, Goes
    <3>2. \A g \in Handlers \ disturbed' : g # h => /\ g \notin disturbed
                                                    /\ pc'[g] = pc[g] /\ moves'[g] = moves[g]
      BY <1>0, <3>1, OthersStay DEF Goes, Users
    <3>3. pc'[h] = "ready"
      BY <1>0, <3>1, OthersStay DEF Goes
    <3>4. Prepared("ready", moves'[h], l, r)
      BY DEF Prepared, MovePoints
    <3> QED
      BY <3>1, <3>2, <3>3, <3>4 DEF PreparedInv
  <2>2. CASE ~(pc[h] = "error" \/ moves[h] = << >>)
    <3>1. /\ Goes(h, "wait", moves[h]) /\ pc[h] = "return"
          /\ UNCHANGED <<extensionMM, disturbed>>
      BY <1>u, <1>5, <2>2 DEF UnlockTelescope, Goes
    <3>2. Len(moves[h]) \in {0, 2}
      BY <1>u, <3>1 DEF MovesFit, PairsLeft
    <3>3. h \notin disturbed => Prepared("wait", moves[h], l, r)
      BY <3>1, <3>2 DEF PreparedInv, Prepared, MovePoints
    <3> QED
      BY <1>0, <3>1, <3>3, StaysPrepared
  <2> QED
    BY <2>1, <2>2
<1> QED
  BY <1>0, <1>1, <1>2, <1>3, <1>4, <1>5 DEF HandlerStep

\* The moves of an actuator keep every handler prepared that they do not disturb.
LEMMA MovePrepared ==
  ASSUME MovesInv, PreparedInv, NEW u \in Users, MoveStep(u)
  PROVE  PreparedInv'
<1> DEFINE l == extensionMM["left"]
           r == extensionMM["right"]
           m == moves[u]
           watched == u \in Handlers \ disturbed
<1>u. /\ m \in Seq(ActuatorMove) /\ MovesFit(u, pc[u], m)
      /\ moves = [moves EXCEPT ![u] = m] /\ extensionMM \in [Sides -> 0..MaxMM]
  BY UserFacts
<1>1. pc[u] \in MovePoints /\ m # << >>
  BY <1>u DEF MoveStep, BeginMove, Select, CommitMove, EndMove, MovePoints, MovesFit
<1>2. watched => Prepared(pc[u], m, l, r) /\ InOrder(m) /\ u \notin Operators
  BY <1>u, TelescopeAssumption DEF PreparedInv, MovesFit
<1>3. /\ Len(m) \in Nat \ {0} /\ Len(Tail(m)) = Len(m) - 1
      /\ \A j \in 1..Len(m) - 1 : Tail(m)[j] = m[j + 1]
      /\ Tail(m) \in Seq(ActuatorMove) /\ Head(m) = m[1] /\ side(u) \in Sides
  BY <1>u, <1>1, FirstMove DEF side
\* A move goes on to place p.
<1>4. ASSUME NEW p \in {"select", "commit", "end"}, pc' = [pc EXCEPT ![u] = p],
             UNCHANGED <<moves, extensionMM, disturbed>>
      PROVE  PreparedInv'
  <2>1. Goes(u, p, m)
    BY <1>u, <1>4 DEF Goes
  <2>2. watched => Prepared(p, m, l, r)
    BY <1>1, <1>2, <1>4 DEF Prepared, MovePoints
  <2> QED
    BY <1>4, <2>1, <2>2, StaysPrepared
\* A move that fails.
<1>5. ASSUME Finish(u, FALSE), UNCHANGED <<extensionMM, disturbed>> PROVE PreparedInv'
  <2>1. Goes(u, AfterMove(u, FALSE), Tail(m))
    BY <1>1, <1>5, FinishFits
  <2>2. watched => Prepared(AfterMove(u, FALSE), Tail(m), l, r)
    BY <1>2 DEF AfterMove, Prepared, MovePoints
  <2> QED
    BY <1>5, <2>1, <2>2, StaysPrepared
<1>6. CASE BeginMove(u)
  BY <1>4, <1>5, <1>6 DEF BeginMove, ghosts
<1>7. CASE Select(u)
  <2>1. PICK p \in {"commit", "end"} : pc' = [pc EXCEPT ![u] = p]
    BY <1>7 DEF Select
  <2> QED
    BY <1>4, <1>7, <2>1 DEF Select, ghosts
<1>8. CASE CommitMove(u)
  <2>1. /\ Goes(u, "moved", m) /\ pc[u] = "commit"
        /\ extensionMM' = [extensionMM EXCEPT ![side(u)] = to(u)]
    BY <1>u, <1>8 DEF CommitMove, Goes
  <2>2. /\ pc'[u] = "moved" /\ moves'[u] = m
        /\ \A h \in Handlers \ {u} : pc'[h] = pc[h] /\ moves'[h] = moves[h]
    BY <2>1, OthersStay DEF Goes, Users
  <2>3. ASSUME NEW h \in Handlers \ disturbed', h # u
        PROVE  Prepared(pc'[h], moves'[h], extensionMM'["left"], extensionMM'["right"])
    <3>1. pc'[h] = "ready"
      BY <1>8, <2>2, <2>3 DEF CommitMove
    <3> QED
      BY <3>1 DEF Prepared, MovePoints
  <2>4. ASSUME u \in Handlers \ disturbed'
        PROVE  Prepared("moved", m, extensionMM'["left"], extensionMM'["right"])
    <3>1. watched /\ Prepared("commit", m, l, r) /\ InOrder(m)
      BY <1>2, <1>8, <2>1, <2>4 DEF CommitMove
    <3>2. side(u) = m[1].side /\ to(u) = m[1].to /\ side(u) \in {"left", "right"}
      BY <1>3 DEF side, to, Sides
    <3>3. /\ side(u) = "right" => Len(m) \in {1, 3}
          /\ side(u) = "left" => Len(m) \in {2, 4}
      BY <1>u, <1>1, <3>1, <3>2, RestInOrder, <1>3
    <3>4. /\ side(u) = "left" => extensionMM'["left"] = to(u)
          /\ side(u) = "right" => extensionMM'["right"] = to(u) /\ extensionMM'["left"] = l
      BY <1>u, <2>1 DEF Sides
    <3>5. ASSUME Len(m) = 4, m[3].to # 0 PROVE m[1].to = 0 /\ extensionMM'["left"] = 0
      BY <3>1, <3>2, <3>3, <3>4, <3>5 DEF Prepared, MovePoints
    <3>6. ASSUME Len(m) = 3, m[2].to # 0
          PROVE  m[1].to = 0 /\ extensionMM'["left"] = 0 /\ extensionMM'["right"] = 0
      BY <3>1, <3>2, <3>3, <3>4, <3>6 DEF Prepared, MovePoints
    <3> QED
      BY <3>5, <3>6 DEF Prepared
  <2> QED
    BY <2>2, <2>3, <2>4 DEF PreparedInv
<1>9. CASE EndMove(u)
  <2>1. UNCHANGED <<extensionMM, disturbed>>
    BY <1>9 DEF EndMove, ghosts
  <2>2. CASE pc[u] = "end"
    BY <1>5, <1>9, <2>1, <2>2 DEF EndMove
  <2>3. CASE pc[u] = "moved"
    <3>0. Finish(u, TRUE)
      BY <1>9, <2>3 DEF EndMove
    <3>1. Goes(u, AfterMove(u, TRUE), Tail(m))
      BY <1>1, <3>0, FinishFits
    <3>2. ASSUME watched PROVE Prepared(AfterMove(u, TRUE), Tail(m), l, r)
      <4> DEFINE t == Tail(m)
                 p == AfterMove(u, TRUE)
      <4>1. Prepared("moved", m, l, r) /\ InOrder(m) /\ p \in {"begin", "return"}
        BY <1>2, <1>3, <2>3, <3>2 DEF AfterMove, Sides
      <4>2. Len(t) = Len(m) - 1 /\ Len(m) \in Nat /\ Len(m) <= 4
        BY <1>3, <4>1 DEF InOrder
      <4>a. \A n \in Nat : (n - 1 = 3 => n = 4) /\ (n - 1 = 2 => n = 3)
        OBVIOUS
      <4>3. \A j \in 1..Len(m) - 1 : t[j] = m[j + 1]
        BY <1>3
      <4> HIDE DEF t, p
      <4>4. ASSUME Len(t) = 3, t[2].to # 0 PROVE t[1].to = 0 /\ l = 0
        <5>0. Len(m) = 4
          BY <4>2, <4>a, <4>4
        <5>1. Len(m) = 4 /\ t[1] = m[1 + 1] /\ t[2] = m[2 + 1]
          BY <4>3, <5>0
        <5>2. m[1].to = 0 /\ l = 0
          BY <4>1, <4>4, <5>1 DEF Prepared, MovePoints
        <5>3. m[2].to = m[1].to
          <6>1. 1 \in 1..Len(m) /\ Len(m) - 1 \in {1, 3}
            BY <5>1
          <6>2. m[1].side = "left" => m[1].to = m[1 + 1].to
            BY <4>1, <6>1 DEF InOrder
          <6>3. m[1].side = "left"
            BY <4>1, <6>1 DEF InOrder
          <6> QED
            BY <6>2, <6>3
        <5> QED
          BY <5>1, <5>2, <5>3
      <4>5. ASSUME Len(t) = 2, t[1].to # 0 PROVE l = 0 /\ r = 0
        <5>0. Len(m) = 3
          BY <4>2, <4>a, <4>5
        <5>1. Len(m) = 3 /\ t[1] = m[1 + 1]
          BY <4>3, <5>0
        <5> QED
          BY <4>1, <4>5, <5>1 DEF Prepared, MovePoints
      <4>6. Len(t) # 4
        BY <4>2
      <4>7. Prepared(p, t, l, r)
        BY <4>1, <4>4, <4>5, <4>6 DEF Prepared
      <4> QED
        BY <4>7 DEF t, p
    <3> QED
      BY <2>1, <3>1, <3>2, StaysPrepared
  <2> QED
    BY <1>9, <2>2, <2>3 DEF EndMove
<1> QED
  BY <1>6, <1>7, <1>8, <1>9 DEF MoveStep

\* Every step keeps undisturbed handlers prepared.
LEMMA PreparedNext ==
  ASSUME MovesInv, PreparedInv, [TelescopeNext]_telescopeVars
  PROVE  PreparedInv'
<1>1. ASSUME NEW o \in Operators, NEW s \in Sides, NEW mm \in Targets, Operate(o, s, mm)
      PROVE  PreparedInv'
  <2>1. /\ o \in Users /\ o \notin Handlers /\ UNCHANGED <<extensionMM, disturbed>>
        /\ Goes(o, "begin", << Move(s, mm) >>)
    BY <1>1, TelescopeAssumption DEF Operate, Goes, ghosts, Users
  <2> QED
    BY <2>1, StaysPrepared
<1>2. CASE UNCHANGED telescopeVars
  BY <1>2 DEF telescopeVars, ghosts, PreparedInv
<1> QED
  BY <1>1, <1>2, CallPrepared, MovePrepared DEF TelescopeNext, Targets

\* Pickup extends from two retracted actuators unless another user moved one
\* while it ran, whatever the calls before it left behind (LoadHandler.Pickup).
THEOREM PickupStartsRetractedAlways == TelescopeSpec => []PickupStartsRetracted
<1>1. TelescopeInit => PreparedInv
  BY DEF TelescopeInit, PreparedInv, Prepared, MovePoints, Users
<1>2. MovesInv /\ PreparedInv => PickupStartsRetracted
  <2> SUFFICES ASSUME MovesInv, PreparedInv, NEW h \in Handlers \ disturbed,
                      pc[h] = "begin", Len(moves[h]) = 2, to(h) # 0, NEW s \in Sides
               PROVE  IsRetracted(s)
    BY DEF PickupStartsRetracted
  <2>1. h \in Users /\ moves[h] \in Seq(ActuatorMove) /\ moves[h] # << >>
    BY UserFacts DEF Users, MovesFit, MovePoints
  <2>2. moves[h][1].to # 0
    BY <2>1, FirstMove DEF to
  <2>3. extensionMM["left"] = 0 /\ extensionMM["right"] = 0
    BY <2>2 DEF PreparedInv, Prepared
  <2> QED
    BY <2>3, RetractedIsZero DEF Sides
<1> QED
  BY <1>1, <1>2, MovesInit, MovesNext, PreparedNext, PTL DEF TelescopeSpec
================================================================================

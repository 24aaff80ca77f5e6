------------------------------ MODULE MotionProofs ------------------------------
(***************************************************************************)
(* Theorems about the three modules that build on CraneService, for every  *)
(* number of cranes, callers and firers and every set of routes: how far a *)
(* motion runs past a stop or a cancellation (MotionHistory), when a crane *)
(* agrees with its state machine (MotionMachine), and where planned moves  *)
(* leave a crane (GuardedMotion).                                          *)
(***************************************************************************)
EXTENDS MotionHistory, MotionMachine, GuardedMotion, CraneServiceProofs, WarehouseProofs

-------------------------------------------------------------------------------
(***************************************************************************)
(* MotionHistory.                                                          *)
(***************************************************************************)

\* A stopped crane that carried out the one motion has a caller which cannot
\* reach the next start of a motion on it.
StopSpent ==
  \A c \in Callers, k \in Cranes : afterStop[c][k] > 0 =>
    /\ eStopActive[k]
    /\ crane[c] = k => pc[c] \in {"ready", "check", "unlock", "clear"}

\* A route that committed after its context was done cannot reach a commit.
DoneSpent ==
  \A c \in Callers : afterDone[c] > 0 => ctx[c] = "done" /\ pc[c] # "commit"

\* A caller has moved only between its commit and the end of its MoveAxis.
MovedReturns == \A c \in Callers : moved[c] => pc[c] \in {"unlock", "clear"}

\* An interrupted motion keeps its cancelled context and returns an error.
InterruptReturns ==
  \A c \in Callers : interrupted[c] =>
    /\ ctx[c] # "live" /\ ~moved[c]
    /\ BeforeLastSelect(c) \/ pc[c] \in {"unlock", "clear"}

\* The inductive invariant of the three properties of MotionHistory.
ContainmentInv ==
  /\ HistoryTypeOK
  /\ StopContainment /\ StopSpent
  /\ DoneContainment /\ DoneSpent
  /\ MovedReturns /\ InterruptReturns

\* The counters stay numbers, and a counter only grows by a commit.
LEMMA HistoryType ==
  ASSUME HistoryTypeOK, HistoryNext
  PROVE  HistoryTypeOK'
<1>1. ServiceTypeOK'
  BY NextType DEF HistoryTypeOK, HistoryNext
<1>2. \A c \in Callers : Count(c) \in Nat
  BY DEF Count
<1>3. afterStop' \in [Callers -> [Cranes -> Nat]]
  BY <1>2 DEF HistoryTypeOK, HistoryNext, CountStops
<1>4. afterDone' \in [Callers -> Nat]
  BY <1>2 DEF HistoryTypeOK, HistoryNext, CountDones
<1>5. interrupted' \in [Callers -> BOOLEAN]
  BY DEF HistoryTypeOK, HistoryNext, NoteInterrupts
<1> QED
  BY <1>1, <1>3, <1>4, <1>5 DEF HistoryTypeOK

(***************************************************************************)
(* What a step of the service does to caller c.                            *)
(***************************************************************************)

\* The caller stays where it is; a done context stays done.
Stays(c) ==
  /\ pc'[c] = pc[c]
  /\ crane'[c] = crane[c]
  /\ ctx[c] = "done" => ctx'[c] = "done"

\* The caller moves on the crane it is on, while no stop changes.
Moves(c) == crane' = crane /\ eStopActive' = eStopActive

Begins(c) ==
  /\ pc[c] = "ready" /\ pc'[c] = "check"
  /\ ctx' = ctx /\ eStopActive' = eStopActive

\* Admission is the only way to "install".
IsAnswered(c) ==
  /\ Moves(c)
  /\ pc[c] = "check"
  /\ \/ pc'[c] = "ready" /\ ctx'[c] # "done"
     \/ pc'[c] = "install" /\ ~eStopActive[crane[c]] /\ ctx' = ctx

\* Before the commit; a done context never gets to it.
Proceeds(c) ==
  /\ Moves(c)
  /\ pc[c] \in {"install", "lock", "enter", "start", "mid"}
  /\ pc'[c] \notin {"ready", "check"}
  /\ ctx[c] = "done" => ctx'[c] = "done" /\ pc'[c] # "commit"

DoesCommit(c) ==
  /\ Moves(c) /\ ctx' = ctx
  /\ pc[c] = "commit" /\ pc'[c] \in {"unlock", "clear"}

Returns(c) ==
  /\ Moves(c)
  /\ pc[c] \in {"unlock", "clear"} /\ pc'[c] \in {"clear", "ready", "check"}
  /\ pc'[c] # "ready" /\ ctx[c] = "done" => ctx'[c] = "done"

\* The step of another caller leaves c where it is, and cancels it at most
\* with "cancelled".
LEMMA OtherCaller ==
  ASSUME ServiceTypeOK, NEW c \in Callers, NEW d \in Callers, CallerStep(d), d # c
  PROVE  Stays(c)
<1>1. CASE Install(d)
  BY <1>1 DEF Install, Goto, Cancel, Stays, ServiceTypeOK
<1>2. CASE CheckMotionAllowed(d)
  BY <1>2 DEF CheckMotionAllowed, Stays, ServiceTypeOK
<1>3. CASE ClearCancel(d)
  BY <1>3 DEF ClearCancel, Goto, Stays, ServiceTypeOK
<1>4. CASE \/ LockHoist(d) \/ EnterSelect(d) \/ StartMotion(d) \/ MidSelect(d)
           \/ CommitMotion(d) \/ UnlockHoist(d)
  BY <1>4 DEF LockHoist, EnterSelect, StartMotion, MidSelect, CommitMotion,
              UnlockHoist, Goto, Stays, ServiceTypeOK
<1> QED
  BY <1>1, <1>2, <1>3, <1>4 DEF CallerStep

\* The caller's own step.
LEMMA OwnStep ==
  ASSUME ServiceTypeOK, NEW c \in Callers, CallerStep(c)
  PROVE  IsAnswered(c) \/ Proceeds(c) \/ DoesCommit(c) \/ Returns(c)
<1> USE DEF Moves, ServiceTypeOK
<1>1. CASE CheckMotionAllowed(c)
  BY <1>1 DEF CheckMotionAllowed, MotionAllowed, IsAnswered, craneVars
<1>2. CASE Install(c)
  BY <1>2 DEF Install, Goto, Cancel, Proceeds, craneVars
<1>3. CASE LockHoist(c) \/ EnterSelect(c) \/ StartMotion(c) \/ MidSelect(c)
  BY <1>3 DEF LockHoist, EnterSelect, StartMotion, MidSelect, Goto, Unwind, Proceeds,
              craneVars
<1>4. CASE CommitMotion(c)
  BY <1>4 DEF CommitMotion, Goto, Unwind, DoesCommit
<1>5. CASE UnlockHoist(c) \/ ClearCancel(c)
  BY <1>5 DEF UnlockHoist, ClearCancel, Goto, Returns, craneVars
<1> QED
  BY <1>1, <1>2, <1>3, <1>4, <1>5 DEF CallerStep

\* Every step of the service, as caller c sees it.
LEMMA StepOfCaller ==
  ASSUME ServiceTypeOK, ServiceNext, NEW c \in Callers
  PROVE  \/ Stays(c) \/ Begins(c) \/ IsAnswered(c) \/ Proceeds(c)
         \/ DoesCommit(c) \/ Returns(c)
<1>1. ASSUME NEW d \in Callers, CallerStep(d)
      PROVE  Stays(c) \/ IsAnswered(c) \/ Proceeds(c) \/ DoesCommit(c) \/ Returns(c)
  BY <1>1, OtherCaller, OwnStep
<1>2. ASSUME NEW d \in Callers, NEW k \in Cranes, NEW r \in Routes, Begin(d, k, r)
      PROVE  Stays(c) \/ Begins(c)
  BY <1>2 DEF Begin, Goto, craneVars, Stays, Begins, ServiceTypeOK
<1>3. ASSUME NEW d \in Callers, ContextDone(d) PROVE Stays(c)
  BY <1>3 DEF ContextDone, Stays, ServiceTypeOK
<1>4. ASSUME NEW x \in Cancellers, CancelCall(x) PROVE Stays(c)
  BY <1>4 DEF CancelCall, Cancel, Stays, ServiceTypeOK
<1>5. CASE UNCHANGED callVars
  BY <1>5 DEF callVars, Stays
<1> QED
  BY <1>1, <1>2, <1>3, <1>4, <1>5
  DEF ServiceNext, CallerNext, ClientNext, SetEStop, SetInterlocked, SetPhase, CancelRead

(***************************************************************************)
(* The same step, by what it does to the context and the outcome of the    *)
(* motion of caller c.                                                     *)
(***************************************************************************)

\* The caller stays where it is, and a cancelled context stays cancelled.
Halts(c) ==
  /\ pc'[c] = pc[c] /\ moved'[c] = moved[c]
  /\ ctx[c] # "live" => ctx'[c] # "live"

\* Up to the end of the motion: past the last select only with a live context,
\* and moved only by the commit.
Advances(c) ==
  /\ ctx[c] # "live" => ctx'[c] # "live"
  /\ \/ /\ pc[c] \in {"check", "install"} /\ pc'[c] \in {"install", "lock", "enter"}
        /\ moved'[c] = moved[c]
     \/ /\ BeforeLastSelect(c) /\ moved'[c] = moved[c]
        /\ \/ BeforeLastSelect(c)' \/ pc'[c] \in {"unlock", "clear"}
           \/ pc'[c] = "commit" /\ ctx[c] = "live"
     \/ pc[c] = "commit" /\ pc'[c] \in {"unlock", "clear"}
     \/ pc[c] = "unlock" /\ pc'[c] = "clear" /\ moved'[c] = moved[c]

\* Out of MoveAxis, and on only if it moved; or into or out of a route.
Leaves(c) ==
  \/ /\ pc[c] = "clear" /\ pc'[c] \in {"ready", "check"}
     /\ ~moved'[c]
     /\ pc'[c] = "check" => moved[c]
  \/ /\ pc[c] \in {"ready", "check"} /\ pc'[c] \in {"ready", "check"}
     /\ moved'[c] = moved[c]

\* Every step of the service is one of the three for every caller.
LEMMA InterruptCases ==
  ASSUME ServiceTypeOK, ServiceNext, NEW c \in Callers
  PROVE  Halts(c) \/ Advances(c) \/ Leaves(c)
<1> USE DEF ServiceTypeOK
<1>1. ASSUME NEW d \in Callers, d # c, CallerStep(d) PROVE Halts(c)
  BY <1>1 DEF CallerStep, CheckMotionAllowed, Install, LockHoist, EnterSelect, StartMotion,
              MidSelect, CommitMotion, UnlockHoist, ClearCancel, Goto, Cancel, Halts
<1>2. ASSUME CallerStep(c) PROVE Advances(c) \/ Leaves(c)
  <2> USE DEF Goto, BeforeLastSelect
  <2>1. CASE CheckMotionAllowed(c)
    BY <2>1 DEF CheckMotionAllowed, Advances, Leaves
  <2>2. CASE Install(c)
    BY <2>2 DEF Install, Cancel, Advances
  <2>3. CASE LockHoist(c) \/ StartMotion(c)
    BY <2>3 DEF LockHoist, StartMotion, Advances
  <2>4. CASE EnterSelect(c) \/ MidSelect(c)
    BY <2>4 DEF EnterSelect, MidSelect, Unwind, Advances
  <2>5. CASE CommitMotion(c)
    BY <2>5 DEF CommitMotion, Unwind, Advances
  <2>6. CASE UnlockHoist(c)
    BY <2>6 DEF UnlockHoist, Advances
  <2>7. CASE ClearCancel(c)
    BY <2>7 DEF ClearCancel, Leaves
  <2> QED
    BY <1>2, <2>1, <2>2, <2>3, <2>4, <2>5, <2>6, <2>7 DEF CallerStep
<1>3. ASSUME NEW d \in Callers, NEW k \in Cranes, NEW r \in Routes, Begin(d, k, r)
      PROVE  Halts(c) \/ Leaves(c)
  BY <1>3 DEF Begin, Goto, Halts, Leaves
<1>4. ASSUME NEW d \in Callers, ContextDone(d) PROVE Halts(c)
  BY <1>4 DEF ContextDone, Halts
<1>5. ASSUME NEW x \in Cancellers, CancelCall(x) PROVE Halts(c)
  BY <1>5 DEF CancelCall, Cancel, Halts
<1>6. CASE UNCHANGED callVars
  BY <1>6 DEF callVars, Halts
<1> QED
  BY <1>1, <1>2, <1>3, <1>4, <1>5, <1>6
  DEF ServiceNext, CallerNext, ClientNext, SetEStop, SetInterlocked, SetPhase, CancelRead

-------------------------------------------------------------------------------
\* The counters start at zero.
LEMMA HistoryInitInv == HistoryInit => ContainmentInv
<1> SUFFICES ASSUME HistoryInit PROVE ContainmentInv
  OBVIOUS
<1>1. ServiceTypeOK
  BY InitType DEF HistoryInit
<1> QED
  BY <1>1 DEF HistoryInit, ContainmentInv, HistoryTypeOK, StopContainment, DoneContainment,
              StopSpent, DoneSpent, MovedReturns, InterruptReturns, ServiceInit, ServiceInitAt

\* The stop part of the invariant, for one caller and one crane.
LEMMA StopStep ==
  ASSUME ContainmentInv, HistoryNext, NEW c \in Callers, NEW k \in Cranes
  PROVE  /\ afterStop'[c][k] <= 1
         /\ afterStop'[c][k] > 0 =>
              /\ eStopActive'[k]
              /\ crane'[c] = k => pc'[c] \in {"ready", "check", "unlock", "clear"}
<1> DEFINE old == afterStop[c][k]
           new == afterStop'[c][k]
<1>1. /\ old \in Nat /\ old <= 1
      /\ old > 0 => /\ eStopActive[k]
                    /\ crane[c] = k => pc[c] \in {"ready", "check", "unlock", "clear"}
  BY DEF ContainmentInv, HistoryTypeOK, StopContainment, StopSpent
<1>2. new = IF ~eStopActive'[k] THEN 0
            ELSE old + (IF crane[c] = k /\ Commits(c) THEN 1 ELSE 0)
  BY <1>1 DEF HistoryNext, CountStops, Count
<1>3. CASE Stays(c)
  BY <1>1, <1>2, <1>3 DEF Stays, Commits
<1>4. CASE Begins(c)
  BY <1>1, <1>2, <1>4 DEF Begins, Commits
<1>5. CASE IsAnswered(c)
  BY <1>1, <1>2, <1>5 DEF IsAnswered, Moves, Commits
<1>6. CASE Proceeds(c)
  BY <1>1, <1>2, <1>6 DEF Proceeds, Moves, Commits
<1>7. CASE DoesCommit(c)
  BY <1>1, <1>2, <1>7 DEF DoesCommit, Moves, Commits
<1>8. CASE Returns(c)
  BY <1>1, <1>2, <1>8 DEF Returns, Moves, Commits
<1> QED
  BY <1>3, <1>4, <1>5, <1>6, <1>7, <1>8, StepOfCaller
  DEF HistoryNext, ContainmentInv, HistoryTypeOK

\* The cancellation part of the invariant, for one caller.
LEMMA DoneStep ==
  ASSUME ContainmentInv, HistoryNext, NEW c \in Callers
  PROVE  /\ afterDone'[c] <= 1
         /\ afterDone'[c] > 0 => ctx'[c] = "done" /\ pc'[c] # "commit"
<1> DEFINE old == afterDone[c]
           new == afterDone'[c]
<1>1. /\ old \in Nat /\ old <= 1
      /\ old > 0 => ctx[c] = "done" /\ pc[c] # "commit"
  BY DEF ContainmentInv, HistoryTypeOK, DoneContainment, DoneSpent
<1>2. new = IF pc'[c] = "ready" THEN 0
            ELSE old + (IF ctx[c] = "done" /\ Commits(c) THEN 1 ELSE 0)
  BY DEF HistoryNext, CountDones, Count
<1>3. CASE Stays(c)
  BY <1>1, <1>2, <1>3 DEF Stays, Commits
<1>4. CASE Begins(c) \/ IsAnswered(c)
  BY <1>1, <1>2, <1>4 DEF Begins, IsAnswered, Commits
<1>5. CASE Proceeds(c)
  BY <1>1, <1>2, <1>5 DEF Proceeds, Commits
<1>6. CASE DoesCommit(c)
  BY <1>1, <1>2, <1>6 DEF DoesCommit, Commits
<1>7. CASE Returns(c)
  BY <1>1, <1>2, <1>7 DEF Returns, Commits
<1> QED
  BY <1>3, <1>4, <1>5, <1>6, <1>7, StepOfCaller
  DEF HistoryNext, ContainmentInv, HistoryTypeOK

\* The interruption part of the invariant, for one caller.
LEMMA InterruptStep ==
  ASSUME ContainmentInv, HistoryNext, NEW c \in Callers
  PROVE  /\ moved'[c] => pc'[c] \in {"unlock", "clear"}
         /\ interrupted'[c] =>
              /\ ctx'[c] # "live" /\ ~moved'[c]
              /\ BeforeLastSelect(c)' \/ pc'[c] \in {"unlock", "clear"}
<1>1. /\ moved[c] \in BOOLEAN /\ interrupted[c] \in BOOLEAN
      /\ moved[c] => pc[c] \in {"unlock", "clear"}
      /\ interrupted[c] => /\ ctx[c] # "live" /\ ~moved[c]
                           /\ BeforeLastSelect(c) \/ pc[c] \in {"unlock", "clear"}
  BY DEF ContainmentInv, MovedReturns, InterruptReturns, HistoryTypeOK, ServiceTypeOK
<1>2. interrupted'[c] <=>
        /\ pc'[c] # "ready"
        /\ interrupted[c] \/ (BeforeLastSelect(c)' /\ ctx'[c] # "live")
  BY DEF HistoryNext, NoteInterrupts
<1>3. CASE Halts(c)
  BY <1>1, <1>2, <1>3 DEF Halts, BeforeLastSelect
<1>4. CASE Advances(c)
  BY <1>1, <1>2, <1>4 DEF Advances, BeforeLastSelect
<1>5. CASE Leaves(c)
  BY <1>1, <1>2, <1>5 DEF Leaves, BeforeLastSelect
<1> QED
  BY <1>3, <1>4, <1>5, InterruptCases DEF HistoryNext, ContainmentInv, HistoryTypeOK

\* ContainmentInv is inductive.
LEMMA HistoryNextInv == ContainmentInv /\ [HistoryNext]_historyVars => ContainmentInv'
<1> SUFFICES ASSUME ContainmentInv, [HistoryNext]_historyVars PROVE ContainmentInv'
  OBVIOUS
<1>1. CASE HistoryNext
  <2>1. HistoryTypeOK'
    BY <1>1, HistoryType DEF ContainmentInv
  <2>2. StopContainment' /\ StopSpent'
    BY <1>1, StopStep DEF StopContainment, StopSpent
  <2>3. DoneContainment' /\ DoneSpent'
    BY <1>1, DoneStep DEF DoneContainment, DoneSpent
  <2>4. MovedReturns' /\ InterruptReturns'
    BY <1>1, InterruptStep DEF MovedReturns, InterruptReturns
  <2> QED
    BY <2>1, <2>2, <2>3, <2>4 DEF ContainmentInv
<1>2. CASE UNCHANGED historyVars
  BY <1>2 DEF historyVars, serviceVars, craneVars, lockVars, callVars, ContainmentInv,
              HistoryTypeOK, ServiceTypeOK, StopContainment, DoneContainment, StopSpent,
              DoneSpent, MovedReturns, InterruptReturns, BeforeLastSelect
<1> QED
  BY <1>1, <1>2

\* The inductive invariant of all three holds in every behaviour.
LEMMA ContainmentInvAlways == HistorySpec => []ContainmentInv
BY HistoryInitInv, HistoryNextInv, PTL DEF HistorySpec

\* Under one uninterrupted emergency stop a caller completes at most one axis
\* motion on the crane, for all cranes, callers and routes.
THEOREM StopContained == HistorySpec => []StopContainment
<1>1. ContainmentInv => StopContainment
  BY DEF ContainmentInv
<1> QED
  BY <1>1, ContainmentInvAlways, PTL

\* A route whose context is done completes at most one more axis motion, for
\* all cranes, callers and routes.
THEOREM DoneContained == HistorySpec => []DoneContainment
<1>1. ContainmentInv => DoneContainment
  BY DEF ContainmentInv
<1> QED
  BY <1>1, ContainmentInvAlways, PTL

\* A motion cancelled before its last select moves nothing and ends its route,
\* for all cranes, callers, cancellers and routes.
THEOREM InterruptedEndsAlways == HistorySpec => []InterruptedEnds
<1>1. ContainmentInv => InterruptedEnds
  BY DEF ContainmentInv, InterruptReturns, InterruptedEnds, BeforeLastSelect
<1> QED
  BY <1>1, ContainmentInvAlways, PTL

-------------------------------------------------------------------------------
(***************************************************************************)
(* MotionMachine: the effects that are left.                               *)
(***************************************************************************)

\* Concatenations of short sequences.
LEMMA ConcatOneOne ==
  ASSUME NEW a, NEW b
  PROVE  << a >> \o << b >> = << a, b >>
<1> DEFINE u == << a >>
           v == << b >>
           S == {a, b}
           t == << a, b >>
           w == u \o v
<1>1. u \in Seq(S) /\ v \in Seq(S) /\ Len(u) = 1 /\ Len(v) = 1 /\ u[1] = a /\ v[1] = b
  OBVIOUS
<1>2. t \in Seq(S) /\ Len(t) = 2 /\ t[1] = a /\ t[2] = b
  OBVIOUS
<1>3. /\ w \in Seq(S) /\ Len(w) = Len(u) + Len(v)
      /\ \A i \in 1..(Len(u) + Len(v)) : w[i] = IF i <= Len(u) THEN u[i] ELSE v[i - Len(u)]
  <2> HIDE DEF u, v, S
  <2> QED
    BY <1>1, ConcatProperties
<1> HIDE DEF u, v, S, t, w
<1>4. Len(w) = 2
  BY <1>1, <1>3
<1>5. ASSUME NEW i \in 1..2 PROVE w[i] = t[i]
  <2>1. CASE i = 1
    BY <1>1, <1>2, <1>3, <2>1
  <2>2. CASE i = 2
    <3>1. 2 - Len(u) = 1 /\ ~(2 <= Len(u)) /\ 2 \in 1..(Len(u) + Len(v))
      BY <1>1
    <3>2. w[2] = v[2 - Len(u)]
      BY <1>3, <3>1
    <3> QED
      BY <1>1, <1>2, <2>2, <3>1, <3>2
  <2> QED
    BY <2>1, <2>2
<1>6. w = t
  <2>1. \A i \in 1..Len(w) : w[i] = t[i]
    BY <1>4, <1>5
  <2> QED
    BY <1>2, <1>3, <1>4, <2>1, SeqEqual
<1> QED
  BY <1>6 DEF u, v, t, w

\* The same for a pair and one more.
LEMMA ConcatTwoOne ==
  ASSUME NEW a, NEW b, NEW c
  PROVE  << a, b >> \o << c >> = << a, b, c >>
<1> DEFINE u == << a, b >>
           v == << c >>
           S == {a, b, c}
           t == << a, b, c >>
           w == u \o v
<1>1. /\ u \in Seq(S) /\ v \in Seq(S) /\ Len(u) = 2 /\ Len(v) = 1
      /\ u[1] = a /\ u[2] = b /\ v[1] = c
  OBVIOUS
<1>2. t \in Seq(S) /\ Len(t) = 3 /\ t[1] = a /\ t[2] = b /\ t[3] = c
  OBVIOUS
<1>3. /\ w \in Seq(S) /\ Len(w) = Len(u) + Len(v)
      /\ \A i \in 1..(Len(u) + Len(v)) : w[i] = IF i <= Len(u) THEN u[i] ELSE v[i - Len(u)]
  <2> HIDE DEF u, v, S
  <2> QED
    BY <1>1, ConcatProperties
<1> HIDE DEF u, v, S, t, w
<1>4. Len(w) = 3
  BY <1>1, <1>3
<1>5. ASSUME NEW i \in 1..3 PROVE w[i] = t[i]
  <2>1. CASE i = 1 \/ i = 2
    BY <1>1, <1>2, <1>3, <2>1
  <2>2. CASE i = 3
    <3>1. 3 - Len(u) = 1 /\ ~(3 <= Len(u)) /\ 3 \in 1..(Len(u) + Len(v))
      BY <1>1
    <3>2. w[3] = v[3 - Len(u)]
      BY <1>3, <3>1
    <3> QED
      BY <1>1, <1>2, <2>2, <3>1, <3>2
  <2> QED
    BY <2>1, <2>2
<1>6. w = t
  <2>1. \A i \in 1..Len(w) : w[i] = t[i]
    BY <1>4, <1>5
  <2> QED
    BY <1>2, <1>3, <1>4, <2>1, SeqEqual
<1> QED
  BY <1>6 DEF u, v, t, w

\* The same for one and a pair.
LEMMA ConcatOneTwo ==
  ASSUME NEW a, NEW b, NEW c
  PROVE  << a >> \o << b, c >> = << a, b, c >>
<1> DEFINE u == << a >>
           v == << b, c >>
           S == {a, b, c}
           t == << a, b, c >>
           w == u \o v
<1>1. /\ u \in Seq(S) /\ v \in Seq(S) /\ Len(u) = 1 /\ Len(v) = 2
      /\ u[1] = a /\ v[1] = b /\ v[2] = c
  OBVIOUS
<1>2. t \in Seq(S) /\ Len(t) = 3 /\ t[1] = a /\ t[2] = b /\ t[3] = c
  OBVIOUS
<1>3. /\ w \in Seq(S) /\ Len(w) = Len(u) + Len(v)
      /\ \A i \in 1..(Len(u) + Len(v)) : w[i] = IF i <= Len(u) THEN u[i] ELSE v[i - Len(u)]
  <2> HIDE DEF u, v, S
  <2> QED
    BY <1>1, ConcatProperties
<1> HIDE DEF u, v, S, t, w
<1>4. Len(w) = 3
  BY <1>1, <1>3
<1>5. ASSUME NEW i \in 1..3 PROVE w[i] = t[i]
  <2>1. CASE i = 1
    BY <1>1, <1>2, <1>3, <2>1
  <2>2. CASE i = 2
    <3>1. 2 - Len(u) = 1 /\ ~(2 <= Len(u)) /\ 2 \in 1..(Len(u) + Len(v))
      BY <1>1
    <3>2. w[2] = v[2 - Len(u)]
      BY <1>3, <3>1
    <3> QED
      BY <1>1, <1>2, <2>2, <3>1, <3>2
  <2>3. CASE i = 3
    <3>1. 3 - Len(u) = 2 /\ ~(3 <= Len(u)) /\ 3 \in 1..(Len(u) + Len(v))
      BY <1>1
    <3>2. w[3] = v[3 - Len(u)]
      BY <1>3, <3>1
    <3> QED
      BY <1>1, <1>2, <2>3, <3>1, <3>2
  <2> QED
    BY <2>1, <2>2, <2>3
<1>6. w = t
  <2>1. \A i \in 1..Len(w) : w[i] = t[i]
    BY <1>4, <1>5
  <2> QED
    BY <1>2, <1>3, <1>4, <2>1, SeqEqual
<1> QED
  BY <1>6 DEF u, v, t, w

\* The two critical sections of CancelMotion.
Read == [do |-> "read", arg |-> TRUE]
Call == [do |-> "call", arg |-> TRUE]

\* What can be left of the effects of the last transition while the machine is
\* in phase m, nothing apart.
Left(m) ==
  CASE m \in {"traveling", "hoisting", "forking"} -> { << Show(m) >> }
    [] m = "emergency" -> { << Stop(TRUE), Read, Call >>, << Read, Call >>, << Call >> }
    [] m = "idle" -> { << Stop(FALSE), Show("idle") >>, << Show("idle") >> }
    [] m = "fault" -> { << Read, Call, Show("fault") >>, << Call, Show("fault") >>, << Show("fault") >> }
    [] OTHER -> {}

\* The effects of a transition are what is left before the first is applied;
\* a transition without effects leads to a phase that is never shown.
LEMMA EffectsLeft ==
  ASSUME NEW from \in Phases, NEW to \in Phases
  PROVE  LET s == MotionSideEffects(from, to) IN
         /\ s # << >> => s \in Left(to)
         /\ s = << >> <=> to \in {"dwell", "loading", "unloading"}
         /\ to = "emergency" => Head(s) = Stop(TRUE)
         /\ to = "idle" /\ from = "emergency" => Head(s) = Stop(FALSE)
<1>1. CASE to \in {"traveling", "hoisting", "forking"}
  <2>1. MotionSideEffects(from, to) = << Show(to) >>
    BY <1>1 DEF MotionSideEffects
  <2>2. Left(to) = { << Show(to) >> }
    BY <1>1 DEF Left
  <2>3. << Show(to) >> # << >>
    OBVIOUS
  <2> QED
    BY <1>1, <2>1, <2>2, <2>3
<1>2. CASE to = "emergency"
  <2>1. MotionSideEffects(from, to) = << Stop(TRUE) >> \o CancelMotion
    BY <1>2 DEF MotionSideEffects
  <2>2. << Stop(TRUE) >> \o << Read, Call >> = << Stop(TRUE), Read, Call >>
    BY ConcatOneTwo
  <2>3. MotionSideEffects(from, to) = << Stop(TRUE), Read, Call >>
    BY <2>1, <2>2 DEF CancelMotion, Read, Call
  <2>4. /\ << Stop(TRUE), Read, Call >> # << >>
        /\ Head(<< Stop(TRUE), Read, Call >>) = Stop(TRUE)
    OBVIOUS
  <2>5. << Stop(TRUE), Read, Call >> \in Left(to)
    BY <1>2 DEF Left
  <2> QED
    BY <1>2, <2>3, <2>4, <2>5
<1>3. CASE to = "idle"
  <2>1. MotionSideEffects(from, to) =
          (IF from = "emergency" THEN << Stop(FALSE) >> ELSE << >>) \o << Show("idle") >>
    BY <1>3 DEF MotionSideEffects
  <2>2. Left(to) = { << Stop(FALSE), Show("idle") >>, << Show("idle") >> }
    BY <1>3 DEF Left
  <2>3. CASE from = "emergency"
    <3>1. MotionSideEffects(from, to) = << Stop(FALSE), Show("idle") >>
      BY <2>1, <2>3, ConcatOneOne
    <3>2. /\ << Stop(FALSE), Show("idle") >> # << >>
          /\ Head(<< Stop(FALSE), Show("idle") >>) = Stop(FALSE)
      OBVIOUS
    <3> QED
      BY <1>3, <2>2, <3>1, <3>2
  <2>4. CASE from # "emergency"
    <3>1. << >> \o << Show("idle") >> = << Show("idle") >>
      <4>1. << Show("idle") >> \in Seq({Show("idle")})
        OBVIOUS
      <4> QED
        BY <4>1, ConcatEmptySeq
    <3>2. MotionSideEffects(from, to) = << Show("idle") >>
      BY <2>1, <2>4, <3>1
    <3>3. << Show("idle") >> # << >>
      OBVIOUS
    <3> QED
      BY <1>3, <2>2, <2>4, <3>2, <3>3
  <2> QED
    BY <2>3, <2>4
<1>4. CASE to = "fault"
  <2>1. MotionSideEffects(from, to) = CancelMotion \o << Show("fault") >>
    BY <1>4 DEF MotionSideEffects
  <2>2. << Read, Call >> \o << Show("fault") >> = << Read, Call, Show("fault") >>
    BY ConcatTwoOne
  <2>3. MotionSideEffects(from, to) = << Read, Call, Show("fault") >>
    BY <2>1, <2>2 DEF CancelMotion, Read, Call
  <2>4. << Read, Call, Show("fault") >> # << >>
    OBVIOUS
  <2>5. << Read, Call, Show("fault") >> \in Left(to)
    BY <1>4 DEF Left
  <2> QED
    BY <1>4, <2>3, <2>4, <2>5
<1>5. CASE to \in {"dwell", "loading", "unloading"}
  BY <1>5 DEF MotionSideEffects
<1> QED
  BY <1>1, <1>2, <1>3, <1>4, <1>5 DEF Phases

\* The effects are told apart by what they do.
LEMMA EffectFacts ==
  /\ Stop(TRUE) # Stop(FALSE) /\ Stop(TRUE).arg = TRUE /\ Stop(FALSE).arg = FALSE
  /\ \A b \in BOOLEAN : Stop(b).do = "estop"
  /\ \A q : Show(q).do = "phase" /\ Show(q).arg = q
  /\ Read.do = "read" /\ Call.do = "call"
BY DEF Stop, Show, Read, Call

\* No two of them are the same, and lists of them are not empty.
LEMMA EffectsApart ==
  /\ Stop(TRUE) # Stop(FALSE) /\ Read # Call
  /\ Read \notin {Stop(TRUE), Stop(FALSE)} /\ Call \notin {Stop(TRUE), Stop(FALSE)}
  /\ \A q : Show(q) \notin {Stop(TRUE), Stop(FALSE), Read, Call}
  /\ \A a, b : << a >> # << >> /\ << a, b >> # << >>
<1>1. \A a, b : << a >> # << >> /\ << a, b >> # << >>
  OBVIOUS
<1> QED
  BY <1>1, EffectFacts

\* The possible next effects, and what is left after each.
NextEffect(s, m) ==
  \/ Head(s) = Stop(TRUE) /\ m = "emergency" /\ Tail(s) = << Read, Call >>
  \/ Head(s) = Stop(FALSE) /\ m = "idle" /\ Tail(s) = << Show("idle") >>
  \/ Head(s) = Show(m) /\ m # "emergency" /\ Tail(s) = << >>
  \/ Head(s) = Read /\ m = "emergency" /\ Tail(s) = << Call >>
  \/ Head(s) = Read /\ m = "fault" /\ Tail(s) = << Call, Show("fault") >>
  \/ Head(s) = Call /\ m = "emergency" /\ Tail(s) = << >>
  \/ Head(s) = Call /\ m = "fault" /\ Tail(s) = << Show("fault") >>

\* Every list that can be left is one of these.
LEMMA LeftNext ==
  ASSUME NEW m, NEW s \in Left(m)
  PROVE  s # << >> /\ Len(s) <= 3 /\ NextEffect(s, m)
<1>1. CASE m \in {"traveling", "hoisting", "forking"}
  <2>1. s = << Show(m) >>
    BY <1>1 DEF Left
  <2>2. s # << >> /\ Len(s) <= 3 /\ Head(s) = Show(m) /\ Tail(s) = << >>
    BY <2>1
  <2> QED
    BY <1>1, <2>2 DEF NextEffect
<1>2. CASE m = "emergency"
  <2>1. s \in { << Stop(TRUE), Read, Call >>, << Read, Call >>, << Call >> }
    BY <1>2 DEF Left
  <2>2. CASE s = << Stop(TRUE), Read, Call >>
    <3>1. s # << >> /\ Len(s) <= 3 /\ Head(s) = Stop(TRUE) /\ Tail(s) = << Read, Call >>
      BY <2>2
    <3> QED
      BY <1>2, <3>1 DEF NextEffect
  <2>3. CASE s = << Read, Call >>
    <3>1. s # << >> /\ Len(s) <= 3 /\ Head(s) = Read /\ Tail(s) = << Call >>
      BY <2>3
    <3> QED
      BY <1>2, <3>1 DEF NextEffect
  <2>4. CASE s = << Call >>
    <3>1. s # << >> /\ Len(s) <= 3 /\ Head(s) = Call /\ Tail(s) = << >>
      BY <2>4
    <3> QED
      BY <1>2, <3>1 DEF NextEffect
  <2> QED
    BY <2>1, <2>2, <2>3, <2>4
<1>3. CASE m = "idle"
  <2>1. s \in { << Stop(FALSE), Show("idle") >>, << Show("idle") >> }
    BY <1>3 DEF Left
  <2>2. CASE s = << Stop(FALSE), Show("idle") >>
    <3>1. s # << >> /\ Len(s) <= 3 /\ Head(s) = Stop(FALSE) /\ Tail(s) = << Show("idle") >>
      BY <2>2
    <3> QED
      BY <1>3, <3>1 DEF NextEffect
  <2>3. CASE s = << Show("idle") >>
    <3>1. s # << >> /\ Len(s) <= 3 /\ Head(s) = Show("idle") /\ Tail(s) = << >>
      BY <2>3
    <3> QED
      BY <1>3, <3>1 DEF NextEffect
  <2> QED
    BY <2>1, <2>2, <2>3
<1>4. CASE m = "fault"
  <2>1. s \in { << Read, Call, Show("fault") >>, << Call, Show("fault") >>, << Show("fault") >> }
    BY <1>4 DEF Left
  <2>2. CASE s = << Read, Call, Show("fault") >>
    <3>1. s # << >> /\ Len(s) <= 3 /\ Head(s) = Read /\ Tail(s) = << Call, Show("fault") >>
      BY <2>2
    <3> QED
      BY <1>4, <3>1 DEF NextEffect
  <2>3. CASE s = << Call, Show("fault") >>
    <3>1. s # << >> /\ Len(s) <= 3 /\ Head(s) = Call /\ Tail(s) = << Show("fault") >>
      BY <2>3
    <3> QED
      BY <1>4, <3>1 DEF NextEffect
  <2>4. CASE s = << Show("fault") >>
    <3>1. s # << >> /\ Len(s) <= 3 /\ Head(s) = Show("fault") /\ Tail(s) = << >>
      BY <2>4
    <3> QED
      BY <1>4, <3>1 DEF NextEffect
  <2> QED
    BY <2>1, <2>2, <2>3, <2>4
<1> QED
  BY <1>1, <1>2, <1>3, <1>4 DEF Left

\* What is left of it stays so.
LEMMA LeftTail ==
  ASSUME NEW m, NEW s \in Left(m), Tail(s) # << >>
  PROVE  Tail(s) \in Left(m)
<1>1. NextEffect(s, m)
  BY LeftNext
<1>2. CASE m = "emergency"
  BY <1>1, <1>2 DEF NextEffect, Left
<1>3. CASE m = "idle"
  BY <1>1, <1>3 DEF NextEffect, Left
<1>4. CASE m = "fault"
  BY <1>1, <1>4 DEF NextEffect, Left
<1>5. CASE m \notin {"emergency", "idle", "fault"}
  BY <1>1, <1>5 DEF NextEffect
<1> QED
  BY <1>2, <1>3, <1>4, <1>5

-------------------------------------------------------------------------------
(***************************************************************************)
(* MotionMachine: types.                                                   *)
(***************************************************************************)

\* MachineTypeOK with what can be left to apply in place of its length.
MachineTypes ==
  /\ ServiceTypeOK
  /\ machine \in [MachineIds -> Phases]
  /\ todo \in [Firers -> {<< >>} \cup UNION {Left(m) : m \in Phases}]
  /\ target \in [Firers -> Cranes]
  /\ latched \in [Cranes -> BOOLEAN] /\ driven \subseteq Cranes

\* The critical section a firer applies next.
LEMMA ApplyCases ==
  ASSUME MachineTypes, NEW f \in Firers, ApplyEffect(f)
  PROVE  LET k == target[f] IN
         /\ k \in Cranes
         /\ \E m \in Phases : todo[f] \in Left(m)
         /\ todo' = [todo EXCEPT ![f] = Tail(todo[f])]
         /\ UNCHANGED <<machine, target>>
         /\ \/ /\ Head(todo[f]) = Stop(TRUE) /\ SetEStop(k, TRUE)
               /\ latched' = latched /\ driven' = driven \ {k}
            \/ /\ Head(todo[f]) = Stop(FALSE) /\ SetEStop(k, FALSE)
               /\ latched' = [latched EXCEPT ![k] = FALSE] /\ driven' = driven
            \/ /\ \E q \in Phases : Head(todo[f]) = Show(q) /\ SetPhase(k, q)
               /\ latched' = latched /\ driven' = driven \ {k}
            \/ /\ Head(todo[f]) \in {Read, Call}
               /\ CancelRead(f, k) \/ CancelCall(f) \/ UNCHANGED serviceVars
               /\ latched' = latched /\ driven' = driven
<1> DEFINE e == Head(todo[f])
           k == target[f]
<1>1. /\ k \in Cranes /\ todo[f] # << >>
      /\ todo' = [todo EXCEPT ![f] = Tail(todo[f])] /\ UNCHANGED <<machine, target>>
  BY DEF MachineTypes, ApplyEffect
<1>2. PICK m \in Phases : todo[f] \in Left(m)
  BY <1>1 DEF MachineTypes
<1>3. e \in {Stop(TRUE), Stop(FALSE), Show(m), Read, Call}
  <2>1. NextEffect(todo[f], m)
    BY <1>2, LeftNext
  <2> QED
    BY <2>1 DEF NextEffect
<1>4. /\ e.do = "estop" => SetEStop(k, e.arg)
      /\ e.do = "phase" => SetPhase(k, e.arg)
      /\ e.do = "read" => CancelRead(f, k)
      /\ e.do = "call" => UNCHANGED serviceVars \/ CancelCall(f)
      /\ latched' = IF e = Stop(FALSE) THEN [latched EXCEPT ![k] = FALSE] ELSE latched
      /\ driven' = IF e.do = "phase" \/ e = Stop(TRUE) THEN driven \ {k} ELSE driven
  BY DEF ApplyEffect
<1> HIDE DEF e, k
<1>5. CASE e = Stop(TRUE)
  <2>1. SetEStop(k, TRUE) /\ latched' = latched /\ driven' = driven \ {k}
    BY <1>4, <1>5, EffectFacts
  <2> QED
    BY <1>1, <1>2, <1>5, <2>1 DEF e, k
<1>6. CASE e = Stop(FALSE)
  <2>1. e.do # "phase" /\ e # Stop(TRUE) /\ e.do = "estop" /\ e.arg = FALSE
    BY <1>6, EffectFacts
  <2>2. /\ SetEStop(k, FALSE) /\ latched' = [latched EXCEPT ![k] = FALSE]
        /\ driven' = driven
    BY <1>4, <1>6, <2>1
  <2> QED
    BY <1>1, <1>2, <1>6, <2>2 DEF e, k
<1>7. CASE e = Show(m)
  <2>1. e # Stop(FALSE) /\ e.do = "phase" /\ e.arg = m
    BY <1>7, EffectFacts
  <2>2. SetPhase(k, m) /\ latched' = latched /\ driven' = driven \ {k}
    BY <1>4, <2>1
  <2> QED
    BY <1>1, <1>2, <1>7, <2>2 DEF e, k
<1>8. CASE e \in {Read, Call}
  <2>1. e # Stop(FALSE) /\ e # Stop(TRUE) /\ e.do \in {"read", "call"}
    BY <1>8, EffectFacts
  <2>2. /\ CancelRead(f, k) \/ CancelCall(f) \/ UNCHANGED serviceVars
        /\ latched' = latched /\ driven' = driven
    BY <1>4, <2>1
  <2> QED
    BY <1>1, <1>2, <1>8, <2>2 DEF e, k
<1> QED
  BY <1>3, <1>5, <1>6, <1>7, <1>8

\* Every step of a firer or a caller keeps the types.
LEMMA MachineTypeNext ==
  ASSUME MachineTypes, [MachineNext]_allVars
  PROVE  MachineTypes'
<1> USE DEF MachineTypes
<1>0. UNCHANGED serviceVars => ServiceTypeOK'
  BY NextType
<1>1. ASSUME NEW f \in Firers, NEW id \in MachineIds, NEW to \in Phases, Enter(f, id, to)
      PROVE  MachineTypes'
  <2>1. ServiceTypeOK' /\ driven' = driven /\ machine' \in [MachineIds -> Phases]
    BY <1>0, <1>1 DEF Enter
  <2>2. CASE id \in Cranes
    <3>1. MotionSideEffects(machine[id], to) \in {<< >>} \cup UNION {Left(m) : m \in Phases}
      BY EffectsLeft
    <3>2. todo' \in [Firers -> {<< >>} \cup UNION {Left(m) : m \in Phases}]
      BY <1>1, <2>2, <3>1 DEF Enter
    <3>3. target' \in [Firers -> Cranes]
      BY <1>1, <2>2 DEF Enter
    <3>4. latched' \in [Cranes -> BOOLEAN]
      <4>1. (latched[id] \/ (machine[id] = "emergency" /\ to # "idle")) \in BOOLEAN
        OBVIOUS
      <4>2. latched' = [latched EXCEPT ![id] =
                          latched[id] \/ (machine[id] = "emergency" /\ to # "idle")]
        BY <1>1, <2>2 DEF Enter
      <4> QED
        BY <4>1, <4>2
    <3> QED
      BY <2>1, <3>2, <3>3, <3>4
  <2>3. CASE id \notin Cranes
    BY <1>1, <2>1, <2>3 DEF Enter
  <2> QED
    BY <2>2, <2>3
<1>2. ASSUME NEW f \in Firers, ApplyEffect(f) PROVE MachineTypes'
  <2> DEFINE k == target[f]
  <2>1. /\ k \in Cranes /\ machine' = machine /\ target' = target
        /\ todo' = [todo EXCEPT ![f] = Tail(todo[f])]
        /\ latched' \in {latched, [latched EXCEPT ![k] = FALSE]}
        /\ driven' \in {driven, driven \ {k}}
    BY <1>2, ApplyCases
  <2>2. latched' \in [Cranes -> BOOLEAN] /\ driven' \subseteq Cranes
    BY <2>1
  <2>3. PICK m \in Phases : todo[f] \in Left(m)
    BY <1>2, ApplyCases
  <2>4. Tail(todo[f]) \in {<< >>} \cup Left(m)
    BY <2>3, LeftTail
  <2>5. todo' \in [Firers -> {<< >>} \cup UNION {Left(l) : l \in Phases}]
    BY <2>1, <2>4
  <2>6. ASSUME NEW b \in BOOLEAN, SetEStop(k, b) PROVE ServiceTypeOK'
    BY <2>1, <2>6 DEF ServiceTypeOK, SetEStop, Phases, lockVars, callVars
  <2>7. ASSUME NEW q \in Phases, SetPhase(k, q) PROVE ServiceTypeOK'
    BY <2>1, <2>7 DEF ServiceTypeOK, SetPhase, lockVars, callVars
  <2>8. ASSUME CancelRead(f, k) \/ CancelCall(f) PROVE ServiceTypeOK'
    <3>1. f \in Cancellers
      BY MachineAssumption
    <3>2. ServiceNext
      BY <2>1, <2>8, <3>1 DEF ServiceNext, ClientNext
    <3> QED
      BY <3>2, NextType
  <2>9. \/ SetEStop(k, TRUE) \/ SetEStop(k, FALSE) \/ \E q \in Phases : SetPhase(k, q)
        \/ CancelRead(f, k) \/ CancelCall(f) \/ UNCHANGED serviceVars
    BY <1>2, ApplyCases
  <2>10. ServiceTypeOK'
    BY <1>0, <2>6, <2>7, <2>8, <2>9
  <2> QED
    BY <2>1, <2>2, <2>5, <2>10
<1>3. ASSUME NEW c \in Callers, Drive(c) PROVE MachineTypes'
  <2>1. ServiceTypeOK'
    BY <1>3, CallerType DEF Drive
  <2>2. crane[c] \in Cranes
    BY DEF ServiceTypeOK
  <2> QED
    BY <1>3, <2>1, <2>2 DEF Drive
<1>4. ASSUME NEW c \in Callers,
             (\E k \in Cranes, r \in Routes : Begin(c, k, r)) \/ ContextDone(c),
             UNCHANGED machineVars
      PROVE  MachineTypes'
  <2>1. ServiceNext
    BY <1>4 DEF ServiceNext, CallerNext
  <2> QED
    BY <1>4, <2>1, NextType DEF machineVars
<1>5. CASE UNCHANGED allVars
  BY <1>0, <1>5 DEF allVars, machineVars
<1>6. CASE FirerNext
  BY <1>1, <1>2, <1>6, MachineAssumption DEF FirerNext, Fire, Transition
<1>7. CASE CallersNext
  BY <1>3, <1>4, <1>7 DEF CallersNext
<1> QED
  BY <1>5, <1>6, <1>7 DEF MachineNext

\* Initially nothing is left to apply.
LEMMA MachineTypeInit == MachineInit => MachineTypes
BY InitType, MachineAssumption DEF MachineInit, MachineTypes, Phases

\* Machine, service and the lists of effects keep their types, for every number
\* of firers that fire at once: no transition leaves more than three critical
\* sections to apply (internal/fsm, MotionSideEffects).
THEOREM MachineTypesCorrect == MachineSpec => []MachineTypeOK
<1>1. MachineTypes => MachineTypeOK
  <2> SUFFICES ASSUME MachineTypes, NEW f \in Firers PROVE Len(todo[f]) <= 3
    BY DEF MachineTypes, MachineTypeOK
  <2>1. CASE todo[f] = << >>
    BY <2>1
  <2>2. CASE todo[f] # << >>
    <3>1. PICK m \in Phases : todo[f] \in Left(m)
      BY <2>2 DEF MachineTypes
    <3> QED
      BY <3>1, LeftNext
  <2> QED
    BY <2>1, <2>2
<1> QED
  BY <1>1, MachineTypeInit, MachineTypeNext, PTL DEF MachineSpec

-------------------------------------------------------------------------------
(***************************************************************************)
(* MotionMachine: one firer.                                               *)
(***************************************************************************)

OneFirer == \A f, g \in Firers : f = g

\* The firer is about to set or reset the stop of crane k.
StopDue(k) ==
  \E f \in Firers : /\ todo[f] # << >> /\ target[f] = k
                     /\ Head(todo[f]) \in {Stop(TRUE), Stop(FALSE)}

\* StopAgrees, kept up while effects are applied.
StopInv(k) ==
  StopDue(k) \/ (eStopActive[k] <=> machine[k] = "emergency" \/ latched[k])

\* What is left of the effects belongs to the phase the machine is in.
LeftInv ==
  \A f \in Firers : todo[f] # << >> => todo[f] \in Left(machine[target[f]])

\* PhaseAgrees, and in an emergency the stop shows before the motion is cancelled.
PhaseInv(k) ==
  /\ Quiet(k) /\ machine[k] \notin {"dwell", "loading", "unloading"} => phase[k] = machine[k]
  /\ machine[k] = "emergency" =>
       StopDue(k) \/ phase[k] = "emergency"

\* The inductive invariant of both.
AgreeInv ==
  /\ MachineTypes
  /\ LeftInv
  /\ \A k \in Cranes : StopInv(k)
  /\ \A k \in Cranes \ driven : PhaseInv(k)

\* The machine enters a phase: nothing else is left to apply, so the effects of
\* this transition are all there is to wait for.
LEMMA EnterAgrees ==
  ASSUME OneFirer, AgreeInv, MachineTypes',
         NEW f \in Firers, NEW id \in MachineIds, NEW to \in Phases, Enter(f, id, to)
  PROVE  AgreeInv'
<1> USE DEF AgreeInv
<1>1. /\ \A g \in Firers : todo[g] = << >> /\ g = f
      /\ machine' = [machine EXCEPT ![id] = to] /\ machine \in [MachineIds -> Phases]
      /\ UNCHANGED <<phase, eStopActive, driven>>
      /\ Cranes \subseteq MachineIds
  BY MachineAssumption DEF OneFirer, Enter, serviceVars, craneVars, MachineTypes
<1>2. \A k \in Cranes : Quiet(k) /\ ~StopDue(k)
  BY <1>1 DEF Quiet, StopDue
<1>3. CASE id \notin Cranes
  <2>1. UNCHANGED <<todo, target, latched>> /\ \A k \in Cranes : machine'[k] = machine[k]
    BY <1>1, <1>3 DEF Enter
  <2>2. LeftInv'
    BY <1>1, <2>1 DEF LeftInv
  <2>3. \A k \in Cranes : StopInv(k)'
    BY <1>1, <1>2, <2>1 DEF StopInv
  <2>4. \A k \in Cranes \ driven : PhaseInv(k)'
    BY <1>1, <1>2, <2>1 DEF PhaseInv
  <2> QED
    BY <1>1, <2>2, <2>3, <2>4
<1>4. CASE id \in Cranes
  <2> DEFINE s == MotionSideEffects(machine[id], to)
  <2>1. /\ s # << >> => s \in Left(to)
        /\ s = << >> <=> to \in {"dwell", "loading", "unloading"}
        /\ to = "emergency" => Head(s) = Stop(TRUE)
        /\ to = "idle" /\ machine[id] = "emergency" => Head(s) = Stop(FALSE)
    BY <1>1, EffectsLeft
  <2>2. /\ todo'[f] = s /\ target'[f] = id
        /\ machine'[id] = to /\ \A k \in Cranes \ {id} : machine'[k] = machine[k]
        /\ \A k \in Cranes \ {id} : latched'[k] = latched[k]
        /\ latched'[id] <=> latched[id] \/ (machine[id] = "emergency" /\ to # "idle")
    BY <1>1, <1>4 DEF Enter, MachineTypes
  <2> HIDE DEF s
  <2>3. LeftInv'
    BY <1>1, <2>1, <2>2 DEF LeftInv
  <2>4. s # << >> /\ Head(s) \in {Stop(TRUE), Stop(FALSE)} => StopDue(id)'
    BY <2>2 DEF StopDue
  <2>5. to = "emergency" => StopDue(id)'
    BY <2>1, <2>4
  <2>6. to = "idle" /\ machine[id] = "emergency" => StopDue(id)'
    BY <2>1, <2>4
  <2>7. StopInv(id)'
    <3>1. eStopActive[id] <=> machine[id] = "emergency" \/ latched[id]
      BY <1>2, <1>4 DEF StopInv
    <3> QED
      BY <1>1, <2>2, <2>5, <2>6, <3>1 DEF StopInv
  <2>8. PhaseInv(id)'
    <3>1. Quiet(id)' => to \in {"dwell", "loading", "unloading"}
      BY <2>1, <2>2 DEF Quiet
    <3> QED
      BY <2>2, <2>5, <3>1 DEF PhaseInv
  <2>9. ASSUME NEW k \in Cranes \ {id} PROVE StopInv(k)' /\ (k \notin driven => PhaseInv(k)')
    <3>1. StopInv(k) /\ (k \notin driven => PhaseInv(k))
      OBVIOUS
    <3> QED
      BY <1>1, <1>2, <2>2, <3>1 DEF StopInv, PhaseInv
  <2> QED
    BY <1>1, <2>3, <2>7, <2>8, <2>9
<1> QED
  BY <1>3, <1>4

\* The firer applies the next effect.
LEMMA ApplyAgrees ==
  ASSUME OneFirer, AgreeInv, MachineTypes', NEW f \in Firers, ApplyEffect(f)
  PROVE  AgreeInv'
<1> USE DEF AgreeInv
<1>0. PICK k \in Cranes : k = target[f]
  BY DEF MachineTypes
<1> DEFINE s == todo[f]
           m == machine[k]
<1>1. /\ s # << >> /\ \A g \in Firers : g = f
      /\ todo'[f] = Tail(s) /\ UNCHANGED <<machine, target>>
      /\ target[f] = k /\ target'[f] = k
  BY <1>0, ApplyCases DEF OneFirer, MachineTypes, ApplyEffect
<1>2. s \in Left(m)
  BY <1>1 DEF LeftInv
<1>3. NextEffect(s, m) /\ (Tail(s) # << >> => Tail(s) \in Left(m))
  BY <1>2, LeftNext, LeftTail
<1>4. \/ /\ Head(s) = Stop(TRUE) /\ SetEStop(k, TRUE)
         /\ latched' = latched /\ driven' = driven \ {k}
      \/ /\ Head(s) = Stop(FALSE) /\ SetEStop(k, FALSE)
         /\ latched' = [latched EXCEPT ![k] = FALSE] /\ driven' = driven
      \/ /\ \E q \in Phases : Head(s) = Show(q) /\ SetPhase(k, q)
         /\ latched' = latched /\ driven' = driven \ {k}
      \/ /\ Head(s) \in {Read, Call}
         /\ CancelRead(f, k) \/ CancelCall(f) \/ UNCHANGED serviceVars
         /\ latched' = latched /\ driven' = driven
  BY <1>0, ApplyCases
<1>5. LeftInv'
  BY <1>1, <1>3 DEF LeftInv
<1>6. \A l \in Cranes \ {k} : Quiet(l) /\ ~StopDue(l)
  BY <1>1 DEF Quiet, StopDue
<1>7. /\ StopDue(k) <=> Head(s) \in {Stop(TRUE), Stop(FALSE)}
      /\ StopDue(k)' <=> Tail(s) # << >> /\ Head(Tail(s)) \in {Stop(TRUE), Stop(FALSE)}
      /\ Quiet(k)' <=> Tail(s) = << >>
  BY <1>1 DEF Quiet, StopDue
<1>t. /\ phase \in [Cranes -> Phases] /\ eStopActive \in [Cranes -> BOOLEAN]
      /\ latched \in [Cranes -> BOOLEAN]
  BY DEF MachineTypes, ServiceTypeOK
<1> HIDE DEF s, m
<1>8. \A l \in Cranes \ {k} :
        /\ phase'[l] = phase[l] /\ eStopActive'[l] = eStopActive[l] /\ latched'[l] = latched[l]
        /\ l \in driven' <=> l \in driven
  BY <1>4, <1>t DEF SetEStop, SetPhase, CancelRead, CancelCall, serviceVars, craneVars
<1>9. ASSUME NEW l \in Cranes \ {k} PROVE StopInv(l)' /\ (l \notin driven' => PhaseInv(l)')
  <2>1. StopInv(l) /\ (l \notin driven => PhaseInv(l))
    OBVIOUS
  <2>2. phase'[l] = phase[l] /\ eStopActive'[l] = eStopActive[l] /\ latched'[l] = latched[l]
    BY <1>8
  <2> QED
    BY <1>1, <1>6, <1>8, <2>1, <2>2 DEF StopInv, PhaseInv
<1>10. StopInv(k) /\ (k \notin driven => PhaseInv(k)) /\ machine'[k] = m
  BY <1>1 DEF m
<1>11. CASE Head(s) = Stop(TRUE)
  <2>1. m = "emergency" /\ Tail(s) # << >>
    BY <1>3, <1>11, EffectsApart DEF NextEffect
  <2>2. eStopActive'[k] = TRUE /\ phase'[k] = "emergency"
    BY <1>1, <1>4, <1>11, <1>t, EffectsApart DEF SetEStop
  <2> QED
    BY <1>1, <1>5, <1>7, <1>9, <1>10, <2>1, <2>2 DEF StopInv, PhaseInv
<1>12. CASE Head(s) = Stop(FALSE)
  <2>1. m = "idle" /\ Tail(s) # << >>
    BY <1>3, <1>12, EffectsApart DEF NextEffect
  <2>2. eStopActive'[k] = FALSE /\ latched'[k] = FALSE
    BY <1>1, <1>4, <1>12, <1>t, EffectsApart DEF SetEStop
  <2>3. StopInv(k)'
    BY <1>10, <2>1, <2>2 DEF StopInv
  <2>4. PhaseInv(k)'
    BY <1>7, <1>10, <2>1 DEF PhaseInv
  <2> QED
    BY <1>1, <1>5, <1>9, <2>3, <2>4
<1>13. CASE Head(s).do = "phase"
  <2>1. Head(s) = Show(m) /\ m # "emergency" /\ Tail(s) = << >>
    BY <1>3, <1>13, EffectFacts, EffectsApart DEF NextEffect
  <2>2. phase'[k] = m /\ eStopActive'[k] = eStopActive[k] /\ latched'[k] = latched[k]
    <3>1. /\ \E q \in Phases : Head(s) = Show(q) /\ SetPhase(k, q)
          /\ latched' = latched
      BY <1>4, <2>1, EffectsApart
    <3>2. SetPhase(k, m)
      BY <2>1, <3>1, EffectFacts
    <3> QED
      BY <1>1, <1>t, <3>1, <3>2 DEF SetPhase
  <2>3. ~StopDue(k)
    BY <1>7, <1>13, EffectFacts
  <2> QED
    BY <1>1, <1>5, <1>7, <1>9, <1>10, <2>1, <2>2, <2>3 DEF StopInv, PhaseInv
<1>14. CASE Head(s) \in {Read, Call}
  <2>1. ~StopDue(k) /\ (Tail(s) = << >> => m = "emergency")
    BY <1>3, <1>7, <1>14, EffectsApart DEF NextEffect
  <2>2. /\ phase'[k] = phase[k] /\ eStopActive'[k] = eStopActive[k] /\ latched'[k] = latched[k]
        /\ driven' = driven
    BY <1>1, <1>4, <1>14, <1>t, EffectsApart
    DEF CancelRead, CancelCall, serviceVars, craneVars
  <2>3. StopInv(k)'
    BY <1>1, <1>10, <2>1, <2>2 DEF StopInv
  <2>4. PhaseInv(k)' \/ k \in driven'
    BY <1>1, <1>7, <1>10, <2>1, <2>2 DEF PhaseInv, m
  <2> QED
    BY <1>1, <1>5, <1>9, <2>3, <2>4
<1>15. Head(s) \in {Stop(TRUE), Stop(FALSE), Show(m), Read, Call}
  BY <1>3 DEF NextEffect
<1> QED
  BY <1>11, <1>12, <1>13, <1>14, <1>15, EffectFacts

\* A caller's step shows on its crane only when a motion starts or commits.
LEMMA DriveAgrees ==
  ASSUME AgreeInv, MachineTypes', NEW c \in Callers, Drive(c)
  PROVE  AgreeInv'
<1> USE DEF AgreeInv
<1>1. UNCHANGED <<eStopActive, machine, todo, target, latched>>
  BY DEF Drive, CallerStep, CheckMotionAllowed, Install, LockHoist, EnterSelect, StartMotion,
         MidSelect, CommitMotion, UnlockHoist, ClearCancel, craneVars
<1>2. driven \subseteq driven'
  BY DEF Drive
<1>3. \A k \in Cranes \ driven' : phase'[k] = phase[k]
  <2>1. phase \in [Cranes -> Phases] /\ crane[c] \in Cranes
    BY DEF MachineTypes, ServiceTypeOK
  <2>2. CASE StartMotion(c) \/ CommitMotion(c)
    <3>1. crane[c] \in driven'
      BY <2>2 DEF Drive, StartMotion, CommitMotion, Goto
    <3> QED
      BY <2>1, <2>2, <3>1 DEF StartMotion, CommitMotion
  <2>3. CASE UNCHANGED phase
    BY <2>3
  <2> QED
    BY <2>2, <2>3 DEF Drive, CallerStep, CheckMotionAllowed, Install, LockHoist, EnterSelect,
         MidSelect, UnlockHoist, ClearCancel, craneVars
<1>4. LeftInv' /\ \A k \in Cranes : StopInv(k)'
  BY <1>1 DEF LeftInv, StopInv, StopDue
<1>5. \A k \in Cranes \ driven' : PhaseInv(k)'
  <2> SUFFICES ASSUME NEW k \in Cranes \ driven' PROVE PhaseInv(k)'
    OBVIOUS
  <2>1. PhaseInv(k) /\ phase'[k] = phase[k]
    BY <1>2, <1>3
  <2>2. (Quiet(k)' <=> Quiet(k)) /\ (StopDue(k)' <=> StopDue(k))
    BY <1>1 DEF Quiet, StopDue
  <2> QED
    BY <1>1, <2>1, <2>2 DEF PhaseInv
<1> QED
  BY <1>4, <1>5

\* Every step keeps crane and machine in agreement.
LEMMA AgreeNext ==
  ASSUME OneFirer, AgreeInv, [MachineNext]_allVars
  PROVE  AgreeInv'
<1>1. MachineTypes'
  BY MachineTypeNext DEF AgreeInv
<1>2. CASE FirerNext
  BY <1>1, <1>2, EnterAgrees, ApplyAgrees, MachineAssumption DEF FirerNext, Fire, Transition
<1>3. ASSUME UNCHANGED <<phase, eStopActive, machineVars>> PROVE AgreeInv'
  <2>1. UNCHANGED <<phase, eStopActive, machine, todo, target, latched, driven>>
    BY <1>3 DEF machineVars
  <2>2. LeftInv' /\ \A k \in Cranes : StopInv(k)'
    BY <2>1 DEF AgreeInv, LeftInv, StopInv, StopDue
  <2>3. \A k \in Cranes \ driven : PhaseInv(k)'
    BY <2>1 DEF AgreeInv, PhaseInv, StopDue, Quiet
  <2> QED
    BY <1>1, <2>1, <2>2, <2>3 DEF AgreeInv
<1>4. CASE CallersNext
  BY <1>1, <1>3, <1>4, DriveAgrees DEF CallersNext, Begin, ContextDone, craneVars
<1>5. CASE UNCHANGED allVars
  BY <1>3, <1>5 DEF allVars, serviceVars, craneVars
<1> QED
  BY <1>2, <1>4, <1>5 DEF MachineNext

\* Crane and machine start in agreement.
LEMMA AgreeInit == MachineInit => AgreeInv
<1> SUFFICES ASSUME MachineInit PROVE AgreeInv
  OBVIOUS
<1>1. MachineTypes
  BY MachineTypeInit
<1>2. /\ \A f \in Firers : todo[f] = << >>
      /\ \A k \in Cranes : phase[k] = "idle" /\ eStopActive[k] = FALSE
                          /\ machine[k] = "idle" /\ latched[k] = FALSE
  BY MachineAssumption DEF MachineInit, ServiceInit, ServiceInitAt
<1> QED
  BY <1>1, <1>2 DEF AgreeInv, LeftInv, StopInv, PhaseInv

\* With one firer, for any number of cranes and callers that keep driving them:
\* once its effects are applied, the stop of a crane is on exactly in an
\* emergency, or after one that was left for another phase than idle.
THEOREM StopAgreesAlways ==
  ASSUME OneFirer
  PROVE  MachineSpec => []StopAgrees
<1>1. AgreeInv => StopAgrees
  BY DEF AgreeInv, StopAgrees, StopInv, StopDue, Quiet
<1> QED
  BY <1>1, AgreeInit, AgreeNext, PTL DEF MachineSpec

\* With one firer, once its effects are applied a crane no motion has touched
\* since shows the phase of its machine.
THEOREM PhaseAgreesAlways ==
  ASSUME OneFirer
  PROVE  MachineSpec => []PhaseAgrees
<1>1. AgreeInv => PhaseAgrees
  BY DEF AgreeInv, PhaseAgrees, PhaseInv
<1> QED
  BY <1>1, AgreeInit, AgreeNext, PTL DEF MachineSpec

\* Whatever is fired, by any number of firers at once: no cancel function of a
\* finished call stays registered, and every locked hoist has its motion.  The
\* machine's effects cancel motions and set phases and stops, and leave the
\* calls to undo what they have done (internal/fsm over crane/service.go).
THEOREM MachineLeavesNothing == MachineSpec => [](CancelFnLive /\ HoistLockOwned)
<1>1. MachineInit => CallInv
  BY InitType, CallInit DEF MachineInit, ServiceInit
<1>2. MachineTypes /\ MachineTypes' /\ CallInv /\ [MachineNext]_allVars => CallInv'
  <2> SUFFICES ASSUME MachineTypes, MachineTypes', CallInv, [MachineNext]_allVars PROVE CallInv'
    OBVIOUS
  <2>1. ServiceTypeOK'
    BY DEF MachineTypes
  <2>2. UNCHANGED serviceVars => CallsGoOn
    BY DEF CallsGoOn, serviceVars, lockVars, callVars
  <2>3. ASSUME NEW f \in Firers, ApplyEffect(f) PROVE CallsGoOn
    <3>1. \/ \E b \in BOOLEAN : SetEStop(target[f], b)
          \/ \E q \in Phases : SetPhase(target[f], q)
          \/ CancelRead(f, target[f]) \/ CancelCall(f) \/ UNCHANGED serviceVars
      BY <2>3, ApplyCases
    <3> QED
      BY <2>2, <3>1
      DEF CallsGoOn, SetEStop, SetPhase, CancelRead, CancelCall, lockVars, callVars
  <2>4. ASSUME NEW f \in Firers, NEW id, NEW to, Enter(f, id, to) PROVE CallsGoOn
    BY <2>2, <2>4 DEF Enter
  <2>5. ASSUME NEW c \in Callers, Drive(c) PROVE CallsGoOn
    BY <2>5 DEF Drive, CallsGoOn
  <2>6. ASSUME NEW c \in Callers, NEW k \in Cranes, NEW r \in Routes, Begin(c, k, r)
        PROVE  CallsGoOn
    BY <2>6, ServiceAssumption DEF CallsGoOn
  <2>7. ASSUME NEW c \in Callers, ContextDone(c) PROVE CallsGoOn
    BY <2>7 DEF CallsGoOn, ContextDone, lockVars
  <2>8. CallsGoOn
    <3>1. CASE FirerNext
      BY <2>3, <2>4, <3>1 DEF FirerNext, Fire, Transition
    <3>2. CASE CallersNext
      BY <2>5, <2>6, <2>7, <3>2 DEF CallersNext
    <3>3. CASE UNCHANGED allVars
      BY <2>2, <3>3 DEF allVars
    <3> QED
      BY <3>1, <3>2, <3>3 DEF MachineNext
  <2> QED
    BY <2>1, <2>8, CallNext
<1>3. CallInv => CancelFnLive /\ HoistLockOwned
  BY DEF CallInv, HoistInv
<1>4. MachineSpec => []MachineTypes
  BY MachineTypeInit, MachineTypeNext, PTL DEF MachineSpec
<1> QED
  BY <1>1, <1>2, <1>3, <1>4, PTL DEF MachineSpec

\* The phases of handling a pallet, which have no effect on the service.
HandlingPhases == {"loading", "unloading", "dwell"}

\* No event leads there from outside: the table has neither an entry to loading
\* or unloading nor one for the event dwell_start.
LEMMA NoWayToHandling ==
  ASSUME NEW from \in Phases \ HandlingPhases, NEW event, NEW to \in Phases,
         CanTransition(from, event, to)
  PROVE  to \notin HandlingPhases
BY DEF CanTransition, allowed, HandlingPhases

\* A machine gets to loading, unloading or dwell by a forced transition only:
\* as long as nobody forces one, no sequence of events, by any number of firers,
\* brings a crane to its dwell (fsm/transitions.go; RunDemo fires dwell_start).
THEOREM HandlingNeedsForce ==
  ASSUME ForcedTargets \cap HandlingPhases = {}
  PROVE  MachineSpec => [](\A id \in MachineIds : machine[id] \notin HandlingPhases)
<1> DEFINE Inv == \A id \in MachineIds : machine[id] \in Phases \ HandlingPhases
<1>1. MachineInit => Inv
  BY DEF MachineInit, Phases, HandlingPhases
<1>2. Inv /\ [MachineNext]_allVars => Inv'
  <2> SUFFICES ASSUME Inv, [MachineNext]_allVars PROVE Inv'
    OBVIOUS
  <2>1. ASSUME NEW f \in Firers, NEW id \in MachineIds, NEW to \in Phases \ HandlingPhases,
               Enter(f, id, to)
        PROVE  Inv'
    <3>1. machine' = [machine EXCEPT ![id] = to]
      BY <2>1 DEF Enter
    <3> QED
      BY <3>1
  <2>2. ASSUME NEW f \in Firers, NEW id \in MachineIds, NEW event \in Events, Fire(f, id, event)
        PROVE  Inv'
    BY <2>1, <2>2, NoWayToHandling DEF Fire
  <2>3. ASSUME NEW f \in Firers, NEW id \in MachineIds, NEW to \in Phases,
               Transition(f, id, to, FALSE)
        PROVE  Inv'
    BY <2>1, <2>3, NoWayToHandling DEF Transition, CanReach
  <2>4. ASSUME NEW f \in Firers, NEW id \in MachineIds, NEW to \in ForcedTargets,
               Transition(f, id, to, TRUE)
        PROVE  Inv'
    <3>1. to \in Phases \ HandlingPhases
      BY MachineAssumption
    <3> QED
      BY <2>1, <2>4, <3>1 DEF Transition
  <2>5. ASSUME NEW f \in Firers, ApplyEffect(f) PROVE Inv'
    BY <2>5 DEF ApplyEffect
  <2>6. CASE CallersNext
    BY <2>6 DEF CallersNext, Drive, machineVars
  <2>7. CASE UNCHANGED allVars
    BY <2>7 DEF allVars, machineVars
  <2> QED
    BY <2>2, <2>3, <2>4, <2>5, <2>6, <2>7 DEF MachineNext, FirerNext
<1>3. Inv => \A id \in MachineIds : machine[id] \notin HandlingPhases
  OBVIOUS
<1> HIDE DEF Inv
<1> QED
  BY <1>1, <1>2, <1>3, PTL DEF MachineSpec

-------------------------------------------------------------------------------
(***************************************************************************)
(* GuardedMotion: types.                                                   *)
(***************************************************************************)

\* The move a caller has validated can be planned, and it has not started.
ValidatedInv ==
  \A c \in Callers : validated[c] # NoPlan =>
    CanPlan(validated[c].from, validated[c].to) /\ pc[c] = "ready"

GuardedTypes == GuardedTypeOK /\ ValidatedInv

\* Whatever the planner accepts as a target has its position among Positions.
LEMMA TargetType ==
  ASSUME NEW from \in Locations, NEW to \in Locations, CanPlan(from, to)
  PROVE  /\ LocationToPosition(to) \in [Axes -> Positions]
         /\ Plan(from, to) \in Seq(MotionStep)
<1>1. PICK cell \in AllCells : LocationToPosition(cell) = LocationToPosition(to)
  BY CellOf, GuardedAssumption DEF CanPlan
<1>2. LocationToPosition(to) \in [Axes -> Positions]
  BY <1>1, GuardedAssumption
<1> QED
  BY <1>2, StepsType DEF Plan, MotionStep

\* A route that starts keeps the types of the service.
LEMMA BeginType ==
  ASSUME ServiceTypeOK, NEW c \in Callers, NEW k \in Cranes,
         NEW r \in Seq(MotionStep), r # << >>, Begin(c, k, r)
  PROVE  ServiceTypeOK'
BY DEF ServiceTypeOK, Begin, Goto, ControlPoints, craneVars, lockVars

\* What a caller does to its route, its crane and where that stands; no step
\* but these two changes a pose.
LEMMA CallerFacts ==
  ASSUME ServiceTypeOK, NEW c \in Callers, CallerStep(c)
  PROVE  /\ pc[c] # "ready" /\ route[c] # << >>
         /\ crane' = crane
         /\ \A d \in Callers \ {c} :
              route'[d] = route[d] /\ pc'[d] = pc[d] /\ moved'[d] = moved[d]
         /\ \/ /\ pc[c] = "commit" /\ pc'[c] \in {"unlock", "clear"}
               /\ mm' = [mm EXCEPT ![crane[c]][Head(route[c]).axis] = Head(route[c]).to]
               /\ moved'[c] = TRUE /\ route'[c] = route[c]
            \/ /\ pc[c] = "clear" /\ mm' = mm /\ moved'[c] = FALSE
               /\ route'[c] = IF moved[c] THEN Tail(route[c]) ELSE << >>
               /\ pc'[c] \in {"ready", "check"}
               /\ pc'[c] = "ready" <=> route'[c] = << >>
            \/ /\ pc[c] = "check" /\ pc'[c] = "ready"
               /\ mm' = mm /\ moved'[c] = moved[c] /\ route'[c] = << >>
            \/ /\ pc'[c] # "ready" /\ pc[c] \notin {"commit", "clear"}
               /\ pc[c] = "unlock" => pc'[c] = "clear"
               /\ mm' = mm /\ moved'[c] = moved[c] /\ route'[c] = route[c]
<1> USE DEF ServiceTypeOK
<1>1. pc[c] # "ready" /\ route[c] # << >>
  BY DEF CallerStep, CheckMotionAllowed, Install, LockHoist, EnterSelect, StartMotion,
         MidSelect, CommitMotion, UnlockHoist, ClearCancel, Goto
<1>2. CASE CheckMotionAllowed(c)
  BY <1>1, <1>2 DEF CheckMotionAllowed, craneVars
<1>3. CASE Install(c) \/ LockHoist(c) \/ UnlockHoist(c)
  BY <1>1, <1>3 DEF Install, LockHoist, UnlockHoist, Goto, craneVars
<1>4. CASE EnterSelect(c) \/ StartMotion(c) \/ MidSelect(c)
  BY <1>1, <1>4 DEF EnterSelect, StartMotion, MidSelect, Goto, Unwind, craneVars
<1>5. CASE CommitMotion(c)
  BY <1>1, <1>5 DEF CommitMotion, Goto, Unwind, axis
<1>6. CASE ClearCancel(c)
  <2> DEFINE rest == IF moved[c] THEN Tail(route[c]) ELSE << >>
  <2>1. /\ pc[c] = "clear" /\ crane' = crane /\ mm' = mm
        /\ pc' = [pc EXCEPT ![c] = IF rest = << >> THEN "ready" ELSE "check"]
        /\ route' = [route EXCEPT ![c] = rest] /\ moved' = [moved EXCEPT ![c] = FALSE]
    BY <1>6 DEF ClearCancel, Goto, craneVars
  <2> HIDE DEF rest
  <2>2. /\ pc'[c] \in {"ready", "check"} /\ (pc'[c] = "ready" <=> rest = << >>)
        /\ route'[c] = rest /\ moved'[c] = FALSE
        /\ \A d \in Callers \ {c} :
             route'[d] = route[d] /\ pc'[d] = pc[d] /\ moved'[d] = moved[d]
    BY <2>1
  <2> QED
    BY <1>1, <2>1, <2>2 DEF rest
<1> QED
  BY <1>2, <1>3, <1>4, <1>5, <1>6 DEF CallerStep

\* Nobody but a caller touches routes and poses.
LEMMA ClientFacts ==
  ASSUME ClientNext
  PROVE  UNCHANGED <<pc, crane, route, moved, mm>>
BY DEF ClientNext, SetEStop, SetInterlocked, SetPhase, CancelCall, CancelRead, craneVars,
       callVars

\* A caller starts the move it has validated, or is done with it at once.
LEMMA LaunchFacts ==
  ASSUME GuardedTypes, NEW c \in Callers, Launch(c)
  PROVE  LET move == validated[c]
             plan == Plan(move.from, move.to)
         IN
         /\ move \in Move /\ CanPlan(move.from, move.to) /\ pc[c] = "ready"
         /\ plan \in Seq(MotionStep)
         /\ \/ plan = << >> /\ UNCHANGED serviceVars
            \/ plan # << >> /\ Begin(c, move.crane, plan)
         /\ validated' = [validated EXCEPT ![c] = NoPlan]
         /\ goal' = [goal EXCEPT ![c] =
              IF mm[move.crane] = LocationToPosition(move.from) THEN move.to ELSE NoPlan]
<1>1. validated[c] \in Move /\ CanPlan(validated[c].from, validated[c].to) /\ pc[c] = "ready"
  BY DEF GuardedTypes, GuardedTypeOK, ValidatedInv, Launch
<1>2. Plan(validated[c].from, validated[c].to) \in Seq(MotionStep)
  BY <1>1, TargetType DEF Move
<1> QED
  BY <1>1, <1>2 DEF Launch

\* Every crane starts at a home, whose position its axes have.
LEMMA GuardedTypeInit == GuardedInit => GuardedTypes
<1> SUFFICES ASSUME GuardedInit PROVE GuardedTypes
  OBVIOUS
<1>1. LocationToPosition(CraneHome(1)) \in [Axes -> Positions]
  <2>1. 1 \in 1..Aisles
    BY DimensionTypes, WarehouseAssumption DEF Validate
  <2> QED
    BY <2>1, HomeIsCell, GuardedAssumption
<1>2. << >> \in Seq(MotionStep)
  OBVIOUS
<1> DEFINE home == LocationToPosition(CraneHome(1))
<1> HIDE DEF home
<1>3. ServiceInitAt(home) /\ home \in [Axes -> Positions]
  BY <1>1 DEF GuardedInit, home
<1>4. ServiceTypeOK
  BY <1>2, <1>3, ServiceAssumption DEF ServiceInitAt, ServiceTypeOK, Phases, ControlPoints
<1> QED
  BY <1>4 DEF GuardedInit, GuardedTypes, GuardedTypeOK, ValidatedInv

\* Every step keeps the types: a move that starts is one that can be planned.
LEMMA GuardedTypeNext ==
  ASSUME GuardedTypes, [GuardedNext]_guardedVars
  PROVE  GuardedTypes'
<1> USE DEF GuardedTypes
<1>1. ASSUME NEW c \in Callers, NEW k \in Cranes, NEW from \in Locations, NEW to \in Locations,
             ValidatePlan(c, k, from, to)
      PROVE  GuardedTypes'
  <2> DEFINE move == [crane |-> k, from |-> from, to |-> to]
  <2>1. /\ UNCHANGED serviceVars /\ UNCHANGED goal
        /\ validated' = [validated EXCEPT ![c] = move] /\ pc[c] = "ready" /\ CanPlan(from, to)
    BY <1>1 DEF ValidatePlan
  <2>2. ServiceTypeOK' /\ pc' = pc
    BY <2>1, NextType DEF GuardedTypeOK, serviceVars, callVars
  <2>3. move \in Move /\ move.from = from /\ move.to = to
    BY DEF Move
  <2> HIDE DEF move
  <2> QED
    BY <2>1, <2>2, <2>3 DEF GuardedTypeOK, ValidatedInv
<1>2. ASSUME NEW c \in Callers, Launch(c) PROVE GuardedTypes'
  <2> DEFINE move == validated[c]
             plan == Plan(move.from, move.to)
  <2>1. /\ move \in Move /\ plan \in Seq(MotionStep)
        /\ \/ plan = << >> /\ UNCHANGED serviceVars
           \/ plan # << >> /\ Begin(c, move.crane, plan)
        /\ validated' = [validated EXCEPT ![c] = NoPlan]
        /\ goal' = [goal EXCEPT ![c] =
             IF mm[move.crane] = LocationToPosition(move.from) THEN move.to ELSE NoPlan]
    BY <1>2, LaunchFacts
  <2> HIDE DEF move, plan
  <2>2. ServiceTypeOK'
    BY <2>1, BeginType, NextType DEF GuardedTypeOK, Move
  <2>3. \A d \in Callers \ {c} : pc'[d] = pc[d]
    BY <2>1 DEF Begin, Goto, serviceVars, callVars, GuardedTypeOK, ServiceTypeOK
  <2>4. goal' \in [Callers -> Locations \cup {NoPlan}]
    BY <2>1 DEF GuardedTypeOK, Move
  <2> QED
    BY <2>1, <2>2, <2>3, <2>4 DEF GuardedTypeOK, ValidatedInv
<1>3. ASSUME NEW c \in Callers, CallerStep(c), UNCHANGED <<validated, goal>>
      PROVE  GuardedTypes'
  <2>1. ServiceTypeOK' /\ pc[c] # "ready" /\ \A d \in Callers \ {c} : pc'[d] = pc[d]
    BY <1>3, CallerType, CallerFacts DEF GuardedTypeOK
  <2> QED
    BY <1>3, <2>1 DEF GuardedTypeOK, ValidatedInv
<1>4. ASSUME ClientNext \/ (\E c \in Callers : ContextDone(c)), UNCHANGED <<validated, goal>>
      PROVE  GuardedTypes'
  <2>1. ServiceNext
    BY <1>4 DEF ServiceNext, CallerNext
  <2>2. pc' = pc
    BY <1>4, ClientFacts DEF ContextDone
  <2> QED
    BY <1>4, <2>1, <2>2, NextType DEF GuardedTypeOK, ValidatedInv
<1>5. CASE UNCHANGED guardedVars
  <2>1. pc' = pc /\ UNCHANGED <<serviceVars, validated, goal>>
    BY <1>5 DEF guardedVars, serviceVars, callVars
  <2> QED
    BY <2>1, NextType DEF GuardedTypeOK, ValidatedInv
<1> QED
  BY <1>1, <1>2, <1>3, <1>4, <1>5 DEF GuardedNext

\* Planned moves keep the types of the service, whatever locations callers ask
\* for: the planner lets none through whose position no axis has.
THEOREM GuardedTypesCorrect == GuardedSpec => []GuardedTypeOK
<1>1. GuardedTypes => GuardedTypeOK
  BY DEF GuardedTypes
<1> QED
  BY <1>1, GuardedTypeInit, GuardedTypeNext, PTL DEF GuardedSpec

\* What a step of guarded motion does to calls, phases and progress.
LEMMA GuardedGoesOn ==
  ASSUME GuardedTypes, [GuardedNext]_guardedVars
  PROVE  CallsGoOn /\ (NoForcedMotion => ProgressGoesOn)
<1>1. ASSUME UNCHANGED serviceVars PROVE CallsGoOn /\ ProgressGoesOn
  BY <1>1 DEF CallsGoOn, ProgressGoesOn, serviceVars, craneVars, lockVars, callVars
<1>2. ASSUME NEW c \in Callers, Launch(c) PROVE CallsGoOn /\ ProgressGoesOn
  <2> DEFINE move == validated[c]
             plan == Plan(move.from, move.to)
  <2>1. /\ move.crane \in Cranes /\ plan \in Seq(MotionStep)
        /\ \/ plan = << >> /\ UNCHANGED serviceVars
           \/ plan # << >> /\ Begin(c, move.crane, plan)
    BY <1>2, LaunchFacts DEF Move
  <2> HIDE DEF move, plan
  <2>2. CASE plan # << >> /\ Begin(c, move.crane, plan)
    <3>1. CallsGoOn
      BY <2>1, <2>2 DEF CallsGoOn
    <3>2. UNCHANGED <<phase, complete>>
      BY <2>2 DEF Begin, craneVars
    <3> QED
      BY <3>1, <3>2 DEF ProgressGoesOn
  <2> QED
    BY <1>1, <2>1, <2>2
<1>3. ASSUME NEW c \in Callers, CallerStep(c) PROVE CallsGoOn /\ ProgressGoesOn
  BY <1>3 DEF CallsGoOn, ProgressGoesOn
<1>4. ASSUME NEW c \in Callers, ContextDone(c) PROVE CallsGoOn /\ ProgressGoesOn
  BY <1>4 DEF CallsGoOn, ProgressGoesOn, ContextDone, lockVars, craneVars
<1>5. ASSUME ClientNext PROVE CallsGoOn /\ (NoForcedMotion => ProgressGoesOn)
  <2>1. CallsGoOn
    BY <1>5 DEF ClientNext, CallsGoOn, SetEStop, SetInterlocked, SetPhase, CancelRead, CancelCall,
       lockVars, callVars
  <2>2. ASSUME NoForcedMotion PROVE ProgressGoesOn
    <3>1. \A p \in ClientPhases : p \in Phases /\ \A a \in Axes : PhaseForAxis(a) # p
      BY <2>2, ServiceAssumption DEF NoForcedMotion
    <3> QED
      BY <1>5, <3>1 DEF ClientNext, ProgressGoesOn, SetInterlocked, CancelRead, CancelCall,
         craneVars
  <2> QED
    BY <2>1, <2>2
<1>6. ASSUME NEW c \in Callers, NEW k, NEW from, NEW to, ValidatePlan(c, k, from, to)
      PROVE  CallsGoOn /\ ProgressGoesOn
  BY <1>1, <1>6 DEF ValidatePlan
<1>7. CASE UNCHANGED guardedVars
  BY <1>1, <1>7 DEF guardedVars
<1> QED
  BY <1>2, <1>3, <1>4, <1>5, <1>6, <1>7 DEF GuardedNext

\* Under planned moves, whatever clients do beside them, no cancel function of a
\* finished call stays registered and every locked hoist has its motion; and if
\* no client shows an axis in motion, phase and progress agree (App.MoveCrane
\* over crane/service.go).
THEOREM GuardedLeavesNothing ==
  /\ GuardedSpec => [](CancelFnLive /\ HoistLockOwned)
  /\ NoForcedMotion /\ GuardedSpec => []PhaseMatchesProgress
<1>1. GuardedInit => GuardedTypes /\ CallInv /\ PhaseMatchesProgress
  <2> SUFFICES ASSUME GuardedInit PROVE GuardedTypes /\ CallInv /\ PhaseMatchesProgress
    OBVIOUS
  <2>1. GuardedTypes
    BY GuardedTypeInit
  <2>2. ServiceTypeOK /\ ServiceInitAt(LocationToPosition(CraneHome(1)))
    BY <2>1 DEF GuardedTypes, GuardedTypeOK, GuardedInit
  <2> QED
    BY <2>1, <2>2, CallInit, ProgressInit
<1>2. GuardedTypes /\ CallInv /\ [GuardedNext]_guardedVars => CallInv'
  <2> SUFFICES ASSUME GuardedTypes, CallInv, [GuardedNext]_guardedVars PROVE CallInv'
    OBVIOUS
  <2>1. ServiceTypeOK'
    BY GuardedTypeNext DEF GuardedTypes, GuardedTypeOK
  <2> QED
    BY <2>1, GuardedGoesOn, CallNext
<1>3. NoForcedMotion /\ GuardedTypes /\ PhaseMatchesProgress /\ [GuardedNext]_guardedVars
        => PhaseMatchesProgress'
  BY GuardedGoesOn, ProgressNext DEF GuardedTypes, GuardedTypeOK
<1>4. GuardedTypes /\ [GuardedNext]_guardedVars => GuardedTypes'
  BY GuardedTypeNext
<1>5. CallInv => CancelFnLive /\ HoistLockOwned
  BY DEF CallInv, HoistInv
<1>6. GuardedSpec => [](CancelFnLive /\ HoistLockOwned)
  BY <1>1, <1>2, <1>4, <1>5, PTL DEF GuardedSpec
<1>7. ASSUME NoForcedMotion PROVE GuardedSpec => []PhaseMatchesProgress
  <2>1. GuardedTypes /\ PhaseMatchesProgress /\ [GuardedNext]_guardedVars => PhaseMatchesProgress'
    BY <1>3, <1>7
  <2> QED
    BY <1>1, <1>4, <2>1, PTL DEF GuardedSpec
<1> QED
  BY <1>6, <1>7

-------------------------------------------------------------------------------
(***************************************************************************)
(* GuardedMotion: cells.                                                   *)
(***************************************************************************)

\* Every step takes its axis to a mark.
OnMarks(steps) == \A n \in 1..Len(steps) : steps[n].to \in Marks(steps[n].axis)

\* Whatever is left of a plan, and wherever a crane stops on the way.
StandsInv ==
  /\ GuardedTypes
  /\ \A k \in Cranes, a \in Axes : mm[k][a] \in Marks(a)
  /\ \A c \in Callers : OnMarks(route[c])

\* A plan goes from mark to mark.
LEMMA PlanOnMarks ==
  ASSUME NEW from, NEW to \in Location, CanPlan(from, to),
         Plan(from, to) \in Seq(MotionStep)
  PROVE  OnMarks(Plan(from, to))
<1> DEFINE plan == Plan(from, to)
           t == LocationToPosition(to)
<1>1. Towards(plan, t)
  BY PlanLeads DEF Leads
<1>2. \A a \in Axes : t[a] \in Marks(a)
  BY MarksOf DEF CanPlan
<1> HIDE DEF t, plan
<1>3. ASSUME NEW n \in 1..Len(plan) PROVE plan[n].axis \in Axes
  <2>1. plan[n] \in MotionStep
    BY LenProperties, ElementOfSeq DEF plan
  <2> QED
    BY <2>1 DEF MotionStep
<1>4. OnMarks(plan)
  BY <1>1, <1>2, <1>3 DEF Towards, OnMarks
<1> QED
  BY <1>4 DEF plan

\* The first step of a route, and what follows it.
LEMMA OnMarksTail ==
  ASSUME NEW r \in Seq(MotionStep), r # << >>, OnMarks(r)
  PROVE  Head(r).axis \in Axes /\ Head(r).to \in Marks(Head(r).axis) /\ OnMarks(Tail(r))
<1>1. Len(r) \in Nat /\ Len(r) # 0
  BY LenProperties, EmptySeq
<1>2. /\ Head(r) = r[1] /\ Len(Tail(r)) = Len(r) - 1 /\ Head(r).axis \in Axes
      /\ \A n \in 1..Len(Tail(r)) : Tail(r)[n] = r[n + 1]
  BY StepType, HeadTailProperties
<1>3. 1 \in 1..Len(r)
  BY <1>1
<1>4. ASSUME NEW n \in 1..Len(Tail(r)) PROVE Tail(r)[n].to \in Marks(Tail(r)[n].axis)
  <2>1. n + 1 \in 1..Len(r) /\ Tail(r)[n] = r[n + 1]
    BY <1>1, <1>2
  <2> QED
    BY <2>1 DEF OnMarks
<1> QED
  BY <1>2, <1>3, <1>4 DEF OnMarks

\* A home has its marks.
LEMMA StandsInit == GuardedInit => StandsInv
<1> SUFFICES ASSUME GuardedInit PROVE StandsInv
  OBVIOUS
<1>1. CraneHome(1) \in AllCells
  <2>1. 1 \in 1..Aisles
    BY DimensionTypes, WarehouseAssumption DEF Validate
  <2> QED
    BY <2>1, HomeIsCell
<1> DEFINE home == LocationToPosition(CraneHome(1))
<1>2. \A a \in Axes : home[a] \in Marks(a)
  BY <1>1 DEF Marks
<1>3. ServiceInitAt(home)
  BY DEF GuardedInit
<1> HIDE DEF home
<1>4. \A k \in Cranes, a \in Axes : mm[k][a] \in Marks(a)
  BY <1>2, <1>3 DEF ServiceInitAt
<1>5. \A c \in Callers : route[c] = << >>
  BY <1>3 DEF ServiceInitAt
<1>6. OnMarks(<< >>)
  BY DEF OnMarks
<1> QED
  BY <1>4, <1>5, <1>6, GuardedTypeInit DEF StandsInv

\* Every step leaves the axes on marks, and what is left of the routes leads to some.
LEMMA StandsNext ==
  ASSUME StandsInv, [GuardedNext]_guardedVars
  PROVE  StandsInv'
<1> USE DEF StandsInv
<1>0. GuardedTypes' /\ ServiceTypeOK
  BY GuardedTypeNext DEF GuardedTypes, GuardedTypeOK
<1>1. ASSUME UNCHANGED <<mm, route>> PROVE StandsInv'
  BY <1>0, <1>1
<1>2. ASSUME NEW c \in Callers, Launch(c) PROVE StandsInv'
  <2> DEFINE move == validated[c]
             plan == Plan(move.from, move.to)
  <2>1. /\ move \in Move /\ CanPlan(move.from, move.to) /\ plan \in Seq(MotionStep)
        /\ UNCHANGED serviceVars \/ Begin(c, move.crane, plan)
    BY <1>2, LaunchFacts
  <2>2. OnMarks(plan)
    <3>1. move.to \in Location
      BY <2>1, GuardedAssumption DEF Move
    <3> QED
      BY <2>1, <3>1, PlanOnMarks
  <2> HIDE DEF move, plan
  <2>3. CASE Begin(c, move.crane, plan)
    BY <1>0, <2>2, <2>3 DEF Begin, craneVars, ServiceTypeOK
  <2>4. CASE UNCHANGED serviceVars
    BY <1>1, <2>4 DEF serviceVars, craneVars, callVars
  <2> QED
    BY <2>1, <2>3, <2>4
<1>3. ASSUME NEW c \in Callers, CallerStep(c) PROVE StandsInv'
  <2> DEFINE h == Head(route[c])
  <2>1. /\ route[c] # << >> /\ route[c] \in Seq(MotionStep) /\ crane[c] \in Cranes
        /\ \A d \in Callers \ {c} : route'[d] = route[d]
        /\ route'[c] \in {route[c], Tail(route[c]), << >>}
        /\ mm' = mm \/ mm' = [mm EXCEPT ![crane[c]][h.axis] = h.to]
    BY <1>0, <1>3, CallerFacts DEF ServiceTypeOK
  <2>2. h.axis \in Axes /\ h.to \in Marks(h.axis) /\ OnMarks(Tail(route[c]))
    BY <2>1, OnMarksTail
  <2>3. OnMarks(<< >>)
    BY DEF OnMarks
  <2>4. \A d \in Callers : OnMarks(route'[d])
    BY <2>1, <2>2, <2>3
  <2>5. mm \in [Cranes -> [Axes -> Positions]]
    BY <1>0 DEF ServiceTypeOK
  <2> HIDE DEF h
  <2>6. \A k \in Cranes, a \in Axes : mm'[k][a] \in Marks(a)
    BY <2>1, <2>2, <2>5
  <2> QED
    BY <1>0, <2>4, <2>6 DEF OnMarks
<1>4. CASE ClientNext \/ (\E c \in Callers : ContextDone(c)) \/ UNCHANGED guardedVars
  BY <1>1, <1>4, ClientFacts
  DEF ContextDone, guardedVars, serviceVars, craneVars, callVars
<1>5. ASSUME NEW c \in Callers, NEW k \in Cranes, NEW from \in Locations, NEW to \in Locations,
             ValidatePlan(c, k, from, to)
      PROVE  StandsInv'
  BY <1>1, <1>5 DEF ValidatePlan, serviceVars, craneVars, callVars
<1> QED
  BY <1>2, <1>3, <1>4, <1>5 DEF GuardedNext

\* For every layout and any number of callers: wherever motions were abandoned,
\* a crane faces a cell on each axis, and so stands at one, within its limits.
THEOREM StandsAtCellAlways == GuardedSpec => []StandsAtCell
<1>1. StandsInv => StandsAtCell
  <2> SUFFICES ASSUME StandsInv, NEW k \in Cranes
               PROVE  LET loc == PositionToLocation(mm[k], 1) IN
                        InBounds(loc) /\ LocationToPosition(loc) = mm[k] /\ CheckPose(mm[k]) = {}
    BY DEF StandsAtCell
  <2>1. mm[k] \in [Axes -> Positions] /\ \A a \in Axes : mm[k][a] \in Marks(a)
    BY DEF StandsInv, GuardedTypes, GuardedTypeOK, ServiceTypeOK
  <2> QED
    BY <2>1, MarksConvert
<1> QED
  BY <1>1, StandsInit, StandsNext, PTL DEF GuardedSpec

-------------------------------------------------------------------------------
(***************************************************************************)
(* GuardedMotion: one caller.                                              *)
(***************************************************************************)

OneCaller == \A c, d \in Callers : c = d

\* What the caller still has to carry out.
Remaining(c) == IF moved[c] THEN Tail(route[c]) ELSE route[c]

\* It leads from where the crane is to the goal.
LeadsToGoal(c) == Leads(Remaining(c), mm[crane[c]], LocationToPosition(goal[c]))

ArrivesInv ==
  /\ GuardedTypes
  /\ \A c \in Callers :
       /\ moved[c] => pc[c] \in {"unlock", "clear"}
       /\ goal[c] # NoPlan /\ pc[c] # "ready" => LeadsToGoal(c)

\* Nobody is on a move at first.
LEMMA ArrivesInit == GuardedInit => ArrivesInv
<1> SUFFICES ASSUME GuardedInit PROVE ArrivesInv
  OBVIOUS
<1>1. \A c \in Callers : moved[c] = FALSE /\ goal[c] = NoPlan
  BY DEF GuardedInit, ServiceInitAt
<1> QED
  BY <1>1, GuardedTypeInit DEF ArrivesInv

\* Every step keeps the one caller's route leading to its goal.
LEMMA ArrivesNext ==
  ASSUME OneCaller, ArrivesInv, [GuardedNext]_guardedVars
  PROVE  ArrivesInv'
<1> USE DEF ArrivesInv
<1>0. GuardedTypes' /\ ServiceTypeOK
  BY GuardedTypeNext DEF GuardedTypes, GuardedTypeOK
<1>1. ASSUME UNCHANGED <<pc, crane, route, moved, mm, goal>> PROVE ArrivesInv'
  BY <1>0, <1>1 DEF LeadsToGoal, Remaining
<1>2. ASSUME NEW c \in Callers, Launch(c) PROVE ArrivesInv'
  <2> DEFINE move == validated[c]
             plan == Plan(move.from, move.to)
             from == LocationToPosition(move.from)
  <2>1. /\ move \in Move /\ plan \in Seq(MotionStep) /\ pc[c] = "ready"
        /\ \/ plan = << >> /\ UNCHANGED serviceVars
           \/ plan # << >> /\ Begin(c, move.crane, plan)
        /\ goal' = [goal EXCEPT ![c] = IF mm[move.crane] = from THEN move.to ELSE NoPlan]
    BY <1>2, LaunchFacts
  <2>2. Leads(plan, from, LocationToPosition(move.to))
    <3>1. move.to \in Location
      BY <2>1, GuardedAssumption DEF Move
    <3> QED
      BY <3>1, PlanLeads
  <2>3. move.crane \in Cranes
    BY <2>1 DEF Move
  <2> HIDE DEF move, plan, from
  <2>4. moved[c] = FALSE /\ \A d \in Callers : d = c
    BY <1>0, <2>1 DEF OneCaller, ServiceTypeOK
  <2>5. goal'[c] = IF mm[move.crane] = from THEN move.to ELSE NoPlan
    BY <2>1 DEF GuardedTypes, GuardedTypeOK
  <2>6. CASE UNCHANGED serviceVars
    BY <1>0, <2>1, <2>4, <2>6 DEF serviceVars, callVars
  <2>7. CASE Begin(c, move.crane, plan)
    <3>1. /\ crane'[c] = move.crane /\ route'[c] = plan /\ moved' = moved /\ mm' = mm
      BY <1>0, <2>7 DEF Begin, craneVars, ServiceTypeOK
    <3>2. Remaining(c)' = plan
      BY <2>4, <3>1 DEF Remaining
    <3>3. goal'[c] # NoPlan => LeadsToGoal(c)'
      BY <2>2, <2>5, <3>1, <3>2 DEF LeadsToGoal
    <3> QED
      BY <1>0, <2>4, <3>1, <3>3
  <2> QED
    BY <2>1, <2>6, <2>7
<1>3. ASSUME NEW c \in Callers, CallerStep(c), UNCHANGED goal PROVE ArrivesInv'
  <2> DEFINE h == Head(route[c])
             k == crane[c]
  <2>1. /\ pc[c] # "ready" /\ route[c] # << >> /\ route[c] \in Seq(MotionStep)
        /\ crane' = crane /\ k \in Cranes /\ mm[k] \in [Axes -> Positions]
        /\ \A d \in Callers : d = c
        /\ moved[c] => pc[c] \in {"unlock", "clear"}
    BY <1>0, <1>3, CallerFacts DEF ServiceTypeOK, OneCaller
  <2>2. SUFFICES /\ moved'[c] => pc'[c] \in {"unlock", "clear"}
                 /\ goal[c] # NoPlan /\ pc'[c] # "ready" =>
                      Leads(Remaining(c)', mm'[k], LocationToPosition(goal[c]))
    BY <1>0, <1>3, <2>1 DEF LeadsToGoal
  <2>3. goal[c] # NoPlan => Leads(Remaining(c), mm[k], LocationToPosition(goal[c]))
    BY <2>1 DEF LeadsToGoal
  <2>4. CASE /\ pc[c] = "commit" /\ pc'[c] \in {"unlock", "clear"}
             /\ mm' = [mm EXCEPT ![k][h.axis] = h.to]
             /\ moved'[c] = TRUE /\ route'[c] = route[c]
    <3>1. Remaining(c) = route[c] /\ Remaining(c)' = Tail(route[c])
      BY <2>1, <2>4 DEF Remaining
    <3>2. mm'[k] = [mm[k] EXCEPT ![h.axis] = h.to]
      BY <1>0, <2>1, <2>4 DEF ServiceTypeOK
    <3>3. ASSUME goal[c] # NoPlan
          PROVE  Leads(Tail(route[c]), mm'[k], LocationToPosition(goal[c]))
      <4>1. Leads(route[c], mm[k], LocationToPosition(goal[c]))
        BY <2>3, <3>1, <3>3
      <4>2. route[c] \in Seq([axis : Axes, to : Positions])
        BY <2>1 DEF MotionStep
      <4> DEFINE r == route[c]
                 pos == mm[k]
                 t == LocationToPosition(goal[c])
      <4>3. /\ r \in Seq([axis : Axes, to : Positions]) /\ r # << >>
            /\ pos \in [Axes -> Positions] /\ Leads(r, pos, t)
            /\ mm'[k] = [pos EXCEPT ![Head(r).axis] = Head(r).to]
        BY <2>1, <3>2, <4>1, <4>2
      <4> HIDE DEF r, pos, t
      <4>4. Leads(Tail(r), [pos EXCEPT ![Head(r).axis] = Head(r).to], t)
        BY <4>3, LeadsOn
      <4> QED
        BY <4>3, <4>4 DEF r, t
    <3> QED
      BY <2>4, <3>1, <3>3
  <2>5. CASE /\ pc[c] = "clear" /\ mm' = mm /\ moved'[c] = FALSE
             /\ route'[c] = IF moved[c] THEN Tail(route[c]) ELSE << >>
             /\ pc'[c] \in {"ready", "check"}
             /\ pc'[c] = "ready" <=> route'[c] = << >>
    <3>1. pc'[c] # "ready" => Remaining(c)' = Remaining(c)
      BY <2>5 DEF Remaining
    <3> QED
      BY <2>3, <2>5, <3>1
  <2>6. CASE /\ pc[c] = "check" /\ pc'[c] = "ready"
             /\ mm' = mm /\ moved'[c] = moved[c] /\ route'[c] = << >>
    BY <2>1, <2>6
  <2>7. CASE /\ pc'[c] # "ready" /\ pc[c] \notin {"commit", "clear"}
             /\ pc[c] = "unlock" => pc'[c] = "clear"
             /\ mm' = mm /\ moved'[c] = moved[c] /\ route'[c] = route[c]
    BY <2>1, <2>3, <2>7 DEF Remaining
  <2> QED
    BY <1>0, <1>3, <2>4, <2>5, <2>6, <2>7, CallerFacts
<1>4. CASE (ClientNext \/ \E c \in Callers : ContextDone(c)) /\ UNCHANGED goal
  BY <1>1, <1>4, ClientFacts DEF ContextDone, craneVars
<1>5. ASSUME NEW c \in Callers, NEW k \in Cranes, NEW from \in Locations, NEW to \in Locations,
             ValidatePlan(c, k, from, to)
      PROVE  ArrivesInv'
  BY <1>1, <1>5 DEF ValidatePlan, serviceVars, craneVars, callVars
<1>6. CASE UNCHANGED guardedVars
  BY <1>1, <1>6 DEF guardedVars, serviceVars, craneVars, callVars
<1> QED
  BY <1>2, <1>3, <1>4, <1>5, <1>6 DEF GuardedNext

\* For every layout: with one caller, a move that was given the crane's real
\* position and ran to its end has brought all axes to the target.
THEOREM ArrivesAtTargetAlways ==
  ASSUME OneCaller
  PROVE  GuardedSpec => []ArrivesAtTarget
<1>1. ArrivesInv => ArrivesAtTarget
  <2> SUFFICES ASSUME ArrivesInv, NEW c \in Callers, RouteDone(c), goal[c] # NoPlan
               PROVE  mm[crane[c]] = LocationToPosition(goal[c])
    BY DEF ArrivesAtTarget
  <2>1. /\ Remaining(c) = << >> /\ Remaining(c) \in Seq(MotionStep)
        /\ Leads(Remaining(c), mm[crane[c]], LocationToPosition(goal[c]))
    <3>1. Remaining(c) = << >> /\ pc[c] # "ready"
      BY DEF RouteDone, Remaining
    <3>2. Remaining(c) \in Seq(MotionStep)
      BY <3>1
    <3> QED
      BY <3>1, <3>2 DEF ArrivesInv, LeadsToGoal
  <2>2. mm[crane[c]] \in [Axes -> Positions] /\ goal[c] \in Locations
    BY DEF ArrivesInv, GuardedTypes, GuardedTypeOK, ServiceTypeOK
  <2>3. LocationToPosition(goal[c]) \in [Axes -> Int]
    BY <2>2, PositionType, GuardedAssumption
  <2> QED
    BY <2>1, <2>2, <2>3, LeadsNowhere
<1> QED
  BY <1>1, ArrivesInit, ArrivesNext, PTL DEF GuardedSpec
================================================================================

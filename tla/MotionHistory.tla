----------------------------- MODULE MotionHistory -----------------------------
(***************************************************************************)
(* CraneService with three history variables.  Two count axis motions: those *)
(* a caller commits on a crane under one uninterrupted emergency stop, and  *)
(* those it commits for a route whose context is already done.  The third    *)
(* marks the motions cancelled before the last select they come to.  They   *)
(* measure how far past a stop or a cancellation the code can run, since    *)
(* neither is looked at between that select and the commit.                 *)
(***************************************************************************)
EXTENDS CraneService

VARIABLES afterStop, afterDone, interrupted

historyVars == <<serviceVars, afterStop, afterDone, interrupted>>

Commits(c) == pc[c] = "commit" /\ pc'[c] # "commit"

Count(c) == IF Commits(c) THEN 1 ELSE 0

HistoryInit ==
  /\ ServiceInit
  /\ afterStop = [c \in Callers |-> [k \in Cranes |-> 0]]
  /\ afterDone = [c \in Callers |-> 0]
  /\ interrupted = [c \in Callers |-> FALSE]

\* Releasing the stop of a crane starts the count of that crane afresh.
CountStops ==
  afterStop' = [c \in Callers |-> [k \in Cranes |->
    IF ~eStopActive'[k] THEN 0
    ELSE afterStop[c][k] + (IF crane[c] = k THEN Count(c) ELSE 0)]]

\* The end of a route starts the count of its caller afresh.
CountDones ==
  afterDone' = [c \in Callers |->
    IF pc'[c] = "ready" THEN 0
    ELSE afterDone[c] + (IF ctx[c] = "done" THEN Count(c) ELSE 0)]

\* The motion of the caller is still to come to its last select.
BeforeLastSelect(c) == pc[c] \in {"lock", "enter", "start", "mid"}

\* Whoever cancels it there: CancelMotion, the next MoveAxis of the crane, or
\* the context of the route.  The end of the route starts afresh.
NoteInterrupts ==
  interrupted' = [c \in Callers |->
    /\ pc'[c] # "ready"
    /\ interrupted[c] \/ (BeforeLastSelect(c)' /\ ctx'[c] # "live")]

HistoryNext == ServiceNext /\ CountStops /\ CountDones /\ NoteInterrupts

HistorySpec == HistoryInit /\ [][HistoryNext]_historyVars

\* As in CallFairness: a goroutine inside MoveAxis is never blocked for good.
FairHistorySpec ==
  /\ HistorySpec
  /\ \A c \in Callers :
       WF_historyVars(CallerStep(c) /\ CountStops /\ CountDones /\ NoteInterrupts)

-------------------------------------------------------------------------------
\* Every variable has its type, those of the service included.
HistoryTypeOK ==
  /\ ServiceTypeOK
  /\ afterStop \in [Callers -> [Cranes -> Nat]]
  /\ afterDone \in [Callers -> Nat]
  /\ interrupted \in [Callers -> BOOLEAN]

\* Under one emergency stop a caller completes at most the axis motion it was
\* already admitted for: SetEStop does not interrupt a motion, and MoveAxis
\* looks at the stop only on admission, yet no route gets two axes further.
StopContainment ==
  \A c \in Callers, k \in Cranes : afterStop[c][k] <= 1

\* A route whose context is done completes at most one axis motion, the one
\* past its last select, and however the motion, its deferred functions and
\* the executor's loop are cut up, it never completes a second.
DoneContainment == \A c \in Callers : afterDone[c] <= 1

\* A motion cancelled before its last select moves nothing, and neither does
\* anything after it: whoever cancelled it, and whatever the service did in
\* between, the route comes to its end without another commit or admission.
InterruptedEnds ==
  \A c \in Callers : interrupted[c] => pc[c] \notin {"check", "install", "commit"}
================================================================================

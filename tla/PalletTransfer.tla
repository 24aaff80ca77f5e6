---------------------------- MODULE PalletTransfer ----------------------------
(***************************************************************************)
(* Storage cells (aisle.Occupancy) and App.RetrievePallet: find the pallet, *)
(* move to its cell, load it, take it off the cell, move on, unload it and  *)
(* put it into the destination.  Each call is one critical section of the   *)
(* cells or of the crane's service; several retrievals interleave between   *)
(* them, on the same crane too, and each call may be refused.  A motion is  *)
(* cut at its axes, and whatever can make it fail is one choice.            *)
(***************************************************************************)
EXTENDS Warehouse, FiniteSets

CONSTANTS
  Cranes, AisleOf,   \* crane ids and the aisle whose home each was started at
  Retrievers,        \* goroutines inside RetrievePallet
  Pallets,
  Locations,         \* what clients pass as a location
  None               \* no pallet, no crane, nowhere

\* What a retrieval does next, and all it knows.
Steps == {"approach", "load", "remove", "carry", "unload", "place"}

Job == [next : Steps, crane : Cranes, pallet : Pallets, source : AllCells, dest : Locations,
        steps : Seq([axis : Axes, to : Int]), straight : BOOLEAN]

ASSUME TransferAssumption ==
  /\ AisleOf \in [Cranes -> 1..Aisles]
  /\ Locations \subseteq Location
  /\ None \notin Pallets \cup Cranes \cup Retrievers \cup AllCells \cup Job
  /\ Cranes \cap Retrievers = {} /\ AllCells \cap (Cranes \cup Retrievers) = {}

VARIABLES
  cells,       \* the pallet in each storage cell
  reservedBy,  \* the crane each cell is reserved for
  load,        \* the pallet on each crane
  at,          \* the position of each crane
  call,        \* each retrieval: its next step, its arguments, the source it
               \* found, what is left of its present plan, and a ghost: it
               \* started with the crane at home and has had it for itself
  outside,     \* ghost: pallets in nobody's books, not stored yet or dropped
  contested    \* ghost: two retrievals have been after one pallet at a time

cellVars == <<cells, reservedBy>>
craneVars == <<load, at>>
ghostVars == <<outside, contested>>
transferVars == <<cellVars, craneVars, call, ghostVars>>

Home(k) == CraneHome(AisleOf[k])

TransferInit ==
  /\ cells = [l \in AllCells |-> None]
  /\ reservedBy = [l \in AllCells |-> None]
  /\ load = [k \in Cranes |-> None]
  /\ at = [k \in Cranes |-> LocationToPosition(Home(k))]
  /\ call = [r \in Retrievers |-> None]
  /\ outside = Pallets
  /\ contested = FALSE

-------------------------------------------------------------------------------
(***************************************************************************)
(* aisle.Occupancy.                                                        *)
(***************************************************************************)

\* Mutant: the crane that reserved a cell may fill it.
CanPlace_OwnReservation(l) == l \in AllCells /\ cells[l] = None

\* Place refuses unknown cells, occupied cells, and reserved ones whoever asks:
\* it is not told for which crane.
CanPlace(l) == l \in AllCells /\ cells[l] = None /\ reservedBy[l] = None

Place(l, p) == cells' = [cells EXCEPT ![l] = p] /\ UNCHANGED reservedBy

\* A reservation outlives the pallet.
Remove(l) == cells' = [cells EXCEPT ![l] = None] /\ UNCHANGED reservedBy

FindPallet(p) == {l \in AllCells : cells[l] = p}

\* Occupied or not, a cell is reserved for one crane at a time.
Reserve(l, k) ==
  /\ l \in AllCells
  /\ reservedBy[l] \in {None, k}
  /\ reservedBy' = [reservedBy EXCEPT ![l] = k]
  /\ UNCHANGED <<cells, craneVars, call, ghostVars>>

Release(l, k) ==
  /\ l \in AllCells
  /\ reservedBy[l] = k
  /\ reservedBy' = [reservedBy EXCEPT ![l] = None]
  /\ UNCHANGED <<cells, craneVars, call, ghostVars>>

\* App.PlacePallet: a pallet that is outside is stored.
PlacePallet(l, p) ==
  /\ p \in outside
  /\ CanPlace(l)
  /\ Place(l, p)
  /\ outside' = outside \ {p}
  /\ UNCHANGED <<craneVars, call, contested>>

-------------------------------------------------------------------------------
(***************************************************************************)
(* App.RetrievePallet.                                                     *)
(***************************************************************************)

\* Retrieval r is under way and its next step is one of these.
AtStep(r, set) == call[r] # None /\ call[r].next \in set

Return(r) == call' = [call EXCEPT ![r] = None]

Continue(r, next) == call' = [call EXCEPT ![r].next = next]

\* Begin a move: a plan without steps is over at once.
SetOut(job, plan, moving, after) ==
  [job EXCEPT !.next = IF plan = << >> THEN after ELSE moving, !.steps = plan]

\* Mutant: the first move is planned from the cell itself.
FirstPlan_FromSource(k, source) == Plan(source, source)

\* Pose().Location is what App.Start set: no motion changes it.
FirstPlan(k, source) == Plan(Home(k), source)

\* FindPallet, then the plan of the first move.  A pallet that is not found and
\* a cell out of the crane's reach end the call before anything has changed.
RetrievePallet(r, k, p, dest) ==
  /\ call[r] = None
  /\ \E source \in FindPallet(p) :
       /\ CanPlan(Home(k), source)
       /\ call' = [call EXCEPT ![r] = SetOut(
            [next |-> "approach", crane |-> k, pallet |-> p, source |-> source, dest |-> dest,
             steps |-> << >>, straight |-> at[k] = LocationToPosition(Home(k))],
            FirstPlan(k, source), "approach", "load")]
  /\ contested' = (contested \/ \E q \in Retrievers : call[q] # None /\ call[q].pallet = p)
  /\ UNCHANGED <<cellVars, craneVars, outside>>

\* Mutant: the plan is taken for done with its first step.
Advance_FirstOnly(job) ==
  [job EXCEPT !.steps = Tail(@), !.next = IF @ = "approach" THEN "load" ELSE "unload"]

\* The plan's next step is done.
Advance(job) ==
  LET rest == Tail(job.steps) IN
  [job EXCEPT !.steps = rest,
              !.next = IF rest # << >> THEN @ ELSE IF @ = "approach" THEN "load" ELSE "unload"]

Disturb(job, k) ==
  IF job # None /\ job.crane = k THEN [job EXCEPT !.straight = FALSE] ELSE job

\* One axis of the plan is carried out.
Move(r) ==
  LET k == call[r].crane
      todo == Head(call[r].steps)
  IN
  /\ AtStep(r, {"approach", "carry"})
  /\ at' = [at EXCEPT ![k][todo.axis] = todo.to]
  /\ call' = [q \in Retrievers |-> IF q = r THEN Advance(call[r]) ELSE Disturb(call[q], k)]
  /\ UNCHANGED <<cellVars, load, ghostVars>>

\* A guard, a stop, an interlock or a cancellation ends the move, and the call:
\* what the crane carries stays on it.
Abandon(r) ==
  /\ AtStep(r, {"approach", "carry"})
  /\ Return(r)
  /\ UNCHANGED <<cellVars, craneVars, ghostVars>>

\* Mutant: a loaded crane is loaded again.
LoadPallet_Always(r) ==
  /\ AtStep(r, {"load"})
  /\ load' = [load EXCEPT ![call[r].crane] = call[r].pallet]
  /\ Continue(r, "remove")
  /\ UNCHANGED <<cellVars, at, ghostVars>>

\* Service.LoadPallet refuses a loaded crane.
LoadPallet(r) ==
  /\ AtStep(r, {"load"})
  /\ \/ /\ load[call[r].crane] = None
        /\ load' = [load EXCEPT ![call[r].crane] = call[r].pallet]
        /\ Continue(r, "remove")
     \/ load[call[r].crane] # None /\ Return(r) /\ UNCHANGED load
  /\ UNCHANGED <<cellVars, at, ghostVars>>

\* The source is emptied of whatever it holds by now ...
RemoveFromSource(r) ==
  LET source == call[r].source
      dest == call[r].dest
  IN
  /\ AtStep(r, {"remove"})
  /\ cells[source] # None
  /\ Remove(source)
  /\ IF CanPlan(source, dest)
     THEN call' = [call EXCEPT ![r] = SetOut(@, Plan(source, dest), "carry", "unload")]
     ELSE Return(r)
  /\ UNCHANGED <<craneVars, ghostVars>>

\* ... unless it is empty, which ends the call with the crane loaded.
NothingToRemove(r) ==
  /\ AtStep(r, {"remove"})
  /\ cells[call[r].source] = None
  /\ Return(r)
  /\ UNCHANGED <<cellVars, craneVars, ghostVars>>

\* Mutant: the pallet that comes off the crane is not placed any more.
UnloadPallet_Drops(r) ==
  /\ AtStep(r, {"unload"})
  /\ load' = [load EXCEPT ![call[r].crane] = None]
  /\ outside' = outside \cup {call[r].pallet}
  /\ Return(r)
  /\ UNCHANGED <<cellVars, at, contested>>

\* Service.UnloadPallet, whatever the pallet is (the crane is loaded, see
\* CarrierExclusive: its refusal of an unloaded one never happens here).
UnloadPallet(r) ==
  /\ AtStep(r, {"unload"})
  /\ load' = [load EXCEPT ![call[r].crane] = None]
  /\ IF load[call[r].crane] = None THEN Return(r) ELSE Continue(r, "place")
  /\ UNCHANGED <<cellVars, at, ghostVars>>

\* Mutant: a refused pallet is taken for placed.
PlaceAtDest_Forgets(r) ==
  /\ AtStep(r, {"place"})
  /\ IF CanPlace(call[r].dest) THEN Place(call[r].dest, call[r].pallet) ELSE UNCHANGED cellVars
  /\ Return(r)
  /\ UNCHANGED <<craneVars, ghostVars>>

\* The pallet is off the crane: if Place refuses, it is in nobody's books.
PlaceAtDest(r) ==
  LET dest == call[r].dest
      p == call[r].pallet
  IN
  /\ AtStep(r, {"place"})
  /\ \/ CanPlace(dest) /\ Place(dest, p) /\ UNCHANGED outside
     \/ ~CanPlace(dest) /\ UNCHANGED cellVars /\ outside' = outside \cup {p}
  /\ Return(r)
  /\ UNCHANGED <<craneVars, contested>>

RetrieverStep(r) ==
  \/ Move(r) \/ Abandon(r) \/ LoadPallet(r) \/ RemoveFromSource(r) \/ NothingToRemove(r)
  \/ UnloadPallet(r) \/ PlaceAtDest(r)

TransferNext ==
  \/ \E l \in Locations :
       \/ \E p \in Pallets : PlacePallet(l, p)
       \/ \E k \in Cranes : Reserve(l, k) \/ Release(l, k)
  \/ \E r \in Retrievers :
       \/ \E k \in Cranes, p \in Pallets, dest \in Locations : RetrievePallet(r, k, p, dest)
       \/ RetrieverStep(r)

TransferSpec == TransferInit /\ [][TransferNext]_transferVars

-------------------------------------------------------------------------------
(***************************************************************************)
(* Properties.                                                             *)
(***************************************************************************)

\* Every variable has its type, and a plan has steps left exactly while it is
\* being carried out.
PalletTypeOK ==
  /\ cells \in [AllCells -> Pallets \cup {None}]
  /\ reservedBy \in [AllCells -> Cranes \cup {None}]
  /\ load \in [Cranes -> Pallets \cup {None}]
  /\ at \in [Cranes -> [Axes -> Int]]
  /\ call \in [Retrievers -> Job \cup {None}]
  /\ outside \subseteq Pallets
  /\ contested \in BOOLEAN
  /\ \A r \in Retrievers : call[r] # None =>
       (call[r].steps = << >> <=> ~AtStep(r, {"approach", "carry"}))

\* The retrieval has loaded its crane and not yet unloaded it.
Carries(r, k) == AtStep(r, {"remove", "carry", "unload"}) /\ call[r].crane = k

\* However retrievals overlap on one crane, at most one of them is between its
\* load and its unload, and it is its own pallet that is on the crane: the id
\* UnloadPallet returns may be thrown away, as RetrievePallet does.
CarrierExclusive ==
  \A k \in Cranes, r \in Retrievers : Carries(r, k) =>
    /\ load[k] = call[r].pallet
    /\ \A q \in Retrievers \ {r} : ~Carries(q, k)

Holds(r, p) == AtStep(r, {"place"}) /\ call[r].pallet = p

\* Between load and removal a pallet is also on the crane: the cell is not
\* counted any more.
Loading(r, l) == AtStep(r, {"remove"}) /\ call[r].source = l

Spots == AllCells \cup Cranes \cup Retrievers \cup {None}

\* Pallet p is recorded at x.
Recorded(p, x) ==
  \/ x \in AllCells /\ cells[x] = p /\ ~\E r \in Retrievers : Loading(r, x) /\ call[r].pallet = p
  \/ x \in Cranes /\ load[x] = p
  \/ x \in Retrievers /\ Holds(x, p)
  \/ x = None /\ p \in outside

\* As long as no two retrievals have been after one pallet at a time, no pallet
\* is recorded at two places and none disappears from all of them, whatever
\* moves fail and destinations are taken.  (With two after the same pallet both
\* happen: the second finds it on the crane, in a cell already emptied, or
\* takes away what has been stored there since.)
OnePlace ==
  ~contested => \A p \in Pallets :
    \E x \in Spots : Recorded(p, x) /\ \A y \in Spots : Recorded(p, y) => y = x

\* Retrievals that do not contend are after different pallets, and until it is
\* taken away each finds its pallet in the cell it has seen it in.
SourceHolds ==
  ~contested => \A r \in Retrievers : call[r] # None =>
    /\ \A q \in Retrievers \ {r} : call[q] # None => call[q].pallet # call[r].pallet
    /\ AtStep(r, {"approach", "load", "remove"}) => cells[call[r].source] = call[r].pallet

\* The inductive invariant.
TransferInv == PalletTypeOK /\ CarrierExclusive /\ SourceHolds /\ OnePlace

\* A reservation is changed by its owner's release alone, and meanwhile no
\* pallet gets into the cell, be it on the very crane the cell is kept for.
ReservationHolds ==
  [][\A l \in AllCells : reservedBy[l] # None =>
       /\ reservedBy'[l] # reservedBy[l] => Release(l, reservedBy[l])
       /\ cells'[l] \in {cells[l], None}]_transferVars

\* A retrieval that started with its crane at home, and had the crane for
\* itself, loads at the pallet's cell and unloads at its destination.  (Started
\* anywhere else it need not: its first plan leaves out the axes in which home
\* and the cell agree.)
LoadsWhereStored ==
  \A r \in Retrievers : call[r] # None /\ call[r].straight =>
    /\ AtStep(r, {"load", "remove"}) => at[call[r].crane] = LocationToPosition(call[r].source)
    /\ AtStep(r, {"unload"}) => at[call[r].crane] = LocationToPosition(call[r].dest)

\* The place that counts in the ledger.
Where == [p \in Pallets |-> CHOOSE x \in Spots : Recorded(p, x)]

Ledger == INSTANCE PalletLedger WITH
  Cells <- AllCells, Outside <- None, where <- Where

\* Until retrievals contend for a pallet, storing and retrieving implement the
\* ledger, step by step.
ImplementsLedger == Ledger!LedgerInit /\ [][contested' \/ Ledger!LedgerNext]_Where
================================================================================

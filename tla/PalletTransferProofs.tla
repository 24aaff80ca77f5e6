------------------------- MODULE PalletTransferProofs -------------------------
(***************************************************************************)
(* Theorems about PalletTransfer for every warehouse and any number of      *)
(* cranes, pallets and overlapping retrievals.                             *)
(***************************************************************************)
EXTENDS PalletTransfer, WarehouseProofs

-------------------------------------------------------------------------------
\* Cells, destinations and homes are locations.
LEMMA LocationTypes ==
  /\ AllCells \subseteq Location
  /\ Locations \subseteq Location
  /\ \A k \in Cranes : Home(k) \in Location
<1>1. \A k \in Cranes : AisleOf[k] \in 1..Aisles
  BY TransferAssumption
<1>2. \A k \in Cranes : Home(k) \in AllCells
  BY <1>1, HomeIsCell DEF Home
<1> QED
  BY <1>2, CellsAreLocations, TransferAssumption

\* What the operations on a call return.
LEMMA SetOutType ==
  ASSUME NEW j \in Job, NEW plan \in Seq(PlanStep),
         NEW moving \in {"approach", "carry"}, NEW after \in Steps \ {"approach", "carry"}
  PROVE  LET s == SetOut(j, plan, moving, after) IN
         /\ s \in Job
         /\ s.next \in {moving, after}
         /\ s.crane = j.crane /\ s.pallet = j.pallet /\ s.source = j.source
         /\ s.steps = << >> <=> s.next \notin {"approach", "carry"}
BY DEF SetOut, Job, Steps, PlanStep

\* The next step of a call's plan keeps the call within its types.
LEMMA AdvanceType ==
  ASSUME NEW j \in Job, j.steps # << >>, j.next \in {"approach", "carry"}
  PROVE  LET s == Advance(j) IN
         /\ s \in Job
         /\ s.next \in {j.next, IF j.next = "approach" THEN "load" ELSE "unload"}
         /\ s.crane = j.crane /\ s.pallet = j.pallet /\ s.source = j.source
         /\ s.steps = << >> <=> s.next \notin {"approach", "carry"}
<1>1. Tail(j.steps) \in Seq(PlanStep)
  BY HeadTailProperties DEF Job, PlanStep
<1> QED
  BY <1>1 DEF Advance, Job, Steps, PlanStep

\* A call that another one disturbs stays within its types.
LEMMA DisturbType ==
  ASSUME NEW j \in Job \cup {None}, NEW k
  PROVE  LET s == Disturb(j, k) IN
         /\ s \in Job \cup {None}
         /\ s = None <=> j = None
         /\ j # None => /\ s.next = j.next /\ s.steps = j.steps
                        /\ s.crane = j.crane /\ s.pallet = j.pallet /\ s.source = j.source
<1>1. CASE j = None
  BY <1>1 DEF Disturb
<1>2. CASE j \in Job
  <2>1. [j EXCEPT !.straight = FALSE] \in Job
    BY <1>2 DEF Job
  <2> QED
    BY <1>2, <2>1, TransferAssumption DEF Disturb, Job
<1> QED
  BY <1>1, <1>2

-------------------------------------------------------------------------------
(***************************************************************************)
(* Types.                                                                  *)
(***************************************************************************)

\* The types hold at first.
LEMMA TypeInit == TransferInit => PalletTypeOK
<1> SUFFICES ASSUME TransferInit PROVE PalletTypeOK
  OBVIOUS
<1>1. at \in [Cranes -> [Axes -> Int]]
  BY LocationTypes, PositionType DEF TransferInit
<1> QED
  BY <1>1 DEF TransferInit, PalletTypeOK

\* The call that starts is a job with its first plan.
LEMMA RetrieveType ==
  ASSUME PalletTypeOK, NEW r \in Retrievers, NEW k \in Cranes, NEW p \in Pallets,
         NEW dest \in Locations, RetrievePallet(r, k, p, dest)
  PROVE  \E source \in FindPallet(p) :
           /\ call' = [call EXCEPT ![r] = call'[r]]
           /\ call'[r] \in Job
           /\ call'[r].pallet = p /\ call'[r].source = source
           /\ call'[r].next \in {"approach", "load"}
           /\ call'[r].steps = << >> <=> call'[r].next \notin {"approach", "carry"}
<1>1. PICK source \in FindPallet(p) :
        call' = [call EXCEPT ![r] = SetOut(
            [next |-> "approach", crane |-> k, pallet |-> p, source |-> source, dest |-> dest,
             steps |-> << >>, straight |-> at[k] = LocationToPosition(Home(k))],
            FirstPlan(k, source), "approach", "load")]
  BY DEF RetrievePallet
<1> DEFINE j == [next |-> "approach", crane |-> k, pallet |-> p, source |-> source, dest |-> dest,
                 steps |-> << >>, straight |-> at[k] = LocationToPosition(Home(k))]
<1>2. source \in AllCells
  BY DEF FindPallet
<1>3. j \in Job
  <2>1. << >> \in Seq([axis : Axes, to : Int])
    OBVIOUS
  <2>2. (at[k] = LocationToPosition(Home(k))) \in BOOLEAN
    OBVIOUS
  <2> QED
    BY <1>2, <2>1, <2>2 DEF Job, Steps
<1>4. j.pallet = p /\ j.source = source
  OBVIOUS
<1>5. call' = [call EXCEPT ![r] = SetOut(j, FirstPlan(k, source), "approach", "load")]
  BY <1>1
<1> HIDE DEF j
<1>6. FirstPlan(k, source) \in Seq(PlanStep)
  BY <1>2, LocationTypes, PlanType DEF FirstPlan
<1>7. "approach" \in {"approach", "carry"} /\ "load" \in Steps \ {"approach", "carry"}
  BY DEF Steps
<1>8. LET s == SetOut(j, FirstPlan(k, source), "approach", "load") IN
        /\ s \in Job /\ s.pallet = p /\ s.source = source
        /\ s.next \in {"approach", "load"}
        /\ s.steps = << >> <=> s.next \notin {"approach", "carry"}
  BY <1>3, <1>4, <1>6, <1>7, SetOutType
<1>9. call'[r] = SetOut(j, FirstPlan(k, source), "approach", "load")
  BY <1>5 DEF PalletTypeOK
<1> QED
  BY <1>5, <1>8, <1>9

\* What a retrieval's own step does to its call and to the others'.
LEMMA StepCall ==
  ASSUME PalletTypeOK, NEW r \in Retrievers, RetrieverStep(r)
  PROVE  /\ call[r] \in Job
         /\ call' \in [Retrievers -> Job \cup {None}]
         /\ call'[r] # None =>
              /\ call'[r].crane = call[r].crane
              /\ call'[r].pallet = call[r].pallet
              /\ call'[r].source = call[r].source
              /\ call'[r].steps = << >> <=> call'[r].next \notin {"approach", "carry"}
         /\ \A q \in Retrievers \ {r} :
              /\ call'[q] = None <=> call[q] = None
              /\ call[q] # None =>
                   /\ call'[q].next = call[q].next /\ call'[q].steps = call[q].steps
                   /\ call'[q].crane = call[q].crane /\ call'[q].pallet = call[q].pallet
                   /\ call'[q].source = call[q].source
<1>1. call[r] \in Job
  BY DEF PalletTypeOK, RetrieverStep, Move, Abandon, LoadPallet, RemoveFromSource,
     NothingToRemove, UnloadPallet, PlaceAtDest, AtStep
<1>2. ASSUME Return(r)
      PROVE  /\ call' \in [Retrievers -> Job \cup {None}]
             /\ call'[r] = None /\ \A q \in Retrievers \ {r} : call'[q] = call[q]
  BY <1>2 DEF Return, PalletTypeOK
<1>3. ASSUME NEW next \in Steps \ {"approach", "carry"}, Continue(r, next),
             ~AtStep(r, {"approach", "carry"})
      PROVE  /\ call' \in [Retrievers -> Job \cup {None}]
             /\ call'[r].crane = call[r].crane
             /\ call'[r].pallet = call[r].pallet
             /\ call'[r].source = call[r].source
             /\ call'[r].steps = << >> /\ call'[r].next = next
             /\ \A q \in Retrievers \ {r} : call'[q] = call[q]
  <2>1. call' = [call EXCEPT ![r] = [call[r] EXCEPT !.next = next]]
    BY <1>3 DEF Continue
  <2>2. /\ [call[r] EXCEPT !.next = next] \in Job
        /\ [call[r] EXCEPT !.next = next].crane = call[r].crane
        /\ [call[r] EXCEPT !.next = next].pallet = call[r].pallet
        /\ [call[r] EXCEPT !.next = next].source = call[r].source
        /\ [call[r] EXCEPT !.next = next].steps = call[r].steps
        /\ [call[r] EXCEPT !.next = next].next = next
    BY <1>1 DEF Job
  <2>3. call[r].steps = << >>
    BY <1>1, <1>3, TransferAssumption DEF PalletTypeOK
  <2> QED
    BY <2>1, <2>2, <2>3 DEF PalletTypeOK
<1>4. CASE Move(r)
  <2>1. call[r].steps # << >> /\ call[r].next \in {"approach", "carry"}
    BY <1>4 DEF Move, AtStep, PalletTypeOK
  <2>2. call' = [q \in Retrievers |->
                  IF q = r THEN Advance(call[r]) ELSE Disturb(call[q], call[r].crane)]
    BY <1>4 DEF Move
  <2>3. /\ Advance(call[r]) \in Job
        /\ Advance(call[r]).crane = call[r].crane
        /\ Advance(call[r]).pallet = call[r].pallet
        /\ Advance(call[r]).source = call[r].source
        /\ Advance(call[r]).steps = << >> <=> Advance(call[r]).next \notin {"approach", "carry"}
    BY <1>1, <2>1, AdvanceType
  <2>4. \A q \in Retrievers : LET s == Disturb(call[q], call[r].crane) IN
          /\ s \in Job \cup {None}
          /\ s = None <=> call[q] = None
          /\ call[q] # None =>
               /\ s.next = call[q].next /\ s.steps = call[q].steps
               /\ s.crane = call[q].crane /\ s.pallet = call[q].pallet
               /\ s.source = call[q].source
    BY DisturbType DEF PalletTypeOK
  <2> QED
    BY <1>1, <2>2, <2>3, <2>4
<1>5. CASE Abandon(r) \/ NothingToRemove(r)
  BY <1>1, <1>2, <1>5 DEF Abandon, NothingToRemove
<1>6. CASE LoadPallet(r)
  <2>1. ~AtStep(r, {"approach", "carry"}) /\ "remove" \in Steps \ {"approach", "carry"}
    BY <1>6 DEF LoadPallet, AtStep, Steps
  <2>2. CASE Return(r)
    BY <1>1, <1>2, <2>2
  <2>3. CASE Continue(r, "remove")
    BY <1>1, <1>3, <2>1, <2>3
  <2> QED
    BY <1>6, <2>2, <2>3 DEF LoadPallet
<1>7. CASE RemoveFromSource(r)
  <2> DEFINE plan == Plan(call[r].source, call[r].dest)
             s == SetOut(call[r], plan, "carry", "unload")
  <2>1. CASE Return(r)
    BY <1>1, <1>2, <2>1
  <2>2. CASE call' = [call EXCEPT ![r] = s]
    <3>1. plan \in Seq(PlanStep)
      BY <1>1, LocationTypes, PlanType DEF Job
    <3>2. "carry" \in {"approach", "carry"} /\ "unload" \in Steps \ {"approach", "carry"}
      BY DEF Steps
    <3>3. /\ s \in Job
          /\ s.crane = call[r].crane /\ s.pallet = call[r].pallet /\ s.source = call[r].source
          /\ s.steps = << >> <=> s.next \notin {"approach", "carry"}
      BY <1>1, <3>1, <3>2, SetOutType
    <3> HIDE DEF s
    <3> QED
      BY <1>1, <2>2, <3>3 DEF PalletTypeOK
  <2> QED
    BY <1>7, <2>1, <2>2 DEF RemoveFromSource
<1>8. CASE UnloadPallet(r)
  <2>1. ~AtStep(r, {"approach", "carry"}) /\ "place" \in Steps \ {"approach", "carry"}
    BY <1>8 DEF UnloadPallet, AtStep, Steps
  <2>2. CASE Return(r)
    BY <1>1, <1>2, <2>2
  <2>3. CASE Continue(r, "place")
    BY <1>1, <1>3, <2>1, <2>3
  <2> QED
    BY <1>8, <2>2, <2>3 DEF UnloadPallet
<1>9. CASE PlaceAtDest(r)
  BY <1>1, <1>2, <1>9 DEF PlaceAtDest
<1> QED
  BY <1>4, <1>5, <1>6, <1>7, <1>8, <1>9 DEF RetrieverStep

\* What a retrieval does after each of its steps.
LEMMA NextStep ==
  ASSUME PalletTypeOK, NEW r \in Retrievers, RetrieverStep(r), call'[r] # None
  PROVE  \/ Move(r) /\ call'[r].next \in {call[r].next, IF call[r].next = "approach" THEN "load" ELSE "unload"}
         \/ LoadPallet(r) /\ call'[r].next = "remove" /\ load[call[r].crane] = None
         \/ RemoveFromSource(r) /\ call'[r].next \in {"carry", "unload"}
         \/ UnloadPallet(r) /\ call'[r].next = "place"
<1>1. call[r] \in Job
  BY StepCall
<1>2. ~Return(r)
  BY DEF Return, PalletTypeOK
<1>3. ASSUME NEW next, Continue(r, next) PROVE call'[r].next = next
  <2>1. call'[r] = [call[r] EXCEPT !.next = next]
    BY <1>3 DEF Continue, PalletTypeOK
  <2> QED
    BY <1>1, <2>1 DEF Job
<1>4. CASE Move(r)
  <2>1. call[r].steps # << >> /\ call[r].next \in {"approach", "carry"}
    BY <1>4 DEF Move, AtStep, PalletTypeOK
  <2>2. call'[r] = Advance(call[r])
    BY <1>4 DEF Move
  <2> QED
    BY <1>1, <1>4, <2>1, <2>2, AdvanceType
<1>5. CASE LoadPallet(r)
  <2>1. Continue(r, "remove") /\ load[call[r].crane] = None
    BY <1>2, <1>5 DEF LoadPallet
  <2> QED
    BY <1>3, <1>5, <2>1
<1>6. CASE RemoveFromSource(r)
  <2> DEFINE plan == Plan(call[r].source, call[r].dest)
             s == SetOut(call[r], plan, "carry", "unload")
  <2>1. call' = [call EXCEPT ![r] = s]
    BY <1>2, <1>6 DEF RemoveFromSource
  <2>2. plan \in Seq(PlanStep)
    BY <1>1, LocationTypes, PlanType DEF Job
  <2>3. "carry" \in {"approach", "carry"} /\ "unload" \in Steps \ {"approach", "carry"}
    BY DEF Steps
  <2>4. s.next \in {"carry", "unload"}
    BY <1>1, <2>2, <2>3, SetOutType
  <2> HIDE DEF s
  <2>5. call'[r] = s
    BY <2>1 DEF PalletTypeOK
  <2> QED
    BY <1>6, <2>4, <2>5
<1>7. CASE UnloadPallet(r)
  <2>1. Continue(r, "place")
    BY <1>2, <1>7 DEF UnloadPallet
  <2> QED
    BY <1>3, <1>7, <2>1
<1>8. ~Abandon(r) /\ ~NothingToRemove(r) /\ ~PlaceAtDest(r)
  BY <1>2 DEF Abandon, NothingToRemove, PlaceAtDest
<1> QED
  BY <1>4, <1>5, <1>6, <1>7, <1>8 DEF RetrieverStep

\* Steps preserve the types.
LEMMA TypeNext ==
  ASSUME PalletTypeOK, [TransferNext]_transferVars
  PROVE  PalletTypeOK'
<1>1. ASSUME NEW l \in Locations, NEW p \in Pallets, PlacePallet(l, p) PROVE PalletTypeOK'
  BY <1>1 DEF PlacePallet, Place, PalletTypeOK, craneVars, AtStep
<1>2. ASSUME NEW l \in Locations, NEW k \in Cranes, Reserve(l, k) \/ Release(l, k)
      PROVE  PalletTypeOK'
  BY <1>2 DEF Reserve, Release, PalletTypeOK, craneVars, ghostVars, AtStep
<1>3. ASSUME NEW r \in Retrievers, NEW k \in Cranes, NEW p \in Pallets, NEW dest \in Locations,
             RetrievePallet(r, k, p, dest)
      PROVE  PalletTypeOK'
  <2>1. /\ call' = [call EXCEPT ![r] = call'[r]] /\ call'[r] \in Job
        /\ call'[r].steps = << >> <=> call'[r].next \notin {"approach", "carry"}
    BY <1>3, RetrieveType
  <2>2. call' \in [Retrievers -> Job \cup {None}]
    BY <2>1 DEF PalletTypeOK
  <2>3. \A q \in Retrievers : q # r => call'[q] = call[q]
    BY <2>1 DEF PalletTypeOK
  <2>4. \A q \in Retrievers : call'[q] # None =>
          (call'[q].steps = << >> <=> ~(call'[q] # None /\ call'[q].next \in {"approach", "carry"}))
    BY <2>1, <2>3 DEF PalletTypeOK, AtStep
  <2>5. contested' \in BOOLEAN /\ UNCHANGED <<cells, reservedBy, load, at, outside>>
    BY <1>3 DEF RetrievePallet, cellVars, craneVars
  <2> QED
    BY <2>2, <2>4, <2>5 DEF PalletTypeOK, AtStep
<1>4. ASSUME NEW r \in Retrievers, RetrieverStep(r) PROVE PalletTypeOK'
  <2>1. /\ call[r] \in Job /\ call' \in [Retrievers -> Job \cup {None}]
        /\ \A q \in Retrievers : call'[q] # None =>
             (call'[q].steps = << >> <=> call'[q].next \notin {"approach", "carry"})
    BY <1>4, StepCall DEF PalletTypeOK, AtStep
  <2>2. /\ call[r].crane \in Cranes /\ call[r].pallet \in Pallets
        /\ call[r].steps \in Seq(PlanStep)
    BY <2>1 DEF Job, PlanStep
  <2>3. at' \in [Cranes -> [Axes -> Int]]
    <3>1. CASE Move(r)
      <4>1. Head(call[r].steps) \in PlanStep
        <5>1. call[r].steps # << >>
          BY <3>1 DEF Move, AtStep, PalletTypeOK
        <5> QED
          BY <2>2, <5>1, HeadTailProperties
      <4> DEFINE k == call[r].crane
                 todo == Head(call[r].steps)
      <4>2. k \in Cranes /\ todo.axis \in Axes /\ todo.to \in Int
        BY <2>2, <4>1 DEF PlanStep
      <4>3. at' = [at EXCEPT ![k] = [at[k] EXCEPT ![todo.axis] = todo.to]]
        BY <3>1 DEF Move
      <4> HIDE DEF k, todo
      <4>4. [at[k] EXCEPT ![todo.axis] = todo.to] \in [Axes -> Int]
        BY <4>2 DEF PalletTypeOK
      <4> QED
        BY <4>2, <4>3, <4>4 DEF PalletTypeOK
    <3>2. CASE ~Move(r)
      BY <1>4, <3>2 DEF RetrieverStep, Abandon, LoadPallet, RemoveFromSource, NothingToRemove,
         UnloadPallet, PlaceAtDest, craneVars, PalletTypeOK
    <3> QED
      BY <3>1, <3>2
  <2>4. /\ load' \in [Cranes -> Pallets \cup {None}]
        /\ cells' \in [AllCells -> Pallets \cup {None}]
        /\ reservedBy' \in [AllCells -> Cranes \cup {None}]
        /\ outside' \subseteq Pallets
        /\ contested' \in BOOLEAN
    BY <1>4, <2>2 DEF RetrieverStep, Move, Abandon, LoadPallet, RemoveFromSource, NothingToRemove,
       UnloadPallet, PlaceAtDest, Remove, Place, craneVars, cellVars, ghostVars, PalletTypeOK
  <2> QED
    BY <2>1, <2>3, <2>4 DEF PalletTypeOK, AtStep
<1>5. CASE UNCHANGED transferVars
  BY <1>5 DEF transferVars, cellVars, craneVars, ghostVars, PalletTypeOK, AtStep
<1> QED
  BY <1>1, <1>2, <1>3, <1>4, <1>5 DEF TransferNext

-------------------------------------------------------------------------------
(***************************************************************************)
(* One carrier per crane.                                                  *)
(***************************************************************************)

\* Steps preserve that one retrieval at a time carries on a crane.
LEMMA CarrierNext ==
  ASSUME PalletTypeOK, CarrierExclusive, [TransferNext]_transferVars
  PROVE  CarrierExclusive'
<1>1. ASSUME UNCHANGED load, \A q \in Retrievers, k \in Cranes :
               Carries(q, k)' => Carries(q, k) /\ call'[q].pallet = call[q].pallet
      PROVE  CarrierExclusive'
  BY <1>1 DEF CarrierExclusive
<1>2. ASSUME NEW l \in Locations, NEW p \in Pallets, PlacePallet(l, p) PROVE CarrierExclusive'
  BY <1>1, <1>2 DEF PlacePallet, craneVars, Carries, AtStep
<1>3. ASSUME NEW l \in Locations, NEW k \in Cranes, Reserve(l, k) \/ Release(l, k)
      PROVE  CarrierExclusive'
  BY <1>1, <1>3 DEF Reserve, Release, craneVars, Carries, AtStep
<1>4. ASSUME NEW r \in Retrievers, NEW k \in Cranes, NEW p \in Pallets, NEW dest \in Locations,
             RetrievePallet(r, k, p, dest)
      PROVE  CarrierExclusive'
  <2>1. call' = [call EXCEPT ![r] = call'[r]] /\ call'[r].next \in {"approach", "load"}
    BY <1>4, RetrieveType
  <2>2. \A q \in Retrievers : q # r => call'[q] = call[q]
    BY <2>1 DEF PalletTypeOK
  <2>3. UNCHANGED load
    BY <1>4 DEF RetrievePallet, craneVars
  <2> QED
    BY <1>1, <2>1, <2>2, <2>3 DEF Carries, AtStep
<1>5. ASSUME NEW r \in Retrievers, RetrieverStep(r) PROVE CarrierExclusive'
  <2>1. /\ call[r] \in Job
        /\ call'[r] # None => call'[r].crane = call[r].crane /\ call'[r].pallet = call[r].pallet
    BY <1>5, StepCall
  <2>2. \A q \in Retrievers \ {r}, k \in Cranes :
          Carries(q, k)' => Carries(q, k) /\ call'[q].pallet = call[q].pallet
    BY <1>5, StepCall DEF Carries, AtStep
  <2>3. call[r].crane \in Cranes /\ call[r].pallet \in Pallets /\ call[r].pallet # None
    BY <2>1, TransferAssumption DEF Job
  <2>4. CASE Move(r)
    <3>1. call'[r] = Advance(call[r])
      BY <2>4 DEF Move
    <3>2. call[r].steps # << >> /\ call[r].next \in {"approach", "carry"}
      BY <2>4 DEF Move, AtStep, PalletTypeOK
    <3>3. Advance(call[r]).next \in {call[r].next, IF call[r].next = "approach" THEN "load" ELSE "unload"}
      BY <2>1, <3>2, AdvanceType
    <3>4. \A k \in Cranes : Carries(r, k)' => Carries(r, k)
      BY <2>1, <2>4, <3>1, <3>2, <3>3 DEF Carries, AtStep, Move
    <3>5. UNCHANGED load
      BY <2>4 DEF Move
    <3>6. \A k \in Cranes : Carries(r, k)' => call'[r].pallet = call[r].pallet
      BY <2>1 DEF Carries, AtStep
    <3> QED
      BY <1>1, <2>2, <3>4, <3>5, <3>6
  <2>5. CASE Abandon(r) \/ NothingToRemove(r) \/ PlaceAtDest(r)
    <3>1. call'[r] = None /\ UNCHANGED load
      BY <2>5 DEF Abandon, NothingToRemove, PlaceAtDest, Return, craneVars, PalletTypeOK
    <3> QED
      BY <1>1, <2>2, <3>1 DEF Carries, AtStep
  <2>6. CASE LoadPallet(r)
    <3>1. CASE Return(r) /\ UNCHANGED load
      BY <1>1, <2>2, <3>1 DEF Carries, AtStep, Return, PalletTypeOK
    <3>2. CASE /\ load[call[r].crane] = None
               /\ load' = [load EXCEPT ![call[r].crane] = call[r].pallet]
      <4>1. \A q \in Retrievers \ {r} : ~Carries(q, call[r].crane)
        <5> SUFFICES ASSUME NEW q \in Retrievers \ {r}, Carries(q, call[r].crane) PROVE FALSE
          OBVIOUS
        <5>1. call[q] \in Job
          BY DEF Carries, AtStep, PalletTypeOK
        <5> QED
          BY <2>3, <3>2, <5>1, TransferAssumption DEF CarrierExclusive, Job
      <4>2. \A k \in Cranes : Carries(r, k)' => k = call[r].crane /\ call'[r].pallet = call[r].pallet
        BY <2>1 DEF Carries, AtStep
      <4>3. \A k \in Cranes : load'[k] = IF k = call[r].crane THEN call[r].pallet ELSE load[k]
        BY <2>3, <3>2 DEF PalletTypeOK
      <4> QED
        BY <2>2, <4>1, <4>2, <4>3 DEF CarrierExclusive
    <3> QED
      BY <2>6, <3>1, <3>2 DEF LoadPallet
  <2>7. CASE RemoveFromSource(r)
    <3>1. \A k \in Cranes : Carries(r, k)' => Carries(r, k) /\ call'[r].pallet = call[r].pallet
      BY <2>1, <2>7 DEF Carries, AtStep, RemoveFromSource
    <3> QED
      BY <1>1, <2>2, <2>7, <3>1 DEF RemoveFromSource, craneVars
  <2>8. CASE UnloadPallet(r)
    <3>1. Carries(r, call[r].crane)
      BY <2>8 DEF UnloadPallet, Carries, AtStep
    <3>2. \A k \in Cranes : ~Carries(r, k)'
      <4>1. CASE Return(r)
        BY <4>1 DEF Return, Carries, AtStep, PalletTypeOK
      <4>2. CASE Continue(r, "place")
        <5>1. call'[r] = [call[r] EXCEPT !.next = "place"]
          BY <4>2 DEF Continue, PalletTypeOK
        <5>2. call'[r].next = "place"
          BY <2>1, <5>1 DEF Job
        <5> QED
          BY <5>2 DEF Carries, AtStep
      <4> QED
        BY <2>8, <4>1, <4>2 DEF UnloadPallet
    <3>3. \A k \in Cranes : k # call[r].crane => load'[k] = load[k]
      BY <2>8 DEF UnloadPallet, PalletTypeOK
    <3> QED
      BY <2>2, <2>3, <3>1, <3>2, <3>3 DEF CarrierExclusive
  <2> QED
    BY <1>5, <2>4, <2>5, <2>6, <2>7, <2>8 DEF RetrieverStep
<1>6. CASE UNCHANGED transferVars
  BY <1>1, <1>6 DEF transferVars, craneVars, Carries, AtStep
<1> QED
  BY <1>2, <1>3, <1>4, <1>5, <1>6 DEF TransferNext

-------------------------------------------------------------------------------
(***************************************************************************)
(* Every pallet at one place.                                              *)
(***************************************************************************)

\* Retrieval r is loading pallet p at cell l: the cell does not count any more.
Takes(r, l, p) == Loading(r, l) /\ call[r].pallet = p

\* No pallet is recorded elsewhere than before.
AllStay == \A p \in Pallets, y \in Spots : Recorded(p, y)' <=> Recorded(p, y)

\* Pallet p, and no other, is recorded at z instead of x.
Goes(p, x, z) ==
  /\ x # z /\ Recorded(p, x) /\ ~Recorded(p, x)' /\ Recorded(p, z)'
  /\ \A y \in Spots \ {x, z} : Recorded(p, y)' <=> Recorded(p, y)
  /\ \A o \in Pallets \ {p}, y \in Spots : Recorded(o, y)' <=> Recorded(o, y)

\* Contention is for ever.
LEMMA ContestedStays ==
  ASSUME PalletTypeOK, [TransferNext]_transferVars
  PROVE  contested => contested'
BY DEF TransferNext, PlacePallet, Reserve, Release, RetrievePallet, RetrieverStep, Move,
   Abandon, LoadPallet, RemoveFromSource, NothingToRemove, UnloadPallet, PlaceAtDest,
   transferVars, ghostVars, PalletTypeOK

\* Retrievals that do not contend keep their pallets and cells apart.
LEMMA SourceNext ==
  ASSUME PalletTypeOK, CarrierExclusive, SourceHolds, [TransferNext]_transferVars
  PROVE  SourceHolds'
<1> SUFFICES ASSUME ~contested' PROVE SourceHolds'
  BY DEF SourceHolds
<1>1. ~contested
  BY ContestedStays
<1>2. ASSUME NEW l \in Locations, NEW p \in Pallets, PlacePallet(l, p) PROVE SourceHolds'
  <2>1. \A m \in AllCells : cells[m] # None => cells'[m] = cells[m]
    BY <1>2 DEF PlacePallet, CanPlace, Place, PalletTypeOK
  <2>2. UNCHANGED call
    BY <1>2 DEF PlacePallet
  <2>3. \A r \in Retrievers : call[r] # None => call[r].source \in AllCells /\ call[r].pallet # None
    BY TransferAssumption DEF PalletTypeOK, Job
  <2> QED
    BY <1>1, <2>1, <2>2, <2>3 DEF SourceHolds, AtStep
<1>3. ASSUME NEW l \in Locations, NEW k \in Cranes, Reserve(l, k) \/ Release(l, k)
      PROVE  SourceHolds'
  BY <1>1, <1>3 DEF Reserve, Release, SourceHolds, AtStep
<1>4. ASSUME NEW r \in Retrievers, NEW k \in Cranes, NEW p \in Pallets, NEW dest \in Locations,
             RetrievePallet(r, k, p, dest)
      PROVE  SourceHolds'
  <2>1. /\ call' = [call EXCEPT ![r] = call'[r]]
        /\ call'[r].pallet = p /\ call'[r].source \in FindPallet(p)
    BY <1>4, RetrieveType
  <2>2. \A q \in Retrievers : q # r => call'[q] = call[q]
    BY <2>1 DEF PalletTypeOK
  <2>3. UNCHANGED cells /\ \A q \in Retrievers : call[q] # None => call[q].pallet # p
    BY <1>4 DEF RetrievePallet, cellVars
  <2>4. cells[call'[r].source] = p
    BY <2>1 DEF FindPallet
  <2> QED
    BY <1>1, <2>1, <2>2, <2>3, <2>4 DEF SourceHolds, AtStep
<1>5. ASSUME NEW r \in Retrievers, RetrieverStep(r) PROVE SourceHolds'
  <2>1. /\ call[r] \in Job /\ call[r] # None
        /\ call'[r] # None => call'[r].pallet = call[r].pallet /\ call'[r].source = call[r].source
    BY <1>5, StepCall, TransferAssumption
  <2>2. \A q \in Retrievers \ {r} : call'[q] # None =>
          /\ call[q] # None /\ call'[q].next = call[q].next
          /\ call'[q].pallet = call[q].pallet /\ call'[q].source = call[q].source
    BY <1>5, StepCall
  <2>3. \A q \in Retrievers : call'[q] # None => call[q] # None /\ call'[q].pallet = call[q].pallet
    BY <2>1, <2>2
  <2>4. \A q \in Retrievers : AtStep(q, {"approach", "load", "remove"})' =>
          /\ cells'[call[q].source] = call[q].pallet
          /\ call'[q].source = call[q].source
    <3>1. CASE RemoveFromSource(r)
      <4>1. ~AtStep(r, {"approach", "load", "remove"})'
        BY <1>5, <3>1, NextStep DEF AtStep, RemoveFromSource, Move, LoadPallet, UnloadPallet
      <4>2. \A q \in Retrievers \ {r} : AtStep(q, {"approach", "load", "remove"})' =>
              /\ AtStep(q, {"approach", "load", "remove"})
              /\ cells[call[q].source] = call[q].pallet
              /\ call[q].pallet # call[r].pallet
        BY <1>1, <2>1, <2>2 DEF SourceHolds, AtStep
      <4>3. cells[call[r].source] = call[r].pallet
        BY <1>1, <3>1 DEF SourceHolds, RemoveFromSource, AtStep
      <4>4. \A m \in AllCells : m # call[r].source => cells'[m] = cells[m]
        BY <3>1 DEF RemoveFromSource, Remove, PalletTypeOK
      <4>5. \A q \in Retrievers : call[q] # None => call[q].source \in AllCells
        BY DEF PalletTypeOK, Job
      <4> QED
        BY <2>2, <4>1, <4>2, <4>3, <4>4, <4>5 DEF AtStep
    <3>2. CASE ~RemoveFromSource(r)
      <4>1. \A m \in AllCells : cells[m] # None => cells'[m] = cells[m]
        BY <1>5, <3>2 DEF RetrieverStep, Move, Abandon, LoadPallet, NothingToRemove, UnloadPallet,
           PlaceAtDest, CanPlace, Place, cellVars, PalletTypeOK
      <4>2. \A q \in Retrievers : AtStep(q, {"approach", "load", "remove"})' =>
              AtStep(q, {"approach", "load", "remove"}) /\ call'[q].source = call[q].source
        BY <1>5, <2>1, <2>2, <3>2, NextStep DEF AtStep, Move, LoadPallet
      <4>3. \A q \in Retrievers : call[q] # None => call[q].source \in AllCells /\ call[q].pallet # None
        BY TransferAssumption DEF PalletTypeOK, Job
      <4> QED
        BY <1>1, <4>1, <4>2, <4>3 DEF SourceHolds, AtStep
    <3> QED
      BY <3>1, <3>2
  <2> QED
    BY <1>1, <2>2, <2>3, <2>4 DEF SourceHolds, AtStep
<1>6. CASE UNCHANGED transferVars
  BY <1>1, <1>6 DEF transferVars, cellVars, SourceHolds, AtStep
<1> QED
  BY <1>2, <1>3, <1>4, <1>5, <1>6 DEF TransferNext

\* A cell that a retrieval is loading from is not empty, and nothing but the
\* step of the retrieval itself changes what it takes and what it holds.
LEMMA TakenCell ==
  ASSUME PalletTypeOK, SourceHolds, ~contested,
         NEW r \in Retrievers, NEW l \in AllCells, NEW p, Takes(r, l, p)
  PROVE  cells[l] = p /\ p \in Pallets /\ p # None
BY TransferAssumption DEF Takes, Loading, AtStep, SourceHolds, PalletTypeOK, Job

\* A step of one retrieval leaves the places of the others as they are.
LEMMA OthersStay ==
  ASSUME PalletTypeOK, NEW r \in Retrievers, RetrieverStep(r), NEW q \in Retrievers \ {r},
         NEW p
  PROVE  /\ \A l \in AllCells : Takes(q, l, p)' <=> Takes(q, l, p)
         /\ Holds(q, p)' <=> Holds(q, p)
<1>1. /\ call'[q] = None <=> call[q] = None
      /\ call[q] # None =>
           /\ call'[q].next = call[q].next /\ call'[q].pallet = call[q].pallet
           /\ call'[q].source = call[q].source
  BY StepCall
<1> QED
  BY <1>1 DEF Takes, Loading, Holds, AtStep

\* A step that leaves the books, the crane's load and what retrievals take and
\* hold alone leaves every pallet where it is.
LEMMA StayWhenSame ==
  ASSUME UNCHANGED <<cells, load, outside>>,
         \A q \in Retrievers, p \in Pallets :
           /\ \A l \in AllCells : Takes(q, l, p)' <=> Takes(q, l, p)
           /\ Holds(q, p)' <=> Holds(q, p)
  PROVE  AllStay
BY DEF AllStay, Recorded, Takes

\* The places are different things.
LEMMA SpotsApart ==
  /\ None \notin AllCells \cup Cranes \cup Retrievers
  /\ AllCells \cap Cranes = {} /\ AllCells \cap Retrievers = {} /\ Cranes \cap Retrievers = {}
BY TransferAssumption

\* As long as retrievals do not contend, a step moves at most one pallet, along
\* one of the ledger's ways.
LEMMA MovesOne ==
  ASSUME PalletTypeOK, CarrierExclusive, SourceHolds, [TransferNext]_transferVars, ~contested'
  PROVE  \/ AllStay
         \/ \E p \in Pallets, x, z \in Spots : Ledger!Way(x, z) /\ Goes(p, x, z)
<1>1. ~contested
  BY ContestedStays
<1>2. ASSUME NEW l \in Locations, NEW p \in Pallets, PlacePallet(l, p)
      PROVE  Goes(p, None, l) /\ l \in Spots /\ Ledger!Way(None, l)
  <2>1. /\ l \in AllCells /\ cells[l] = None /\ p \in outside /\ p # None
        /\ UNCHANGED <<load, call>> /\ outside' = outside \ {p}
        /\ \A m \in AllCells : cells'[m] = IF m = l THEN p ELSE cells[m]
    BY <1>2, TransferAssumption DEF PlacePallet, CanPlace, Place, craneVars, PalletTypeOK
  <2>2. \A q \in Retrievers, o \in Pallets : ~Takes(q, l, o)
    BY <1>1, <2>1, TakenCell
  <2>3. \A q \in Retrievers, o \in Pallets :
          /\ \A m \in AllCells : Takes(q, m, o)' <=> Takes(q, m, o)
          /\ Holds(q, o)' <=> Holds(q, o)
    BY <2>1 DEF Takes, Loading, Holds, AtStep
  <2>4. \A o \in Pallets, y \in AllCells \ {l} : Recorded(o, y)' <=> Recorded(o, y)
    BY <2>1, <2>3, SpotsApart DEF Recorded, Takes
  <2>5. \A o \in Pallets, y \in Cranes \cup Retrievers : Recorded(o, y)' <=> Recorded(o, y)
    BY <2>1, <2>3, SpotsApart DEF Recorded
  <2>6. Recorded(p, None) /\ ~Recorded(p, None)'
    BY <2>1, SpotsApart DEF Recorded
  <2>7. \A o \in Pallets \ {p} : Recorded(o, None)' <=> Recorded(o, None)
    BY <2>1, SpotsApart DEF Recorded
  <2>8. Recorded(p, l)' /\ \A o \in Pallets \ {p} : ~Recorded(o, l)' /\ ~Recorded(o, l)
    BY <2>1, <2>2, <2>3, SpotsApart, TransferAssumption DEF Recorded, Takes
  <2> QED
    BY <2>1, <2>4, <2>5, <2>6, <2>7, <2>8, SpotsApart DEF Goes, Spots, Ledger!Way
<1>3. ASSUME NEW l \in Locations, NEW k \in Cranes, Reserve(l, k) \/ Release(l, k)
      PROVE  AllStay
  BY <1>3, StayWhenSame DEF Reserve, Release, craneVars, ghostVars, Takes, Loading, Holds, AtStep
<1>4. ASSUME NEW r \in Retrievers, NEW k \in Cranes, NEW p \in Pallets, NEW dest \in Locations,
             RetrievePallet(r, k, p, dest)
      PROVE  AllStay
  <2>1. /\ call' = [call EXCEPT ![r] = call'[r]]
        /\ call'[r].next \in {"approach", "load"}
    BY <1>4, RetrieveType
  <2>2. call[r] = None /\ UNCHANGED <<cells, load, outside>>
    BY <1>4 DEF RetrievePallet, cellVars, craneVars
  <2>3. \A q \in Retrievers : q # r => call'[q] = call[q]
    BY <2>1 DEF PalletTypeOK
  <2> QED
    BY <2>1, <2>2, <2>3, StayWhenSame DEF Takes, Loading, Holds, AtStep
<1>5. ASSUME NEW r \in Retrievers, RetrieverStep(r)
      PROVE  \/ AllStay
             \/ \E p \in Pallets, x, z \in Spots : Ledger!Way(x, z) /\ Goes(p, x, z)
  <2>1. call[r] \in Job /\ call[r] # None
    BY <1>5, StepCall, TransferAssumption
  <2> PICK p \in Pallets, k \in Cranes, s \in AllCells, d \in Locations :
        p = call[r].pallet /\ k = call[r].crane /\ s = call[r].source /\ d = call[r].dest
    BY <2>1 DEF Job
  <2>2. /\ p # None /\ p = call[r].pallet /\ k = call[r].crane
        /\ s = call[r].source /\ d = call[r].dest
        /\ call'[r] # None => call'[r].pallet = p /\ call'[r].source = s
    BY <1>5, StepCall, TransferAssumption
  <2>3. \A q \in Retrievers \ {r}, o \in Pallets :
          /\ \A l \in AllCells : Takes(q, l, o)' <=> Takes(q, l, o)
          /\ Holds(q, o)' <=> Holds(q, o)
    BY <1>5, OthersStay
  <2>4. \A q \in Retrievers \ {r}, l \in AllCells : ~Takes(q, l, p) /\ ~Holds(q, p)
    BY <1>1, <2>1, <2>2 DEF SourceHolds, Takes, Loading, Holds, AtStep
  <2>5. CASE Move(r) \/ Abandon(r) \/ (LoadPallet(r) /\ Return(r) /\ UNCHANGED load)
    <3>1. UNCHANGED <<cells, outside>>
      BY <2>5 DEF Move, Abandon, LoadPallet, cellVars, ghostVars
    <3>2. UNCHANGED load
      BY <2>5 DEF Move, Abandon, craneVars
    <3>3. \A o \in Pallets, l \in AllCells : ~Takes(r, l, o) /\ ~Holds(r, o)
      BY <2>5 DEF Move, Abandon, LoadPallet, Takes, Loading, Holds, AtStep
    <3>4. \A o \in Pallets, l \in AllCells : ~Takes(r, l, o)' /\ ~Holds(r, o)'
      <4>1. CASE Return(r)
        BY <4>1 DEF Return, PalletTypeOK, Takes, Loading, Holds, AtStep
      <4>2. CASE Move(r) /\ call'[r] # None
        <5>1. call'[r].next \in {"approach", "carry", "load", "unload"}
          <6>1. call[r].steps # << >> /\ call[r].next \in {"approach", "carry"}
            BY <4>2 DEF Move, AtStep, PalletTypeOK
          <6>2. call'[r] = Advance(call[r])
            BY <4>2 DEF Move
          <6> QED
            BY <2>1, <2>2, <6>1, <6>2, AdvanceType
        <5> QED
          BY <5>1 DEF Takes, Loading, Holds, AtStep
      <4>3. CASE call'[r] = None
        BY <4>3 DEF Takes, Loading, Holds, AtStep
      <4> QED
        BY <2>5, <4>1, <4>2, <4>3 DEF Abandon
    <3> QED
      BY <2>3, <3>1, <3>2, <3>3, <3>4, StayWhenSame
  <2>6. CASE /\ LoadPallet(r) /\ Continue(r, "remove") /\ load[k] = None
             /\ load' = [load EXCEPT ![k] = p]
    <3> SUFFICES Goes(p, s, k) /\ Ledger!Way(s, k)
      BY DEF Spots
    <3>1. /\ load[k] = None /\ UNCHANGED <<cells, outside>> /\ Continue(r, "remove")
          /\ \A y \in Cranes : load'[y] = IF y = k THEN p ELSE load[y]
      BY <2>2, <2>6 DEF LoadPallet, cellVars, ghostVars, PalletTypeOK
    <3>2. call'[r] = [call[r] EXCEPT !.next = "remove"]
      BY <3>1 DEF Continue, PalletTypeOK
    <3>3. call'[r].next = "remove" /\ call'[r] # None
      BY <2>1, <2>2, <3>2, TransferAssumption DEF Job, Steps
    <3>4. cells[s] = p
      BY <1>1, <2>1, <2>2, <2>6 DEF SourceHolds, LoadPallet, AtStep
    <3>5. \A o \in Pallets, l \in AllCells : ~Takes(r, l, o) /\ ~Holds(r, o)
      BY <2>6 DEF LoadPallet, Takes, Loading, Holds, AtStep
    <3>6. \A o \in Pallets, l \in AllCells : (Takes(r, l, o)' <=> o = p /\ l = s) /\ ~Holds(r, o)'
      BY <2>1, <2>2, <3>3 DEF Takes, Loading, Holds, AtStep
    <3>7. Recorded(p, s) /\ ~Recorded(p, s)'
      BY <2>2, <2>4, <3>4, <3>5, <3>6, SpotsApart DEF Recorded, Takes
    <3>8. Recorded(p, k)' /\ \A o \in Pallets \ {p} : Recorded(o, k)' <=> Recorded(o, k)
      BY <2>2, <3>1, SpotsApart, TransferAssumption DEF Recorded
    <3>9. \A o \in Pallets, y \in AllCells : <<o, y>> # <<p, s>> => (Recorded(o, y)' <=> Recorded(o, y))
      BY <2>3, <3>1, <3>5, <3>6, SpotsApart DEF Recorded, Takes
    <3>10. \A o \in Pallets, y \in (Cranes \ {k}) \cup Retrievers \cup {None} :
             Recorded(o, y)' <=> Recorded(o, y)
      BY <2>3, <3>1, <3>5, <3>6, SpotsApart DEF Recorded
    <3> QED
      BY <2>2, <3>7, <3>8, <3>9, <3>10, SpotsApart DEF Goes, Spots, Ledger!Way
  <2>7. CASE RemoveFromSource(r)
    <3>1. /\ UNCHANGED <<load, outside>>
          /\ \A y \in AllCells : cells'[y] = IF y = s THEN None ELSE cells[y]
      BY <2>2, <2>7 DEF RemoveFromSource, Remove, craneVars, ghostVars, PalletTypeOK
    <3>2. cells[s] = p
      BY <1>1, <2>1, <2>2, <2>7 DEF SourceHolds, RemoveFromSource, AtStep
    <3>3. \A o \in Pallets, l \in AllCells : (Takes(r, l, o) <=> o = p /\ l = s) /\ ~Holds(r, o)
      BY <2>1, <2>2, <2>7 DEF RemoveFromSource, Takes, Loading, Holds, AtStep
    <3>4. \A o \in Pallets, l \in AllCells : ~Takes(r, l, o)' /\ ~Holds(r, o)'
      BY <1>5, <2>7, NextStep DEF RemoveFromSource, Move, LoadPallet, UnloadPallet, Takes, Loading,
         Holds, AtStep
    <3>5. \A o \in Pallets, y \in AllCells : Recorded(o, y)' <=> Recorded(o, y)
      BY <2>2, <2>3, <3>1, <3>2, <3>3, <3>4, SpotsApart, TransferAssumption DEF Recorded, Takes
    <3>6. \A o \in Pallets, y \in Cranes \cup Retrievers \cup {None} : Recorded(o, y)' <=> Recorded(o, y)
      BY <2>3, <3>1, <3>3, <3>4, SpotsApart DEF Recorded
    <3> QED
      BY <3>5, <3>6 DEF AllStay, Spots
  <2>8. CASE NothingToRemove(r)
    BY <1>1, <2>1, <2>2, <2>8 DEF SourceHolds, NothingToRemove, AtStep
  <2>9. CASE UnloadPallet(r)
    <3> SUFFICES Goes(p, k, r) /\ Ledger!Way(k, r)
      BY DEF Spots
    <3>1. load[k] = p
      BY <2>2, <2>9 DEF UnloadPallet, CarrierExclusive, Carries, AtStep
    <3>2. /\ UNCHANGED <<cells, outside>> /\ Continue(r, "place")
          /\ \A y \in Cranes : load'[y] = IF y = k THEN None ELSE load[y]
      BY <2>2, <2>9, <3>1 DEF UnloadPallet, cellVars, ghostVars, PalletTypeOK
    <3>3. call'[r] = [call[r] EXCEPT !.next = "place"]
      BY <3>2 DEF Continue, PalletTypeOK
    <3>4. call'[r].next = "place" /\ call'[r] # None
      BY <2>1, <2>2, <3>3, TransferAssumption DEF Job, Steps
    <3>5. \A o \in Pallets, l \in AllCells : ~Takes(r, l, o) /\ ~Holds(r, o)
      BY <2>9 DEF UnloadPallet, Takes, Loading, Holds, AtStep
    <3>6. \A o \in Pallets, l \in AllCells : ~Takes(r, l, o)' /\ (Holds(r, o)' <=> o = p)
      BY <2>1, <2>2, <3>4 DEF Takes, Loading, Holds, AtStep
    <3>7. \A o \in Pallets, y \in AllCells \cup {None} : Recorded(o, y)' <=> Recorded(o, y)
      BY <2>3, <3>2, <3>5, <3>6, SpotsApart DEF Recorded, Takes
    <3>8. \A o \in Pallets, y \in Cranes \ {k} : Recorded(o, y)' <=> Recorded(o, y)
      BY <2>2, <3>2, SpotsApart DEF Recorded
    <3>9. \A o \in Pallets : (Recorded(o, k) <=> o = p) /\ ~Recorded(o, k)'
      BY <2>2, <3>1, <3>2, SpotsApart, TransferAssumption DEF Recorded
    <3>10. \A o \in Pallets : (Recorded(o, r)' <=> o = p) /\ ~Recorded(o, r)
      BY <2>2, <3>5, <3>6, SpotsApart DEF Recorded
    <3>11. \A o \in Pallets, y \in Retrievers \ {r} : Recorded(o, y)' <=> Recorded(o, y)
      BY <2>3, <3>2, SpotsApart DEF Recorded
    <3> QED
      BY <2>2, <3>7, <3>8, <3>9, <3>10, <3>11, SpotsApart DEF Goes, Spots, Ledger!Way
  <2>10. CASE PlaceAtDest(r)
    <3>1. UNCHANGED load /\ call'[r] = None
      BY <2>10 DEF PlaceAtDest, craneVars, Return, PalletTypeOK
    <3>2. \A o \in Pallets, l \in AllCells : ~Takes(r, l, o) /\ (Holds(r, o) <=> o = p)
      BY <2>1, <2>2, <2>10 DEF PlaceAtDest, Takes, Loading, Holds, AtStep
    <3>3. \A o \in Pallets, l \in AllCells : ~Takes(r, l, o)' /\ ~Holds(r, o)'
      BY <3>1 DEF Takes, Loading, Holds, AtStep
    <3>4. \A o \in Pallets, y \in Cranes \cup (Retrievers \ {r}) : Recorded(o, y)' <=> Recorded(o, y)
      BY <2>3, <3>1, SpotsApart DEF Recorded
    <3>5. \A o \in Pallets : (Recorded(o, r) <=> o = p) /\ ~Recorded(o, r)'
      BY <2>2, <3>2, <3>3, SpotsApart DEF Recorded
    <3>6. CASE CanPlace(d) /\ Place(d, p) /\ UNCHANGED outside
      <4>1. /\ d \in AllCells /\ cells[d] = None
            /\ \A y \in AllCells : cells'[y] = IF y = d THEN p ELSE cells[y]
        BY <3>6 DEF CanPlace, Place, PalletTypeOK
      <4>2. \A q \in Retrievers, o \in Pallets : ~Takes(q, d, o)
        BY <1>1, <4>1, TakenCell
      <4>3. \A o \in Pallets, y \in (AllCells \ {d}) \cup {None} : Recorded(o, y)' <=> Recorded(o, y)
        BY <2>3, <3>2, <3>3, <3>6, <4>1, SpotsApart DEF Recorded, Takes
      <4>4. \A q \in Retrievers, o \in Pallets : ~Takes(q, d, o)'
        BY <2>3, <3>3, <4>1, <4>2
      <4>5. \A o \in Pallets : (Recorded(o, d)' <=> o = p) /\ ~Recorded(o, d)
        BY <2>2, <4>1, <4>4, SpotsApart, TransferAssumption DEF Recorded, Takes
      <4>6. Goes(p, r, d) /\ Ledger!Way(r, d) /\ d \in Spots
        BY <2>2, <3>4, <3>5, <4>1, <4>3, <4>5, SpotsApart DEF Goes, Spots, Ledger!Way
      <4> QED
        BY <2>2, <4>6 DEF Spots
    <3>7. CASE UNCHANGED cells /\ outside' = outside \cup {p}
      <4>1. \A o \in Pallets, y \in AllCells : Recorded(o, y)' <=> Recorded(o, y)
        BY <2>3, <3>2, <3>3, <3>7, SpotsApart DEF Recorded, Takes
      <4>2. Recorded(p, None)' /\ \A o \in Pallets \ {p} : Recorded(o, None)' <=> Recorded(o, None)
        BY <2>2, <3>7, SpotsApart DEF Recorded
      <4>3. Goes(p, r, None) /\ Ledger!Way(r, None)
        BY <2>2, <3>4, <3>5, <4>1, <4>2, SpotsApart DEF Goes, Spots, Ledger!Way
      <4> QED
        BY <2>2, <4>3 DEF Spots
    <3> QED
      BY <2>2, <2>10, <3>6, <3>7 DEF PlaceAtDest, cellVars
  <2> QED
    BY <1>5, <2>2, <2>5, <2>6, <2>7, <2>8, <2>9, <2>10 DEF RetrieverStep, LoadPallet
<1>6. CASE UNCHANGED transferVars
  BY <1>6, StayWhenSame DEF transferVars, cellVars, craneVars, ghostVars, Takes, Loading, Holds, AtStep
<1> QED
  BY <1>2, <1>3, <1>4, <1>5, <1>6 DEF TransferNext, Spots


\* At first no pallet is recorded in two places.
LEMMA OnePlaceInit == TransferInit => OnePlace
<1> SUFFICES ASSUME TransferInit, NEW p \in Pallets
             PROVE  Recorded(p, None) /\ \A y \in Spots : Recorded(p, y) => y = None
  BY DEF OnePlace, Spots
<1>1. p # None
  BY TransferAssumption
<1> QED
  BY <1>1 DEF TransferInit, Recorded, Holds, AtStep

\* Steps preserve that a pallet is recorded in one place.
LEMMA OnePlaceNext ==
  ASSUME TransferInv, [TransferNext]_transferVars
  PROVE  OnePlace'
<1> SUFFICES ASSUME ~contested', NEW o \in Pallets
             PROVE  \E x \in Spots : Recorded(o, x)' /\ \A y \in Spots : Recorded(o, y)' => y = x
  BY DEF OnePlace
<1>1. ~contested
  BY ContestedStays DEF TransferInv
<1>2. PICK w \in Spots : Recorded(o, w) /\ \A y \in Spots : Recorded(o, y) => y = w
  BY <1>1 DEF TransferInv, OnePlace
<1>3. CASE AllStay
  BY <1>2, <1>3 DEF AllStay
<1>4. ASSUME NEW p \in Pallets, NEW x \in Spots, NEW z \in Spots, Goes(p, x, z)
      PROVE  \E v \in Spots : Recorded(o, v)' /\ \A y \in Spots : Recorded(o, y)' => y = v
  <2>1. CASE o = p
    BY <1>2, <1>4, <2>1 DEF Goes
  <2>2. CASE o # p
    BY <1>2, <1>4, <2>2 DEF Goes
  <2> QED
    BY <2>1, <2>2
<1> QED
  BY <1>3, <1>4, MovesOne DEF TransferInv

-------------------------------------------------------------------------------
(***************************************************************************)
(* A retrieval that has its crane for itself.                              *)
(***************************************************************************)

\* With the crane at pos, job j loads at its source and unloads at its
\* destination: what is left of its plan leads there, or it is there.
Heading(j, pos) ==
  /\ j.next = "approach" => Leads(j.steps, pos, LocationToPosition(j.source))
  /\ j.next \in {"load", "remove"} => pos = LocationToPosition(j.source)
  /\ j.next = "carry" => Leads(j.steps, pos, LocationToPosition(j.dest))
  /\ j.next = "unload" => pos = LocationToPosition(j.dest)

\* The inductive invariant: nothing has led a straight retrieval astray.
OnTrack ==
  \A r \in Retrievers :
    call[r] # None /\ call[r].straight => Heading(call[r], at[call[r].crane])

StraightInv == PalletTypeOK /\ OnTrack

\* Where a job has to go has a position.
LEMMA JobPositions ==
  ASSUME NEW j \in Job
  PROVE  /\ LocationToPosition(j.source) \in [Axes -> Int]
         /\ LocationToPosition(j.dest) \in [Axes -> Int]
<1>1. j.source \in Location /\ j.dest \in Location
  BY LocationTypes DEF Job
<1> QED
  BY <1>1, PositionType

\* A move that starts with a plan from where the crane is heads for the goal.
LEMMA SetOutHeading ==
  ASSUME NEW j \in Job, NEW plan \in Seq(PlanStep), NEW pos \in [Axes -> Int]
  PROVE  /\ Leads(plan, pos, LocationToPosition(j.source))
              => Heading(SetOut(j, plan, "approach", "load"), pos)
         /\ Leads(plan, pos, LocationToPosition(j.dest))
              => Heading(SetOut(j, plan, "carry", "unload"), pos)
<1> DEFINE s == LocationToPosition(j.source)
           d == LocationToPosition(j.dest)
<1>1. s \in [Axes -> Int] /\ d \in [Axes -> Int]
  BY JobPositions
<1> HIDE DEF s, d
<1>2. plan = << >> => (Leads(plan, pos, s) => pos = s) /\ (Leads(plan, pos, d) => pos = d)
  BY <1>1, LeadsNowhere
<1>3. ASSUME NEW moving \in Steps, NEW after \in Steps
      PROVE  LET o == SetOut(j, plan, moving, after) IN
             /\ o.next = IF plan = << >> THEN after ELSE moving
             /\ o.steps = plan /\ o.source = j.source /\ o.dest = j.dest
  BY DEF SetOut, Job
<1>4. "approach" \in Steps /\ "load" \in Steps /\ "carry" \in Steps /\ "unload" \in Steps
  BY DEF Steps
<1>5. ASSUME Leads(plan, pos, s) PROVE Heading(SetOut(j, plan, "approach", "load"), pos)
  <2> DEFINE o == SetOut(j, plan, "approach", "load")
  <2>1. /\ o.next = IF plan = << >> THEN "load" ELSE "approach"
        /\ o.steps = plan /\ LocationToPosition(o.source) = s
    BY <1>3, <1>4 DEF s
  <2> HIDE DEF o
  <2> QED
    BY <1>2, <1>5, <2>1 DEF Heading, o
<1>6. ASSUME Leads(plan, pos, d) PROVE Heading(SetOut(j, plan, "carry", "unload"), pos)
  <2> DEFINE o == SetOut(j, plan, "carry", "unload")
  <2>1. /\ o.next = IF plan = << >> THEN "unload" ELSE "carry"
        /\ o.steps = plan /\ LocationToPosition(o.dest) = d
    BY <1>3, <1>4 DEF d
  <2> HIDE DEF o
  <2> QED
    BY <1>2, <1>6, <2>1 DEF Heading, o
<1> QED
  BY <1>5, <1>6 DEF s, d

\* The plan's next step leaves the job on its way, or where the plan ends.
LEMMA AdvanceHeading ==
  ASSUME NEW j \in Job, j.steps # << >>, j.next \in {"approach", "carry"},
         NEW pos \in [Axes -> Int], Heading(j, pos)
  PROVE  Heading(Advance(j), [pos EXCEPT ![Head(j.steps).axis] = Head(j.steps).to])
<1> DEFINE steps == j.steps
           rest == Tail(steps)
           next == [pos EXCEPT ![Head(steps).axis] = Head(steps).to]
           goal == IF j.next = "approach" THEN j.source ELSE j.dest
           t == LocationToPosition(goal)
           o == Advance(j)
<1>1. /\ steps \in Seq([axis : Axes, to : Int]) /\ steps # << >>
      /\ rest \in Seq(PlanStep) /\ Head(steps) \in PlanStep
  BY HeadTailProperties DEF Job, PlanStep
<1>2. t \in [Axes -> Int]
  BY JobPositions
<1>3. next \in [Axes -> Int]
  <2>1. Head(steps).axis \in Axes /\ Head(steps).to \in Int
    BY <1>1 DEF PlanStep
  <2> QED
    BY <2>1
<1>4. Leads(steps, pos, t)
  BY DEF Heading
<1>5. /\ o.steps = rest /\ o.source = j.source /\ o.dest = j.dest
      /\ o.next = IF rest # << >> THEN j.next ELSE IF j.next = "approach" THEN "load" ELSE "unload"
  BY DEF Advance, Job
<1>6. /\ j.next = "approach" => t = LocationToPosition(o.source)
      /\ j.next = "carry" => t = LocationToPosition(o.dest)
  BY <1>5
<1>7. next = [pos EXCEPT ![Head(j.steps).axis] = Head(j.steps).to]
  OBVIOUS
<1> HIDE DEF steps, t, o
<1>8. Leads(rest, next, t)
  BY <1>1, <1>4, LeadsOn
<1> HIDE DEF rest, next
<1>9. rest = << >> => next = t
  BY <1>1, <1>2, <1>3, <1>8, LeadsNowhere
<1>10. Heading(o, next)
  BY <1>5, <1>6, <1>8, <1>9 DEF Heading
<1> QED
  BY <1>7, <1>10 DEF o

\* No retrieval is on its way at first.
LEMMA StraightInit == TransferInit => StraightInv
<1> SUFFICES ASSUME TransferInit PROVE StraightInv
  OBVIOUS
<1>1. OnTrack
  BY DEF TransferInit, OnTrack
<1> QED
  BY <1>1, TypeInit DEF StraightInv

\* Every step keeps a straight retrieval on its way: its own moves follow its
\* plan, and another retrieval that moves the crane ends its being straight.
LEMMA StraightNext == StraightInv /\ [TransferNext]_transferVars => StraightInv'
<1> SUFFICES ASSUME StraightInv, [TransferNext]_transferVars PROVE StraightInv'
  OBVIOUS
<1>0. PalletTypeOK /\ PalletTypeOK' /\ OnTrack
  BY TypeNext DEF StraightInv
<1>1. ASSUME UNCHANGED <<call, at>> PROVE OnTrack'
  BY <1>0, <1>1 DEF OnTrack, Heading
<1>2. ASSUME NEW r \in Retrievers, UNCHANGED at,
             \A q \in Retrievers \ {r} : call'[q] = call[q],
             call'[r] # None /\ call'[r].straight => Heading(call'[r], at[call'[r].crane])
      PROVE  OnTrack'
  <2>1. ASSUME NEW q \in Retrievers, call'[q] # None, call'[q].straight
        PROVE  Heading(call'[q], at[call'[q].crane])
    <3>1. CASE q = r
      BY <1>2, <2>1, <3>1
    <3>2. CASE q # r
      BY <1>0, <1>2, <2>1, <3>2 DEF OnTrack
    <3> QED
      BY <3>1, <3>2
  <2>2. ASSUME NEW q \in Retrievers, call'[q] # None, call'[q].straight
        PROVE  Heading(call'[q], at'[call'[q].crane])
    BY <1>2, <2>1, <2>2
  <2> QED
    BY <2>2 DEF OnTrack, Heading
<1>3. ASSUME NEW l \in Locations, NEW p \in Pallets, PlacePallet(l, p) PROVE OnTrack'
  BY <1>1, <1>3 DEF PlacePallet, craneVars
<1>4. ASSUME NEW l \in Locations, NEW k \in Cranes, Reserve(l, k) \/ Release(l, k)
      PROVE  OnTrack'
  BY <1>1, <1>4 DEF Reserve, Release, craneVars
<1>5. ASSUME NEW r \in Retrievers, NEW k \in Cranes, NEW p \in Pallets, NEW dest \in Locations,
             RetrievePallet(r, k, p, dest)
      PROVE  OnTrack'
  <2>1. PICK source \in AllCells :
          call' = [call EXCEPT ![r] = SetOut(
              [next |-> "approach", crane |-> k, pallet |-> p, source |-> source, dest |-> dest,
               steps |-> << >>, straight |-> at[k] = LocationToPosition(Home(k))],
              FirstPlan(k, source), "approach", "load")]
    BY <1>5 DEF RetrievePallet, FindPallet
  <2> DEFINE j == [next |-> "approach", crane |-> k, pallet |-> p, source |-> source,
                   dest |-> dest, steps |-> << >>,
                   straight |-> at[k] = LocationToPosition(Home(k))]
             plan == FirstPlan(k, source)
             o == SetOut(j, plan, "approach", "load")
  <2>2. j \in Job
    <3>1. << >> \in Seq([axis : Axes, to : Int])
      OBVIOUS
    <3>2. (at[k] = LocationToPosition(Home(k))) \in BOOLEAN
      OBVIOUS
    <3> QED
      BY <3>1, <3>2 DEF Job, Steps
  <2>3. j.crane = k /\ j.source = source /\ (j.straight => at[k] = LocationToPosition(Home(k)))
    OBVIOUS
  <2>4. call' = [call EXCEPT ![r] = o] /\ UNCHANGED at
    BY <1>5, <2>1 DEF RetrievePallet, craneVars
  <2> HIDE DEF j
  <2>5. Home(k) \in Location /\ source \in Location
    BY LocationTypes
  <2>6. plan \in Seq(PlanStep)
    BY <2>5, PlanType DEF FirstPlan
  <2>7. j.straight => Leads(plan, at[k], LocationToPosition(j.source))
    BY <2>3, <2>5, PlanLeads DEF FirstPlan
  <2>8. at[k] \in [Axes -> Int]
    BY <1>0 DEF PalletTypeOK
  <2>9. j.straight => Heading(o, at[k])
    BY <2>2, <2>6, <2>7, <2>8, SetOutHeading
  <2>10. o.straight = j.straight /\ o.crane = k
    BY <2>2, <2>3 DEF SetOut, Job
  <2> HIDE DEF o
  <2>11. call'[r] = o /\ \A q \in Retrievers \ {r} : call'[q] = call[q]
    BY <1>0, <2>4 DEF PalletTypeOK
  <2> QED
    BY <1>2, <2>4, <2>9, <2>10, <2>11
<1>6. ASSUME NEW r \in Retrievers, RetrieverStep(r) PROVE OnTrack'
  <2>1. call[r] \in Job /\ call[r] # None
    BY <1>0, <1>6, StepCall, TransferAssumption
  <2>2. ASSUME Return(r), UNCHANGED at PROVE OnTrack'
    <3>1. call'[r] = None /\ \A q \in Retrievers \ {r} : call'[q] = call[q]
      BY <1>0, <2>2 DEF Return, PalletTypeOK
    <3> QED
      BY <1>2, <2>2, <3>1
  <2>3. ASSUME NEW next \in {"remove", "place"}, Continue(r, next), UNCHANGED at,
               next = "remove" => call[r].next = "load"
        PROVE  OnTrack'
    <3>1. /\ call'[r] = [call[r] EXCEPT !.next = next]
          /\ \A q \in Retrievers \ {r} : call'[q] = call[q]
      BY <1>0, <2>3 DEF Continue, PalletTypeOK
    <3>2. /\ call'[r].next = next /\ call'[r].crane = call[r].crane
          /\ call'[r].source = call[r].source /\ call'[r].straight = call[r].straight
      BY <2>1, <3>1 DEF Job
    <3>3. call[r].straight => Heading(call[r], at[call[r].crane])
      BY <1>0, <2>1 DEF OnTrack
    <3>4. call'[r].straight => Heading(call'[r], at[call'[r].crane])
      BY <2>3, <3>2, <3>3 DEF Heading
    <3> QED
      BY <1>2, <2>3, <3>1, <3>4
  <2>4. CASE Move(r)
    <3> DEFINE k == call[r].crane
               todo == Head(call[r].steps)
               o == Advance(call[r])
               moved == [at[k] EXCEPT ![todo.axis] = todo.to]
    <3>1. call[r].steps # << >> /\ call[r].next \in {"approach", "carry"}
      BY <1>0, <2>4 DEF Move, AtStep, PalletTypeOK
    <3>2. /\ at' = [at EXCEPT ![k] = moved]
          /\ call' = [q \in Retrievers |-> IF q = r THEN o ELSE Disturb(call[q], k)]
      BY <2>4 DEF Move
    <3>3. at[k] \in [Axes -> Int] /\ k \in Cranes
      BY <1>0, <2>1 DEF PalletTypeOK, Job
    <3>4. call[r].straight => Heading(call[r], at[k])
      BY <1>0, <2>1 DEF OnTrack
    <3>5. call[r].straight => Heading(o, moved)
      BY <2>1, <3>1, <3>3, <3>4, AdvanceHeading
    <3>6. o.straight = call[r].straight /\ o.crane = k
      BY <2>1 DEF Advance, Job
    <3> HIDE DEF o, moved
    <3>7. /\ call'[r] = o
          /\ \A q \in Retrievers \ {r} : call'[q] = Disturb(call[q], k)
      BY <3>2
    <3>8. at'[k] = moved /\ \A c \in Cranes \ {k} : at'[c] = at[c]
      BY <1>0, <3>2, <3>3 DEF PalletTypeOK
    <3>9. ASSUME NEW q \in Retrievers, call'[q] # None, call'[q].straight
          PROVE  Heading(call'[q], at'[call'[q].crane])
      <4>1. CASE q = r
        BY <3>5, <3>6, <3>7, <3>8, <3>9, <4>1
      <4>2. CASE q # r
        <5>1. call'[q] = Disturb(call[q], k) /\ call[q] \in Job \cup {None}
          BY <1>0, <3>7, <4>2 DEF PalletTypeOK
        <5>2. call[q] \in Job
          BY <3>9, <5>1 DEF Disturb
        <5>3. call[q].crane # k
          <6>1. CASE call[q].crane = k
            <7>1. call'[q] = [call[q] EXCEPT !.straight = FALSE]
              BY <5>1, <5>2, <6>1, TransferAssumption DEF Disturb
            <7>2. call'[q].straight = FALSE
              BY <5>2, <7>1 DEF Job
            <7> QED
              BY <3>9, <7>2
          <6> QED
            BY <6>1
        <5>4. call'[q] = call[q]
          BY <5>1, <5>3 DEF Disturb
        <5>5. call[q].crane \in Cranes
          BY <5>2 DEF Job
        <5>6. Heading(call[q], at[call[q].crane])
          BY <1>0, <3>9, <5>4 DEF OnTrack
        <5> QED
          BY <3>8, <5>3, <5>4, <5>5, <5>6
      <4> QED
        BY <4>1, <4>2
    <3> QED
      BY <3>9 DEF OnTrack, Heading
  <2>5. CASE Abandon(r) \/ NothingToRemove(r) \/ PlaceAtDest(r)
    BY <2>2, <2>5 DEF Abandon, NothingToRemove, PlaceAtDest, craneVars
  <2>6. CASE LoadPallet(r)
    <3>1. UNCHANGED at /\ call[r].next = "load" /\ (Return(r) \/ Continue(r, "remove"))
      BY <2>6 DEF LoadPallet, AtStep
    <3> QED
      BY <2>2, <2>3, <3>1
  <2>7. CASE RemoveFromSource(r)
    <3> DEFINE plan == Plan(call[r].source, call[r].dest)
               o == SetOut(call[r], plan, "carry", "unload")
               pos == at[call[r].crane]
    <3>1. UNCHANGED at /\ call[r].next = "remove"
      BY <2>7 DEF RemoveFromSource, AtStep, craneVars
    <3>2. CASE Return(r)
      BY <2>2, <3>1, <3>2
    <3>3. CASE call' = [call EXCEPT ![r] = o]
      <4>1. call[r].source \in Location /\ call[r].dest \in Location
        BY <2>1, LocationTypes DEF Job
      <4>2. plan \in Seq(PlanStep)
        BY <4>1, PlanType
      <4>3. Leads(plan, LocationToPosition(call[r].source), LocationToPosition(call[r].dest))
        BY <4>1, PlanLeads
      <4>4. call[r].straight => pos = LocationToPosition(call[r].source)
        BY <1>0, <2>1, <3>1 DEF OnTrack, Heading
      <4>5. pos \in [Axes -> Int]
        BY <1>0, <2>1 DEF PalletTypeOK, Job
      <4>6. call[r].straight => Heading(o, pos)
        BY <2>1, <4>2, <4>3, <4>4, <4>5, SetOutHeading
      <4>7. o.straight = call[r].straight /\ o.crane = call[r].crane
        BY <2>1 DEF SetOut, Job
      <4> HIDE DEF o
      <4>8. call'[r] = o /\ \A q \in Retrievers \ {r} : call'[q] = call[q]
        BY <1>0, <3>3 DEF PalletTypeOK
      <4> QED
        BY <1>2, <3>1, <4>6, <4>7, <4>8
    <3> QED
      BY <2>7, <3>2, <3>3 DEF RemoveFromSource
  <2>8. CASE UnloadPallet(r)
    <3>1. UNCHANGED at /\ (Return(r) \/ Continue(r, "place"))
      BY <2>8 DEF UnloadPallet
    <3> QED
      BY <2>2, <2>3, <3>1
  <2> QED
    BY <1>6, <2>4, <2>5, <2>6, <2>7, <2>8 DEF RetrieverStep
<1>7. ASSUME UNCHANGED transferVars PROVE OnTrack'
  BY <1>1, <1>7 DEF transferVars, craneVars
<1>8. OnTrack'
  BY <1>3, <1>4, <1>5, <1>6, <1>7 DEF TransferNext
<1> QED
  BY <1>0, <1>8 DEF StraightInv

-------------------------------------------------------------------------------
(***************************************************************************)
(* The theorems.                                                           *)
(***************************************************************************)

\* The inductive invariant holds throughout: any number of cranes, pallets and
\* retrievals, any warehouse.
THEOREM TransferSafe == TransferSpec => []TransferInv
<1>1. TransferInit => TransferInv
  <2> SUFFICES ASSUME TransferInit PROVE TransferInv
    OBVIOUS
  <2>1. CarrierExclusive /\ SourceHolds
    BY DEF TransferInit, CarrierExclusive, SourceHolds, Carries, AtStep
  <2> QED
    BY <2>1, TypeInit, OnePlaceInit DEF TransferInv
<1>2. TransferInv /\ [TransferNext]_transferVars => TransferInv'
  <2> SUFFICES ASSUME TransferInv, [TransferNext]_transferVars PROVE TransferInv'
    OBVIOUS
  <2>1. PalletTypeOK' /\ CarrierExclusive' /\ SourceHolds'
    BY TypeNext, CarrierNext, SourceNext DEF TransferInv
  <2> QED
    BY <2>1, OnePlaceNext DEF TransferInv
<1> QED
  BY <1>1, <1>2, PTL DEF TransferSpec

\* Cells, loads, positions and calls keep their types through every operation
\* of aisle.Occupancy and every step of RetrievePallet.
THEOREM PalletTypes == TransferSpec => []PalletTypeOK
<1>1. TransferInv => PalletTypeOK
  BY DEF TransferInv
<1> QED
  BY <1>1, TransferSafe, PTL

\* Retrievals that overlap on a crane carry one pallet at a time, the right one,
\* because Service.LoadPallet refuses a loaded crane.
THEOREM OneCarrier == TransferSpec => []CarrierExclusive
<1>1. TransferInv => CarrierExclusive
  BY DEF TransferInv
<1> QED
  BY <1>1, TransferSafe, PTL

\* No pallet is lost and none is booked twice until two retrievals are after the
\* same one, whatever moves and placements fail.
THEOREM OneRecord == TransferSpec => []OnePlace
<1>1. TransferInv => OnePlace
  BY DEF TransferInv
<1> QED
  BY <1>1, TransferSafe, PTL

\* The place of a pallet is where it is recorded.
LEMMA WhereIs ==
  ASSUME OnePlace, ~contested, NEW p \in Pallets, NEW x \in Spots, Recorded(p, x)
  PROVE  Where[p] = x
<1>1. \A y \in Spots : Recorded(p, y) => y = x
  BY DEF OnePlace
<1> QED
  BY <1>1 DEF Where

\* Storing and retrieving implement the ledger until retrievals contend: every
\* step of the calls moves one pallet one stage on, or none.
THEOREM LedgerImplemented == TransferSpec => ImplementsLedger
<1>1. TransferInit => Ledger!LedgerInit
  <2> SUFFICES ASSUME TransferInit PROVE Where = [p \in Pallets |-> None]
    BY DEF Ledger!LedgerInit
  <2>1. ASSUME NEW p \in Pallets PROVE Where[p] = None
    <3>1. Recorded(p, None) /\ None \in Spots
      BY DEF TransferInit, Recorded, Spots
    <3>2. ~contested
      BY DEF TransferInit
    <3> QED
      BY <3>1, <3>2, OnePlaceInit, WhereIs
  <2> QED
    BY <2>1 DEF Where
<1>2. TransferInv /\ TransferInv' /\ [TransferNext]_transferVars
        => [contested' \/ Ledger!LedgerNext]_Where
  <2> SUFFICES ASSUME TransferInv, OnePlace', [TransferNext]_transferVars, ~contested'
               PROVE  Where' = Where \/ Ledger!LedgerNext
    BY DEF TransferInv
  <2>1. ~contested
    BY ContestedStays DEF TransferInv
  <2>2. \A p \in Pallets, x \in Spots : Recorded(p, x) => Where[p] = x
    BY <2>1, WhereIs DEF TransferInv
  <2>3. \A p \in Pallets, x \in Spots : Recorded(p, x)' => Where'[p] = x
    <3>1. \A p \in Pallets, x \in Spots :
            Recorded(p, x)' => \A y \in Spots : Recorded(p, y)' => y = x
      BY DEF OnePlace
    <3> QED
      BY <3>1 DEF Where
  <2>4. \A p \in Pallets : \E x \in Spots : Recorded(p, x)
    BY <2>1 DEF TransferInv, OnePlace
  <2>5. CASE AllStay
    <3>1. \A p \in Pallets : Where'[p] = Where[p]
      BY <2>2, <2>3, <2>4, <2>5 DEF AllStay
    <3> QED
      BY <3>1 DEF Where
  <2>6. ASSUME NEW p \in Pallets, NEW x \in Spots, NEW z \in Spots,
               Ledger!Way(x, z), Goes(p, x, z)
        PROVE  Ledger!LedgerNext
    <3>1. Where[p] = x /\ Where'[p] = z
      BY <2>2, <2>3, <2>6 DEF Goes
    <3>2. \A o \in Pallets \ {p} : Where'[o] = Where[o]
      BY <2>2, <2>3, <2>4, <2>6 DEF Goes
    <3>3. Where' = [Where EXCEPT ![p] = z]
      <4>1. Where = [o \in Pallets |-> Where[o]] /\ Where' = [o \in Pallets |-> Where'[o]]
        BY DEF Where
      <4>2. [Where EXCEPT ![p] = z] = [o \in Pallets |-> IF o = p THEN z ELSE Where[o]]
        BY <4>1
      <4> QED
        BY <3>1, <3>2, <4>1, <4>2
    <3>4. z \in AllCells \cup Cranes \cup Retrievers \cup {None}
      BY <2>6 DEF Spots
    <3>5. Ledger!Way(Where[p], z)
      BY <2>6, <3>1
    <3> QED
      BY <3>3, <3>4, <3>5 DEF Ledger!LedgerNext
  <2> QED
    BY <2>5, <2>6, MovesOne DEF TransferInv
<1> QED
  BY <1>1, <1>2, TransferSafe, PTL DEF TransferSpec, ImplementsLedger

\* A retrieval that starts with its crane at home and has it for itself loads
\* in front of the pallet's cell and unloads in front of its destination, in
\* every layout: the planner's steps lead from home to the cell and from there
\* on, whatever the other cranes do (App.RetrievePallet, Planner.Plan).
THEOREM LoadsWhereStoredAlways == TransferSpec => []LoadsWhereStored
<1>1. StraightInv => LoadsWhereStored
  BY DEF StraightInv, OnTrack, Heading, LoadsWhereStored, AtStep
<1> QED
  BY <1>1, StraightInit, StraightNext, PTL DEF TransferSpec

\* A reserved cell is filled by nobody and its reservation is given up by its
\* owner alone (Occupancy.Reserve, Release, Place).
THEOREM ReservationHoldsAlways == TransferSpec => ReservationHolds
<1> DEFINE Held(l) == reservedBy[l] # None =>
             /\ reservedBy'[l] # reservedBy[l] => Release(l, reservedBy[l])
             /\ cells'[l] \in {cells[l], None}
<1>1. ASSUME PalletTypeOK, [TransferNext]_transferVars, NEW l \in AllCells PROVE Held(l)
  <2>1. ASSUME UNCHANGED cellVars PROVE Held(l)
    BY <2>1 DEF cellVars
  <2>2. ASSUME NEW c \in AllCells, NEW p, CanPlace(c), Place(c, p) PROVE Held(l)
    BY <1>1, <2>2 DEF CanPlace, Place, PalletTypeOK
  <2>3. ASSUME NEW c \in AllCells, Remove(c) PROVE Held(l)
    BY <1>1, <2>3 DEF Remove, PalletTypeOK
  <2>4. ASSUME NEW c \in Locations, NEW p \in Pallets, PlacePallet(c, p) PROVE Held(l)
    BY <2>2, <2>4 DEF PlacePallet, CanPlace
  <2>5. ASSUME NEW c \in Locations, NEW k \in Cranes, Reserve(c, k) PROVE Held(l)
    BY <1>1, <2>5 DEF Reserve, PalletTypeOK
  <2>6. ASSUME NEW c \in Locations, NEW k \in Cranes, Release(c, k) PROVE Held(l)
    <3>1. CASE c = l
      <4>1. reservedBy[l] = k /\ cells' = cells
        BY <2>6, <3>1 DEF Release
      <4> QED
        BY <2>6, <3>1, <4>1
    <3>2. CASE c # l
      BY <1>1, <2>6, <3>2 DEF Release, PalletTypeOK
    <3> QED
      BY <3>1, <3>2
  <2>7. ASSUME NEW r \in Retrievers, NEW k \in Cranes, NEW p \in Pallets, NEW dest \in Locations,
               RetrievePallet(r, k, p, dest)
        PROVE  Held(l)
    BY <2>1, <2>7 DEF RetrievePallet
  <2>8. ASSUME NEW r \in Retrievers, RetrieverStep(r) PROVE Held(l)
    <3>1. CASE \/ Move(r) \/ Abandon(r) \/ LoadPallet(r) \/ NothingToRemove(r) \/ UnloadPallet(r)
      BY <2>1, <3>1 DEF Move, Abandon, LoadPallet, NothingToRemove, UnloadPallet
    <3>2. CASE RemoveFromSource(r)
      <4>1. call[r].source \in AllCells /\ Remove(call[r].source)
        BY <1>1, <2>8, <3>2, StepCall DEF RemoveFromSource, Job
      <4> QED
        BY <2>3, <4>1
    <3>3. CASE PlaceAtDest(r)
      <4>1. CASE CanPlace(call[r].dest) /\ Place(call[r].dest, call[r].pallet)
        BY <2>2, <4>1 DEF CanPlace
      <4>2. CASE UNCHANGED cellVars
        BY <2>1, <4>2
      <4> QED
        BY <3>3, <4>1, <4>2 DEF PlaceAtDest
    <3> QED
      BY <2>8, <3>1, <3>2, <3>3 DEF RetrieverStep
  <2>9. CASE UNCHANGED transferVars
    BY <2>1, <2>9 DEF transferVars
  <2> QED
    BY <1>1, <2>4, <2>5, <2>6, <2>7, <2>8, <2>9 DEF TransferNext
<1>2. PalletTypeOK /\ [TransferNext]_transferVars =>
        [\A l \in AllCells : reservedBy[l] # None =>
           /\ reservedBy'[l] # reservedBy[l] => Release(l, reservedBy[l])
           /\ cells'[l] \in {cells[l], None}]_transferVars
  BY <1>1
<1> QED
  BY <1>2, PalletTypes, PTL DEF TransferSpec, ReservationHolds
================================================================================

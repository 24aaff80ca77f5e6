--------------------------- MODULE WarehouseProofs ---------------------------
(***************************************************************************)
(* Facts about Warehouse for every layout: what a plan is made of and where *)
(* it leads, cut off after any of its steps, and that cells and positions   *)
(* convert into each other without loss (internal/path, internal/model).    *)
(***************************************************************************)
EXTENDS Warehouse, SequenceTheorems, TLAPS

\* The dimensions are integers.
LEMMA DimensionTypes ==
  /\ Aisles \in Int /\ BaysPerAisle \in Int /\ Levels \in Int /\ Depths \in Int
  /\ BayPitch \in Int /\ LevelPitch \in Int /\ DepthPitch \in Int
  /\ BayPitch > 0 /\ LevelPitch > 0 /\ DepthPitch > 0
  /\ BaysPerAisle > 0 /\ Levels > 0 /\ Depths >= 0
BY WarehouseAssumption DEF Validate

\* Cells are locations.
LEMMA CellsAreLocations == AllCells \subseteq Location
BY DimensionTypes DEF AllCells, Location

\* A location has a position on every axis.
LEMMA PositionType ==
  ASSUME NEW loc \in Location
  PROVE  LocationToPosition(loc) \in [Axes -> Int]
<1>1. loc.bay \in Int /\ loc.level \in Int /\ loc.depth \in Int
  BY DEF Location
<1> QED
  BY <1>1, DimensionTypes DEF LocationToPosition, Axes

-------------------------------------------------------------------------------
(***************************************************************************)
(* Plans.                                                                  *)
(***************************************************************************)

\* A plan is a sequence of steps, each to a position of the target.
LEMMA StepsType ==
  ASSUME NEW V, NEW f, NEW t \in [Axes -> V]
  PROVE  buildSteps(f, t) \in Seq([axis : Axes, to : V])
<1> DEFINE S == [axis : Axes, to : V]
<1>1. ASSUME NEW a \in Axes PROVE StepTo(f, t, a) \in Seq(S)
  <2>1. [axis |-> a, to |-> t[a]] \in S
    OBVIOUS
  <2> HIDE DEF S
  <2> QED
    BY <2>1 DEF StepTo
<1>2. /\ StepTo(f, t, "travel") \in Seq(S)
      /\ StepTo(f, t, "hoist") \in Seq(S)
      /\ StepTo(f, t, "fork") \in Seq(S)
  BY <1>1 DEF Axes
<1> HIDE DEF S
<1>3. StepTo(f, t, "travel") \o StepTo(f, t, "hoist") \in Seq(S)
  BY <1>2, ConcatProperties
<1>4. buildSteps(f, t) \in Seq(S)
  BY <1>2, <1>3, ConcatProperties DEF buildSteps
<1> QED
  BY <1>4 DEF S

PlanStep == [axis : Axes, to : Int]

\* What a plan between two locations is made of.
LEMMA PlanType ==
  ASSUME NEW from \in Location, NEW to \in Location
  PROVE  Plan(from, to) \in Seq(PlanStep)
BY PositionType, StepsType DEF Plan, PlanStep

\* Each step takes its axis to where position t has it.
Towards(steps, t) == \A n \in 1..Len(steps) : steps[n].to = t[steps[n].axis]

Visits(steps, a) == \E n \in 1..Len(steps) : steps[n].axis = a

\* The steps lead from position pos to position t: none goes astray, and every
\* axis that is not there yet has one.
Leads(steps, pos, t) ==
  Towards(steps, t) /\ \A a \in Axes : pos[a] = t[a] \/ Visits(steps, a)

\* Concatenation keeps both.
LEMMA LeadsConcat ==
  ASSUME NEW S, NEW u \in Seq(S), NEW v \in Seq(S), NEW t, Towards(u, t), Towards(v, t)
  PROVE  /\ u \o v \in Seq(S)
         /\ Towards(u \o v, t)
         /\ \A a \in Axes : Visits(u, a) \/ Visits(v, a) => Visits(u \o v, a)
<1> DEFINE w == u \o v
<1>1. /\ w \in Seq(S)
      /\ Len(u) \in Nat /\ Len(v) \in Nat /\ Len(w) = Len(u) + Len(v)
      /\ \A n \in 1..(Len(u) + Len(v)) : w[n] = IF n <= Len(u) THEN u[n] ELSE v[n - Len(u)]
  BY ConcatProperties, LenProperties
<1> HIDE DEF w
<1>2. ASSUME NEW n \in 1..Len(w) PROVE w[n].to = t[w[n].axis]
  <2>1. CASE n <= Len(u)
    <3>1. n \in 1..Len(u) /\ w[n] = u[n]
      BY <1>1, <2>1
    <3> QED
      BY <3>1 DEF Towards
  <2>2. CASE ~(n <= Len(u))
    <3>1. n - Len(u) \in 1..Len(v) /\ w[n] = v[n - Len(u)]
      BY <1>1, <2>2
    <3> QED
      BY <3>1 DEF Towards
  <2> QED
    BY <2>1, <2>2
<1>3. ASSUME NEW a \in Axes, Visits(u, a) PROVE Visits(w, a)
  <2>1. PICK n \in 1..Len(u) : u[n].axis = a
    BY <1>3 DEF Visits
  <2>2. n \in 1..Len(w) /\ w[n] = u[n]
    BY <1>1
  <2> QED
    BY <2>1, <2>2 DEF Visits
<1>4. ASSUME NEW a \in Axes, Visits(v, a) PROVE Visits(w, a)
  <2>1. PICK n \in 1..Len(v) : v[n].axis = a
    BY <1>4 DEF Visits
  <2> DEFINE i == n + Len(u)
  <2>2. i \in 1..(Len(u) + Len(v)) /\ ~(i <= Len(u)) /\ i - Len(u) = n
    BY <1>1
  <2> HIDE DEF i
  <2>3. i \in 1..Len(w) /\ w[i] = v[n]
    BY <1>1, <2>2
  <2> QED
    BY <2>1, <2>3 DEF Visits
<1>5. Towards(w, t)
  BY <1>2 DEF Towards
<1> QED
  BY <1>1, <1>3, <1>4, <1>5 DEF w

\* buildSteps leads from any position to the one it is given.
LEMMA StepsLead ==
  ASSUME NEW V, NEW f, NEW t \in [Axes -> V]
  PROVE  Leads(buildSteps(f, t), f, t)
<1> DEFINE S == [axis : Axes, to : V]
           tr == StepTo(f, t, "travel")
           ho == StepTo(f, t, "hoist")
           fo == StepTo(f, t, "fork")
<1>1. ASSUME NEW a \in Axes
      PROVE  /\ StepTo(f, t, a) \in Seq(S)
             /\ Towards(StepTo(f, t, a), t)
             /\ f[a] # t[a] => Visits(StepTo(f, t, a), a)
  <2>1. CASE f[a] = t[a]
    <3>1. StepTo(f, t, a) = << >> /\ << >> \in Seq(S) /\ Len(<< >>) = 0
      BY <2>1 DEF StepTo
    <3> QED
      BY <2>1, <3>1 DEF Towards
  <2>2. CASE f[a] # t[a]
    <3>1. StepTo(f, t, a) = << [axis |-> a, to |-> t[a]] >>
      BY <2>2 DEF StepTo
    <3>2. /\ StepTo(f, t, a) \in Seq(S) /\ Len(StepTo(f, t, a)) = 1
          /\ StepTo(f, t, a)[1] = [axis |-> a, to |-> t[a]]
      BY <3>1
    <3> QED
      BY <3>2 DEF Towards, Visits
  <2> QED
    BY <2>1, <2>2
<1>2. /\ tr \in Seq(S) /\ ho \in Seq(S) /\ fo \in Seq(S)
      /\ Towards(tr, t) /\ Towards(ho, t) /\ Towards(fo, t)
      /\ f["travel"] # t["travel"] => Visits(tr, "travel")
      /\ f["hoist"] # t["hoist"] => Visits(ho, "hoist")
      /\ f["fork"] # t["fork"] => Visits(fo, "fork")
  BY <1>1 DEF Axes
<1>3. buildSteps(f, t) = (tr \o ho) \o fo
  BY DEF buildSteps
<1> HIDE DEF S, tr, ho, fo
<1>4. /\ tr \o ho \in Seq(S) /\ Towards(tr \o ho, t)
      /\ \A a \in Axes : Visits(tr, a) \/ Visits(ho, a) => Visits(tr \o ho, a)
  BY <1>2, LeadsConcat
<1>5. /\ Towards((tr \o ho) \o fo, t)
      /\ \A a \in Axes : Visits(tr \o ho, a) \/ Visits(fo, a) => Visits((tr \o ho) \o fo, a)
  BY <1>2, <1>4, LeadsConcat
<1>6. ASSUME NEW a \in Axes PROVE f[a] = t[a] \/ Visits((tr \o ho) \o fo, a)
  BY <1>2, <1>4, <1>5 DEF Axes
<1> QED
  BY <1>3, <1>5, <1>6 DEF Leads

\* A plan leads from its origin to its target.
LEMMA PlanLeads ==
  ASSUME NEW from, NEW to \in Location
  PROVE  Leads(Plan(from, to), LocationToPosition(from), LocationToPosition(to))
BY PositionType, StepsLead DEF Plan

\* After its first step the rest leads on from where that step has gone.
LEMMA LeadsOn ==
  ASSUME NEW V, NEW steps \in Seq([axis : Axes, to : V]), steps # << >>,
         NEW pos \in [Axes -> V], NEW t, Leads(steps, pos, t)
  PROVE  Leads(Tail(steps), [pos EXCEPT ![Head(steps).axis] = Head(steps).to], t)
<1> DEFINE h == Head(steps)
           rest == Tail(steps)
           next == [pos EXCEPT ![h.axis] = h.to]
<1>1. /\ Len(steps) \in Nat /\ Len(steps) >= 1 /\ Len(rest) = Len(steps) - 1
      /\ \A n \in 1..Len(rest) : rest[n] = steps[n + 1]
      /\ h = steps[1] /\ h.axis \in Axes
  <2> DEFINE S == [axis : Axes, to : V]
  <2>1. steps \in Seq(S) /\ \A e \in S : e.axis \in Axes
    OBVIOUS
  <2> HIDE DEF S
  <2>2. Len(steps) \in Nat /\ Len(steps) # 0
    BY <2>1, LenProperties, EmptySeq
  <2>3. Len(steps) >= 1
    BY <2>2
  <2>4. h \in S /\ rest \in Seq(S) /\ h = steps[1] /\ Len(rest) = Len(steps) - 1
    BY <2>1, HeadTailProperties
  <2>5. \A n \in 1..Len(rest) : rest[n] = steps[n + 1]
    BY <2>1, <2>4, HeadTailProperties
  <2> QED
    BY <2>1, <2>2, <2>3, <2>4, <2>5
<1>2. /\ h.to = t[h.axis]
      /\ next[h.axis] = h.to /\ \A a \in Axes \ {h.axis} : next[a] = pos[a]
  <2>1. 1 \in 1..Len(steps)
    BY <1>1
  <2> QED
    BY <1>1, <2>1 DEF Leads, Towards
<1> HIDE DEF h, rest, next
<1>3. ASSUME NEW n \in 1..Len(rest) PROVE rest[n].to = t[rest[n].axis]
  <2>1. n + 1 \in 1..Len(steps) /\ rest[n] = steps[n + 1]
    BY <1>1
  <2> QED
    BY <2>1 DEF Leads, Towards
<1>4. ASSUME NEW a \in Axes, next[a] # t[a]
      PROVE  \E n \in 1..Len(rest) : rest[n].axis = a
  <2>1. a # h.axis
    BY <1>2, <1>4
  <2>2. PICK n \in 1..Len(steps) : steps[n].axis = a
    BY <1>2, <1>4, <2>1 DEF Leads, Visits
  <2>3. n # 1
    BY <1>1, <2>1, <2>2
  <2>4. n - 1 \in 1..Len(rest) /\ rest[n - 1] = steps[n]
    BY <1>1, <2>3
  <2> QED
    BY <2>2, <2>4
<1> QED
  BY <1>3, <1>4 DEF Leads, Towards, Visits, h, rest, next

\* Without steps left, the target has been reached.
LEMMA LeadsNowhere ==
  ASSUME NEW V, NEW W, NEW S, NEW steps \in Seq(S), steps = << >>,
         NEW pos \in [Axes -> V], NEW t \in [Axes -> W], Leads(steps, pos, t)
  PROVE  pos = t
<1>1. Len(steps) = 0
  BY EmptySeq
<1>2. 1..Len(steps) = {}
  BY <1>1
<1>3. \A a \in Axes : ~Visits(steps, a)
  BY <1>2 DEF Visits
<1>4. \A a \in Axes : pos[a] = t[a]
  BY <1>3 DEF Leads
<1> QED
  BY <1>4

-------------------------------------------------------------------------------
(***************************************************************************)
(* Cells and positions.                                                    *)
(***************************************************************************)

\* A multiple of the pitch is within its limit and divides back.
LEMMA PitchFacts ==
  ASSUME NEW n \in Int, NEW most \in Int, NEW pitch \in Int, pitch > 0, n <= most
  PROVE  /\ (n * pitch) \div pitch = n
         /\ n * pitch \in Int
         /\ n * pitch <= most * pitch
<1>1. (n * pitch) \div pitch = n
  OBVIOUS
<1>2. n * pitch \in Int /\ n * pitch <= most * pitch
  OBVIOUS
<1> QED
  BY <1>1, <1>2

\* The aisle plays no part in a position: a location the planner accepts is
\* where a cell of the first aisle is.
LEMMA CellOf ==
  ASSUME NEW loc \in Location, InBounds(loc)
  PROVE  \E cell \in AllCells : LocationToPosition(cell) = LocationToPosition(loc)
<1> DEFINE cell == [aisle |-> 1, bay |-> loc.bay, level |-> loc.level, depth |-> loc.depth]
<1>1. 1 \in 1..Aisles
  BY DimensionTypes, WarehouseAssumption DEF Validate
<1>2. cell \in AllCells
  BY <1>1 DEF AllCells, InBounds
<1>3. cell.bay = loc.bay /\ cell.level = loc.level /\ cell.depth = loc.depth
  OBVIOUS
<1> HIDE DEF cell
<1>4. LocationToPosition(cell) = LocationToPosition(loc)
  BY <1>3 DEF LocationToPosition
<1> QED
  BY <1>2, <1>4

\* The positions in which axis a faces a cell.
Marks(a) == {LocationToPosition(loc)[a] : loc \in AllCells}

\* A location the planner accepts has all axes on their marks.
LEMMA MarksOf ==
  ASSUME NEW loc \in Location, InBounds(loc), NEW a \in Axes
  PROVE  LocationToPosition(loc)[a] \in Marks(a)
BY CellOf DEF Marks

\* A crane's home is a cell, if the crane has an aisle.
LEMMA HomeIsCell ==
  ASSUME NEW aisle \in 1..Aisles
  PROVE  CraneHome(aisle) \in AllCells
<1>1. 1 \in 1..BaysPerAisle /\ 1 \in 1..Levels /\ 0 \in 0..Depths
  BY DimensionTypes
<1> QED
  BY <1>1 DEF CraneHome, AllCells

\* What the conversions make of the three marks a crane stands on.
LEMMA MarksConvert ==
  ASSUME NEW V, NEW pos \in [Axes -> V], \A a \in Axes : pos[a] \in Marks(a), NEW aisle \in Int
  PROVE  LET loc == PositionToLocation(pos, aisle) IN
         /\ loc.aisle = aisle
         /\ InBounds(loc) /\ LocationToPosition(loc) = pos /\ CheckPose(pos) = {}
         /\ \A cell \in AllCells : LocationToPosition(cell) = pos =>
              /\ loc.bay = cell.bay /\ loc.level = cell.level /\ loc.depth = cell.depth
<1> DEFINE loc == PositionToLocation(pos, aisle)
<1>1. PICK b \in 1..BaysPerAisle : pos["travel"] = b * BayPitch
  BY DEF Marks, Axes, LocationToPosition, AllCells
<1>2. PICK l \in 1..Levels : pos["hoist"] = l * LevelPitch
  BY DEF Marks, Axes, LocationToPosition, AllCells
<1>3. PICK d \in 0..Depths : pos["fork"] = d * DepthPitch
  BY DEF Marks, Axes, LocationToPosition, AllCells
<1>4. /\ b \in Int /\ b >= 1 /\ b <= BaysPerAisle
      /\ l \in Int /\ l >= 1 /\ l <= Levels
      /\ d \in Int /\ d >= 0 /\ d <= Depths
  BY DimensionTypes
<1>5. /\ pos["travel"] \div BayPitch = b /\ pos["travel"] <= BaysPerAisle * BayPitch
      /\ pos["travel"] \in Int
  BY <1>1, <1>4, DimensionTypes, PitchFacts
<1>6. /\ pos["hoist"] \div LevelPitch = l /\ pos["hoist"] <= Levels * LevelPitch
      /\ pos["hoist"] \in Int
  BY <1>2, <1>4, DimensionTypes, PitchFacts
<1>7. /\ pos["fork"] \div DepthPitch = d /\ pos["fork"] <= Depths * DepthPitch
      /\ pos["fork"] \in Int
  BY <1>3, <1>4, DimensionTypes, PitchFacts
<1>8. loc = [aisle |-> aisle, bay |-> b, level |-> l, depth |-> d]
  BY <1>4, <1>5, <1>6, <1>7 DEF PositionToLocation, AtLeast
<1>9. InBounds(loc)
  BY <1>8 DEF InBounds
<1>10. LocationToPosition(loc) = pos
  <2> HIDE DEF loc
  <2>1. \A a \in Axes : LocationToPosition(loc)[a] = pos[a]
    <3>1. loc.bay = b /\ loc.level = l /\ loc.depth = d
      BY <1>8
    <3> QED
      BY <1>1, <1>2, <1>3, <3>1 DEF LocationToPosition, Axes
  <2>2. loc \in Location
    BY <1>4, <1>8 DEF Location
  <2>3. LocationToPosition(loc) \in [Axes -> Int]
    BY <2>2, PositionType
  <2> QED
    BY <2>1, <2>3
<1>11. CheckPose(pos) = {}
  <2>1. /\ MaxMM["travel"] \in Int /\ MaxMM["hoist"] \in Int /\ MaxMM["fork"] \in Int
        /\ BaysPerAisle * BayPitch <= MaxMM["travel"]
        /\ Levels * LevelPitch <= MaxMM["hoist"]
        /\ Depths * DepthPitch <= MaxMM["fork"]
    BY WarehouseAssumption DEF Axes
  <2>2. BaysPerAisle * BayPitch \in Int /\ Levels * LevelPitch \in Int /\ Depths * DepthPitch \in Int
    BY DimensionTypes
  <2>3. pos["travel"] <= MaxMM["travel"]
    BY <1>5, <2>1, <2>2
  <2>4. pos["hoist"] <= MaxMM["hoist"]
    BY <1>6, <2>1, <2>2
  <2>5. pos["fork"] <= MaxMM["fork"]
    BY <1>7, <2>1, <2>2
  <2>6. \A a \in Axes : ~(pos[a] > MaxMM[a])
    BY <1>5, <1>6, <1>7, <2>1, <2>3, <2>4, <2>5 DEF Axes
  <2> QED
    BY <2>6 DEF CheckPose
<1>12. ASSUME NEW cell \in AllCells, LocationToPosition(cell) = pos
       PROVE  loc.bay = cell.bay /\ loc.level = cell.level /\ loc.depth = cell.depth
  <2>1. /\ cell.bay \in Int /\ cell.bay <= BaysPerAisle
        /\ cell.level \in Int /\ cell.level <= Levels
        /\ cell.depth \in Int /\ cell.depth <= Depths
    BY DimensionTypes DEF AllCells
  <2>2. /\ pos["travel"] = cell.bay * BayPitch
        /\ pos["hoist"] = cell.level * LevelPitch
        /\ pos["fork"] = cell.depth * DepthPitch
    BY <1>12 DEF LocationToPosition, Axes
  <2>3. /\ (cell.bay * BayPitch) \div BayPitch = cell.bay
        /\ (cell.level * LevelPitch) \div LevelPitch = cell.level
        /\ (cell.depth * DepthPitch) \div DepthPitch = cell.depth
    BY <2>1, DimensionTypes, PitchFacts
  <2>4. b = cell.bay /\ l = cell.level /\ d = cell.depth
    BY <1>5, <1>6, <1>7, <2>2, <2>3
  <2> QED
    BY <1>8, <2>4
<1> QED
  BY <1>8, <1>9, <1>10, <1>11, <1>12

\* Every cell of every layout is found again from the position it converts to:
\* no two cells of an aisle share a position, whatever the pitches are.
THEOREM CellsConvert ==
  ASSUME NEW cell \in AllCells
  PROVE  PositionToLocation(LocationToPosition(cell), cell.aisle) = cell
<1> DEFINE pos == LocationToPosition(cell)
           loc == PositionToLocation(pos, cell.aisle)
<1>1. pos \in [Axes -> Int] /\ \A a \in Axes : pos[a] \in Marks(a)
  BY CellsAreLocations, PositionType DEF Marks
<1>2. LocationToPosition(cell) = pos /\ cell.aisle \in Int
  BY DimensionTypes DEF AllCells
<1> HIDE DEF pos
<1>3. /\ loc.aisle = cell.aisle
      /\ loc.bay = cell.bay /\ loc.level = cell.level /\ loc.depth = cell.depth
  BY <1>1, <1>2, MarksConvert
<1>4. loc = [aisle |-> loc.aisle, bay |-> loc.bay, level |-> loc.level, depth |-> loc.depth]
  BY DEF PositionToLocation
<1>5. cell = [aisle |-> cell.aisle, bay |-> cell.bay, level |-> cell.level, depth |-> cell.depth]
  BY DEF AllCells
<1> QED
  BY <1>3, <1>4, <1>5 DEF pos
================================================================================

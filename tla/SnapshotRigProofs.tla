--------------------------- MODULE SnapshotRigProofs ---------------------------
(***************************************************************************)
(* Theorems about SnapshotRig: what a client may conclude from IsStale and *)
(* from a successful CompareAndSwap, for any number of goroutines and any  *)
(* bounds.                                                                 *)
(***************************************************************************)
EXTENDS SnapshotRig, TLAPS

\* No name a snapshot carries is ahead of the revision it can be saved under.
NamesBehind ==
  /\ \A p \in Capturers : draft[p].Seq <= revision + 1
  /\ \A p \in Clients : held[p].Seq <= revision

\* The inductive invariant: a client whose snapshot has the store's revision
\* for its name was given what is in the store.
StalenessInv == RigTypeOK /\ NamesBehind /\ NotStaleMeansCurrent

\* The entries and the empty snapshot have their types.
LEMMA EmptyType == ASSUME NEW seq \in Nat PROVE Empty(seq) \in Snapshot
  BY DEF Empty, Snapshot

\* Every field of the store starts with its type.
LEMMA RigTypeInit == RigInit => RigTypeOK
<1> SUFFICES ASSUME RigInit PROVE RigTypeOK
  OBVIOUS
<1>1. Empty(0) \in Snapshot /\ Empty(0).Seq = 0
  BY EmptyType DEF Empty
<1>2. now \in [Entries -> 1 .. MaxVersion]
  BY RigAssumption DEF RigInit
<1>3. \A p \in Capturers : draft[p].Seq = 0 /\ mu # p
  BY <1>1, RigAssumption DEF RigInit
<1> QED
  BY <1>1, <1>2, <1>3 DEF RigInit, RigTypeOK

\* A write keeps the type of the store and advances its revision.
LEMMA WriteType ==
  ASSUME revision \in Nat, NEW data \in [Entries -> Nat], Write(data)
  PROVE  /\ revision' = revision + 1 /\ revision' \in Nat
         /\ current' \in Snapshot /\ current'.Seq = revision' /\ current'.data = data
  BY DEF Write, Snapshot

\* Every step keeps the types.
LEMMA RigTypeNext == RigTypeOK /\ [RigNext]_rigVars => RigTypeOK'
<1> SUFFICES ASSUME RigTypeOK, [RigNext]_rigVars PROVE RigTypeOK'
  OBVIOUS
<1> USE DEF RigTypeOK
<1>0. revision \in Nat
  BY DEF Snapshot
<1>1. ASSUME NEW i \in Entries, Change(i) PROVE RigTypeOK'
  <2>1. now' \in [Entries -> 1 .. MaxVersion]
    BY <1>1, RigAssumption DEF Change
  <2> QED BY <1>1, <2>1 DEF Change
<1>2. ASSUME NEW p \in Capturers, StartCapture(p) PROVE RigTypeOK'
  <2>1. Empty(revision + 1) \in Snapshot /\ Empty(revision + 1).Seq # 0
    BY <1>0, EmptyType DEF Empty
  <2>2. draft' \in [Capturers -> Snapshot]
    BY <1>2, <2>1 DEF StartCapture
  <2>3. \A q \in Capturers : draft'[q].Seq # 0 <=> mu' = q
    BY <1>2, <2>1, RigAssumption DEF StartCapture
  <2> QED BY <1>2, <2>2, <2>3 DEF StartCapture
<1>3. ASSUME NEW p \in Capturers, NEW i \in Entries, ReadEntry(p, i) PROVE RigTypeOK'
  <2>1. now[i] \in Nat
    OBVIOUS
  <2>2. [Seq |-> draft[p].Seq, data |-> [draft[p].data EXCEPT ![i] = now[i]]] \in Snapshot
    BY <2>1 DEF Snapshot
  <2>3. draft' \in [Capturers -> Snapshot] /\ \A q \in Capturers : draft'[q].Seq = draft[q].Seq
    BY <1>3, <2>2 DEF ReadEntry
  <2> QED BY <1>3, <2>3 DEF ReadEntry
<1>4. ASSUME NEW p \in Capturers, Save(p) PROVE RigTypeOK'
  <2>1. draft[p].data \in [Entries -> Nat]
    BY DEF Snapshot
  <2>2. current' \in Snapshot /\ current'.Seq = revision'
    BY <1>0, <1>4, <2>1, WriteType DEF Save
  <2>3. Empty(0) \in Snapshot /\ Empty(0).Seq = 0
    BY EmptyType DEF Empty
  <2>4. held' \in [Clients -> Snapshot] /\ mu' = Nobody /\ draft' \in [Capturers -> Snapshot]
    BY <1>4, <2>3 DEF Save
  <2>5. \A q \in Capturers : draft'[q].Seq # 0 <=> mu' = q
    BY <1>4, <2>3, RigAssumption DEF Save
  <2> QED BY <1>4, <2>2, <2>4, <2>5 DEF Save
<1>5. ASSUME NEW r \in Refreshers, Update(r) PROVE RigTypeOK'
  <2>1. reading[r].entry \in Entries /\ reading[r].version \in Nat
    BY <1>5 DEF Update
  <2>2. [current.data EXCEPT ![reading[r].entry] = reading[r].version] \in [Entries -> Nat]
    BY <2>1 DEF Snapshot
  <2>3. current' \in Snapshot /\ current'.Seq = revision'
    BY <1>0, <1>5, <2>2, WriteType DEF Update
  <2>4. reading' \in [Refreshers -> [entry : Entries \cup {Nobody}, version : Nat]]
    BY <1>5 DEF Update
  <2> QED BY <1>5, <2>3, <2>4 DEF Update
<1>6. ASSUME NEW r \in Refreshers, NEW i \in Entries, ReadForRefresh(r, i) PROVE RigTypeOK'
  <2>1. now[i] \in Nat
    OBVIOUS
  <2> QED BY <1>6, <2>1 DEF ReadForRefresh
<1>7. ASSUME NEW p \in Swappers, Load(p) PROVE RigTypeOK'
  BY <1>7 DEF Load
<1>8. ASSUME NEW p \in Clients, CompareAndSwap(p) PROVE RigTypeOK'
  <2>1. held[p].data \in [Entries -> Nat]
    BY DEF Snapshot
  <2>2. current' \in Snapshot /\ current'.Seq = revision'
    BY <1>0, <1>8, <2>1, WriteType DEF CompareAndSwap
  <2> QED BY <1>8, <2>2 DEF CompareAndSwap
<1>9. CASE UNCHANGED rigVars
  BY <1>9 DEF rigVars
<1> QED
  BY <1>1, <1>2, <1>3, <1>4, <1>5, <1>6, <1>7, <1>8, <1>9 DEF RigNext

\* The store, its drafts and the snapshots handed out keep their types, and a
\* draft exists exactly while its capture holds the mutex (store/snapshot.go).
THEOREM RigTypes == RigSpec => []RigTypeOK
BY RigTypeInit, RigTypeNext, PTL DEF RigSpec

\* A step that writes leaves every snapshot handed out before it stale.
LEMMA WriteMakesStale ==
  ASSUME StalenessInv, revision' = revision + 1, NEW p \in Clients, held'[p] = held[p]
  PROVE  held'[p].Seq < revision'
<1>1. revision \in Nat /\ held[p].Seq \in Nat /\ held[p].Seq <= revision
  BY DEF StalenessInv, RigTypeOK, NamesBehind, Snapshot
<1> QED
  BY <1>1

\* The invariant is inductive: a write outdates every name given out before,
\* and a capture whose name has not been used up saved what it gives out.
LEMMA StalenessNext == StalenessInv /\ [RigNext]_rigVars => StalenessInv'
<1> SUFFICES ASSUME StalenessInv, [RigNext]_rigVars PROVE StalenessInv'
  OBVIOUS
<1> USE DEF StalenessInv
<1>0. RigTypeOK'
  BY RigTypeNext
<1>t. /\ revision \in Nat
      /\ \A p \in Capturers : draft[p].Seq \in Nat
      /\ \A p \in Clients : held[p].Seq \in Nat
  BY DEF RigTypeOK, Snapshot
<1> DEFINE DraftsBehind == \A p \in Capturers : draft'[p].Seq <= revision + 1
<1>1. ASSUME DraftsBehind, UNCHANGED <<current, revision, held>>
      PROVE  StalenessInv'
  BY <1>0, <1>1 DEF NamesBehind, NotStaleMeansCurrent, IsStale
<1>2. ASSUME revision' = revision + 1, UNCHANGED <<draft, held>>
      PROVE  StalenessInv'
  <2>1. \A p \in Clients : held'[p].Seq < revision'
    BY <1>2, WriteMakesStale
  <2>2. \A p \in Capturers : draft'[p].Seq <= revision' + 1
    BY <1>2, <1>t DEF NamesBehind
  <2>3. \A p \in Clients : held'[p].Seq <= revision'
    BY <1>2, <1>t, <2>1
  <2> QED BY <1>0, <2>1, <2>2, <2>3 DEF NamesBehind, NotStaleMeansCurrent, IsStale
<1>3. ASSUME NEW p \in Capturers, Save(p) PROVE StalenessInv'
  <2>1. /\ revision' = revision + 1 /\ current'.data = draft[p].data
        /\ held'[p] = draft[p] /\ \A q \in Clients \ {p} : held'[q] = held[q]
    BY <1>3, <1>t, WriteType DEF Save, Snapshot, RigTypeOK, Clients
  <2>2. \A q \in Capturers : draft'[q].Seq \in {0, draft[q].Seq}
    BY <1>3 DEF Save, Empty, RigTypeOK
  <2>3. draft[p].Seq <= revision'
    BY <2>1 DEF NamesBehind
  <2>4. \A q \in Clients \ {p} : held'[q].Seq < revision'
    BY <2>1, WriteMakesStale
  <2>5. \A q \in Clients : held'[q].Seq <= revision'
    BY <1>t, <2>1, <2>3, <2>4
  <2>6. \A q \in Clients : ~(held'[q].Seq < revision') => held'[q].data = current'.data
    BY <2>1, <2>4
  <2>7. \A q \in Capturers : draft'[q].Seq <= revision' + 1
    BY <1>t, <2>1, <2>2 DEF NamesBehind
  <2> QED BY <1>0, <2>5, <2>6, <2>7 DEF NamesBehind, NotStaleMeansCurrent, IsStale
<1>4. ASSUME NEW p \in Swappers, Load(p) PROVE StalenessInv'
  <2>1. /\ held'[p] = current /\ \A q \in Clients \ {p} : held'[q] = held[q]
        /\ UNCHANGED <<current, revision, draft>>
    BY <1>4 DEF Load, RigTypeOK, Clients
  <2> QED
    BY <1>0, <1>t, <2>1 DEF NamesBehind, NotStaleMeansCurrent, IsStale, RigTypeOK
<1>5. ASSUME NEW i \in Entries, Change(i) PROVE StalenessInv'
  BY <1>1, <1>5 DEF Change, NamesBehind
<1>6. ASSUME NEW p \in Capturers, StartCapture(p) PROVE StalenessInv'
  <2>1. \A q \in Capturers : draft'[q].Seq \in {revision + 1, draft[q].Seq}
    BY <1>6 DEF StartCapture, Empty, RigTypeOK
  <2>2. DraftsBehind
    BY <1>t, <2>1 DEF NamesBehind
  <2> QED BY <1>1, <1>6, <2>2 DEF StartCapture
<1>7. ASSUME NEW p \in Capturers, NEW i \in Entries, ReadEntry(p, i) PROVE StalenessInv'
  <2>1. \A q \in Capturers : draft'[q].Seq = draft[q].Seq
    BY <1>7 DEF ReadEntry, RigTypeOK
  <2> QED BY <1>1, <1>7, <2>1 DEF ReadEntry, NamesBehind
<1>8. ASSUME NEW r \in Refreshers, Update(r) PROVE StalenessInv'
  BY <1>2, <1>8 DEF Update, Write
<1>9. ASSUME NEW r \in Refreshers, NEW i \in Entries, ReadForRefresh(r, i) PROVE StalenessInv'
  BY <1>1, <1>9 DEF ReadForRefresh, NamesBehind
<1>10. ASSUME NEW p \in Clients, CompareAndSwap(p) PROVE StalenessInv'
  BY <1>2, <1>10 DEF CompareAndSwap, Write
<1>11. CASE UNCHANGED rigVars
  BY <1>1, <1>11 DEF rigVars, NamesBehind
<1> QED
  BY <1>3, <1>4, <1>5, <1>6, <1>7, <1>8, <1>9, <1>10, <1>11 DEF RigNext

\* The invariant holds of a store nobody has written to.
LEMMA StalenessInit == RigInit => StalenessInv
<1> SUFFICES ASSUME RigInit PROVE StalenessInv
  OBVIOUS
<1>1. Empty(0).Seq = 0
  BY DEF Empty
<1> QED
  BY <1>1, RigTypeInit DEF StalenessInv, NamesBehind, NotStaleMeansCurrent, RigInit

\* The inductive invariant holds in every reachable state.
THEOREM StalenessInvAlways == RigSpec => []StalenessInv
  BY StalenessInit, StalenessNext, PTL DEF RigSpec

\* A snapshot that is not stale is what the store holds (Rig.Capture, Load).
THEOREM NotStaleMeansCurrentAlways == RigSpec => []NotStaleMeansCurrent
  BY StalenessInvAlways, PTL DEF StalenessInv

\* A successful CompareAndSwap loses no write of anybody else.
THEOREM SwapLosesNothingAlways == RigSpec => SwapLosesNothing
<1>1. ASSUME StalenessInv, NEW p \in Clients, CompareAndSwap(p)
      PROVE  current'.data = current.data
  <2>1. held[p].data = current.data
    BY <1>1 DEF StalenessInv, NotStaleMeansCurrent, IsStale, RigTypeOK, Snapshot, CompareAndSwap
  <2> QED BY <1>1, <2>1 DEF CompareAndSwap, Write
<1>2. StalenessInv /\ [RigNext]_rigVars =>
        [\A p \in Clients : CompareAndSwap(p) => current'.data = current.data]_rigVars
  BY <1>1
<1> QED
  BY <1>2, StalenessInvAlways, PTL DEF RigSpec, SwapLosesNothing

-------------------------------------------------------------------------------
(***************************************************************************)
(* The order of the captures.                                              *)
(***************************************************************************)

\* A goroutine that captures is not given other snapshots in between, which
\* may be ahead of the one it captures next.
CapturesOnly == Capturers \cap Swappers = {}

\* The inductive invariant: a capture reads what is current, so what it has
\* read is at least what any finished capture has handed out; and without the
\* mutex nothing has been read.
OrderInv ==
  /\ RigTypeOK
  /\ \A p \in Capturers, i \in Entries :
       /\ held[p].data[i] <= now[i]
       /\ draft[p].data[i] <= now[i]
       /\ draft[p].data[i] # 0 => draft[p].Seq # 0
       /\ \A q \in Capturers : draft[p].data[i] # 0 => held[q].data[i] <= draft[p].data[i]

\* Nothing has been read or handed out at first.
LEMMA OrderInit == RigInit => OrderInv
<1> SUFFICES ASSUME RigInit PROVE OrderInv
  OBVIOUS
<1>1. Empty(0).Seq = 0 /\ \A i \in Entries : Empty(0).data[i] = 0
  BY DEF Empty
<1>2. \A p \in Capturers : held[p] = Empty(0) /\ draft[p] = Empty(0)
  BY DEF RigInit, Clients
<1>3. \A i \in Entries : now[i] = 1
  BY DEF RigInit
<1> QED
  BY <1>1, <1>2, <1>3, RigTypeInit DEF OrderInv

\* Every step keeps the order; only a save hands out anything to a capturer,
\* and the mutex keeps all others from having read something older.
LEMMA OrderNext == CapturesOnly /\ OrderInv /\ [RigNext]_rigVars => OrderInv'
<1> SUFFICES ASSUME CapturesOnly, OrderInv, [RigNext]_rigVars PROVE OrderInv'
  OBVIOUS
<1>0. RigTypeOK /\ RigTypeOK'
  BY RigTypeNext DEF OrderInv
<1>t. /\ \A i \in Entries : now[i] \in Nat
      /\ \A p \in Capturers, i \in Entries :
           held[p].data[i] \in Nat /\ draft[p].data[i] \in Nat
  BY <1>0 DEF RigTypeOK, Snapshot, Clients
<1>u. UNCHANGED <<now, draft>> /\ (\A p \in Capturers : held'[p] = held[p]) => OrderInv'
  BY <1>0 DEF OrderInv
<1>1. ASSUME NEW c \in Entries, Change(c) PROVE OrderInv'
  <2>1. \A i \in Entries : now'[i] \in {now[i], now[i] + 1}
    BY <1>0, <1>1 DEF Change, RigTypeOK
  <2>2. \A i \in Entries : now[i] <= now'[i] /\ now'[i] \in Nat
    BY <1>t, <2>1
  <2>3. UNCHANGED <<draft, held>>
    BY <1>1 DEF Change
  <2>4. \A p \in Capturers, i \in Entries :
          held'[p].data[i] <= now'[i] /\ draft'[p].data[i] <= now'[i]
    BY <1>t, <2>2, <2>3 DEF OrderInv
  <2> QED
    BY <1>0, <2>3, <2>4 DEF OrderInv
<1>2. ASSUME NEW p \in Capturers, StartCapture(p) PROVE OrderInv'
  <2>1. /\ draft'[p] = Empty(revision + 1)
        /\ \A q \in Capturers \ {p} : draft'[q] = draft[q]
        /\ UNCHANGED <<now, held>>
    BY <1>0, <1>2 DEF StartCapture, RigTypeOK
  <2>2. \A i \in Entries : draft'[p].data[i] = 0
    BY <2>1 DEF Empty
  <2> QED
    BY <1>0, <1>t, <2>1, <2>2 DEF OrderInv
<1>3. ASSUME NEW p \in Capturers, NEW e \in Entries, ReadEntry(p, e) PROVE OrderInv'
  <2>1. /\ draft'[p].Seq = draft[p].Seq /\ draft[p].Seq # 0
        /\ draft'[p].data[e] = now[e]
        /\ \A i \in Entries \ {e} : draft'[p].data[i] = draft[p].data[i]
    BY <1>0, <1>3 DEF ReadEntry, RigTypeOK, Snapshot
  <2>2. /\ \A q \in Capturers \ {p} : draft'[q] = draft[q]
        /\ UNCHANGED <<now, held>>
    BY <1>0, <1>3 DEF ReadEntry, RigTypeOK
  <2>3. ASSUME NEW i \in Entries
        PROVE  /\ draft'[p].data[i] <= now'[i]
               /\ \A q \in Capturers : draft'[p].data[i] # 0 => held'[q].data[i] <= draft'[p].data[i]
    BY <1>t, <2>1, <2>2 DEF OrderInv
  <2> QED
    BY <1>0, <2>1, <2>2, <2>3 DEF OrderInv
<1>4. ASSUME NEW p \in Capturers, Save(p) PROVE OrderInv'
  <2>1. /\ held'[p] = draft[p] /\ \A q \in Capturers \ {p} : held'[q] = held[q]
        /\ now' = now
    BY <1>0, <1>4 DEF Save, RigTypeOK, Clients
  <2>2. \A q \in Capturers \ {p} : draft[q].Seq = 0
    BY <1>0, <1>4 DEF Save, RigTypeOK
  <2>3. \A q \in Capturers \ {p} : draft'[q] = draft[q]
    BY <1>0, <1>4 DEF Save, RigTypeOK
  <2>4. draft'[p] = Empty(0)
    BY <1>0, <1>4 DEF Save, RigTypeOK
  <2>5. \A q \in Capturers, i \in Entries : draft'[q].data[i] = 0
    BY <2>2, <2>3, <2>4 DEF OrderInv, Empty
  <2>6. \A q \in Capturers, i \in Entries : held'[q].data[i] <= now'[i]
    BY <2>1 DEF OrderInv
  <2> QED
    BY <1>0, <1>t, <2>1, <2>5, <2>6 DEF OrderInv
<1>5. ASSUME NEW s \in Swappers, Load(s) PROVE OrderInv'
  <2>1. UNCHANGED <<now, draft>> /\ \A p \in Capturers : held'[p] = held[p]
    BY <1>0, <1>5 DEF Load, RigTypeOK, Clients, CapturesOnly
  <2> QED
    BY <1>u, <2>1
<1>6. ASSUME NEW r \in Refreshers, Update(r) \/ \E i \in Entries : ReadForRefresh(r, i)
      PROVE  OrderInv'
  BY <1>u, <1>6 DEF Update, ReadForRefresh
<1>7. ASSUME NEW p \in Clients, CompareAndSwap(p) PROVE OrderInv'
  BY <1>u, <1>7 DEF CompareAndSwap
<1>8. CASE UNCHANGED rigVars
  BY <1>u, <1>8 DEF rigVars
<1> QED
  BY <1>1, <1>2, <1>3, <1>4, <1>5, <1>6, <1>7, <1>8 DEF RigNext

\* Captures are saved in the order in which they read (Rig.Capture under
\* Rig.mu), whatever the refreshes and the swaps do to the store meanwhile.
THEOREM CapturesInOrderAlways == CapturesOnly /\ RigSpec => CapturesInOrder
<1>1. ASSUME OrderInv, NEW p \in Capturers, NEW q \in Capturers, NEW i \in Entries, Save(p)
      PROVE  held[q].data[i] <= held'[p].data[i]
  <2>1. held'[p] = draft[p] /\ draft[p].data[i] # 0
    BY <1>1 DEF OrderInv, RigTypeOK, Save, Clients
  <2> QED
    BY <1>1, <2>1 DEF OrderInv
<1>2. OrderInv /\ [RigNext]_rigVars =>
        [\A p, q \in Capturers, i \in Entries :
           Save(p) => held[q].data[i] <= held'[p].data[i]]_rigVars
  BY <1>1
<1> SUFFICES ASSUME CapturesOnly PROVE RigSpec => CapturesInOrder
  OBVIOUS
<1>3. RigSpec => []OrderInv
  <2>1. OrderInv /\ [RigNext]_rigVars => OrderInv'
    BY OrderNext
  <2> QED
    BY <2>1, OrderInit, PTL DEF RigSpec
<1> QED
  BY <1>2, <1>3, PTL DEF RigSpec, CapturesInOrder
================================================================================

------------------------------ MODULE SnapshotRig ------------------------------
(***************************************************************************)
(* internal/store: the Rig collects the status of every crane and the      *)
(* cells, each under a lock of its own, and saves the whole in the         *)
(* SnapshotStore; refreshes update one entry of it meanwhile, and clients  *)
(* swap snapshots in on condition that the store has not moved on.  A      *)
(* status is known by its version (CraneStatus.Revision); alarms, clock    *)
(* readings and time stamps are left out, nothing decides on them.         *)
(***************************************************************************)
EXTENDS Naturals

CONSTANTS
  Cranes,        \* registered crane ids
  Cells,         \* the entry of the snapshot that holds the cells
  Capturers,     \* goroutines that call Rig.Capture
  Refreshers,    \* goroutines that call RefreshCrane and RefreshCells
  Swappers,      \* goroutines that call Load and CompareAndSwap
  Nobody,        \* no goroutine, no entry
  MaxVersion,    \* bound of the model on the versions of an entry
  MaxRevision    \* bound of the model on the writes to the store

ASSUME RigAssumption ==
  /\ Cells \notin Cranes
  /\ Nobody \notin Capturers \cup Cranes \cup {Cells}
  /\ MaxVersion \in Nat \ {0} /\ MaxRevision \in Nat

Entries == Cranes \cup {Cells}

Snapshot == [Seq : Nat, data : [Entries -> Nat]]

VARIABLES
  now,       \* the version each entry really has
  current,   \* SnapshotStore.current; version 0 is an absent entry
  revision,  \* SnapshotStore.revision
  mu,        \* the capture that holds Rig.mu
  draft,     \* the snapshot each capture is filling; without a name, none
  reading,   \* the entry and version each refresher is about to write
  held       \* the last snapshot each client was given

rigVars == <<now, current, revision, mu, draft, reading, held>>

Clients == Capturers \cup Swappers

Empty(seq) == [Seq |-> seq, data |-> [i \in Entries |-> 0]]

RigInit ==
  /\ now = [i \in Entries |-> 1]
  /\ current = Empty(0)
  /\ revision = 0
  /\ mu = Nobody
  /\ draft = [p \in Capturers |-> Empty(0)]
  /\ reading = [r \in Refreshers |-> [entry |-> Nobody, version |-> 0]]
  /\ held = [p \in Clients |-> current]

\* A crane's status, or a cell, changes.
Change(i) ==
  /\ now[i] < MaxVersion
  /\ now' = [now EXCEPT ![i] = @ + 1]
  /\ UNCHANGED <<current, revision, mu, draft, reading, held>>

\* Mutant: a write leaves the name of the snapshot as it was.
Write_KeepsName(data) ==
  /\ revision < MaxRevision
  /\ revision' = revision + 1
  /\ current' = [Seq |-> current.Seq, data |-> data]

\* A write to the store gives the next revision and stamps the snapshot with it.
Write(data) ==
  /\ revision < MaxRevision
  /\ revision' = revision + 1
  /\ current' = [Seq |-> revision + 1, data |-> data]

\* Mutant: captures do not exclude each other.
StartCapture_NoMutex(p) ==
  /\ draft[p] = Empty(0)
  /\ mu' = p
  /\ draft' = [draft EXCEPT ![p] = Empty(revision + 1)]
  /\ UNCHANGED <<now, current, revision, reading, held>>

\* Rig.Capture takes Rig.mu and names the snapshot before it fills it.
StartCapture(p) ==
  /\ draft[p] = Empty(0)
  /\ mu = Nobody
  /\ mu' = p
  /\ draft' = [draft EXCEPT ![p] = Empty(revision + 1)]
  /\ UNCHANGED <<now, current, revision, reading, held>>

\* SnapshotAll takes the cranes in any order; the cells come after them.
ReadEntry(p, i) ==
  LET read == draft[p].data IN
  /\ draft[p].Seq # 0
  /\ read[i] = 0
  /\ i = Cells => \A k \in Cranes : read[k] # 0
  /\ draft' = [draft EXCEPT ![p] =
       [Seq |-> draft[p].Seq, data |-> [read EXCEPT ![i] = now[i]]]]
  /\ UNCHANGED <<now, current, revision, mu, reading, held>>

\* Save stamps its own copy: the caller gets the snapshot under the old name.
Save(p) ==
  /\ draft[p].Seq # 0
  /\ \A i \in Entries : draft[p].data[i] # 0
  /\ Write(draft[p].data)
  /\ held' = [held EXCEPT ![p] = draft[p]]
  /\ mu' = Nobody
  /\ draft' = [draft EXCEPT ![p] = Empty(0)]
  /\ UNCHANGED <<now, reading>>

\* RefreshCrane and RefreshCells read an entry under its own lock ...
ReadForRefresh(r, i) ==
  /\ reading[r].entry = Nobody
  /\ reading' = [reading EXCEPT ![r] = [entry |-> i, version |-> now[i]]]
  /\ UNCHANGED <<now, current, revision, mu, draft, held>>

\* Mutant: an update of one entry is not counted as a write.
Update_Uncounted(r) ==
  LET i == reading[r].entry IN
  /\ i # Nobody
  /\ current' = [current EXCEPT !.data[i] = reading[r].version]
  /\ reading' = [reading EXCEPT ![r] = [entry |-> Nobody, version |-> 0]]
  /\ UNCHANGED <<now, revision, mu, draft, held>>

\* ... and write it into the store's snapshot: UpdateCrane, UpdateCells.
Update(r) ==
  LET i == reading[r].entry IN
  /\ i # Nobody
  /\ Write([current.data EXCEPT ![i] = reading[r].version])
  /\ reading' = [reading EXCEPT ![r] = [entry |-> Nobody, version |-> 0]]
  /\ UNCHANGED <<now, mu, draft, held>>

Load(p) ==
  /\ held' = [held EXCEPT ![p] = current]
  /\ UNCHANGED <<now, current, revision, mu, draft, reading>>

\* Mutant: an older expectation is good enough.
CompareAndSwap_Older(p) ==
  /\ revision >= held[p].Seq
  /\ Write(held[p].data)
  /\ UNCHANGED <<now, mu, draft, reading, held>>

\* A client puts its snapshot in on the expectation that it is the latest.
CompareAndSwap(p) ==
  /\ revision = held[p].Seq
  /\ Write(held[p].data)
  /\ UNCHANGED <<now, mu, draft, reading, held>>

\* SnapshotStore.IsStale.
IsStale(seq) == seq < revision

RigNext ==
  \/ \E i \in Entries : Change(i)
  \/ \E p \in Capturers :
       StartCapture(p) \/ Save(p) \/ \E i \in Entries : ReadEntry(p, i)
  \/ \E r \in Refreshers :
       Update(r) \/ \E i \in Entries : ReadForRefresh(r, i)
  \/ \E p \in Swappers : Load(p)
  \/ \E p \in Clients : CompareAndSwap(p)

RigSpec == RigInit /\ [][RigNext]_rigVars

-------------------------------------------------------------------------------
\* Types; the store's snapshot carries the store's revision, and only the
\* capture that holds the mutex is filling one.
RigTypeOK ==
  /\ now \in [Entries -> 1 .. MaxVersion]
  /\ current \in Snapshot
  /\ current.Seq = revision
  /\ mu \in Capturers \cup {Nobody}
  /\ draft \in [Capturers -> Snapshot]
  /\ \A p \in Capturers : draft[p].Seq # 0 <=> mu = p
  /\ reading \in [Refreshers ->
       [entry : Entries \cup {Nobody}, version : Nat]]
  /\ held \in [Clients -> Snapshot]

\* A snapshot that IsStale does not call stale is what the store holds, even
\* though Capture hands it out under a name it chose before the refreshes it
\* overlapped with.
NotStaleMeansCurrent ==
  \A p \in Clients : ~IsStale(held[p].Seq) => held[p].data = current.data

\* A swap that succeeds undoes nobody's write: putting back the snapshot a
\* client was given leaves the store's data as they are.
SwapLosesNothing ==
  [][\A p \in Clients : CompareAndSwap(p) => current'.data = current.data]_rigVars

\* Captures are saved in the order in which they read: no capture overwrites a
\* later one, and each hands out every status at least as new as the captures
\* before it did.  (A refresh can still take the store back to a status it read
\* before the last capture.)
CapturesInOrder ==
  [][\A p, q \in Capturers, i \in Entries :
       Save(p) => held[q].data[i] <= held'[p].data[i]]_rigVars
================================================================================

----------------------- MODULE SnapshotAgent_registry -----------------------
(***************************************************************************)
(* SnapshotAgent implements SnapshotRegistry: what the API shows of a      *)
(* snapshot changes in one step when the snapshot row is written, and then *)
(* disk by disk when it is deleted.                                        *)
(***************************************************************************)
EXTENDS SnapshotAgent_proofs

-----------------------------------------------------------------------------
(* The invariant the refinement rests on *)

\* Rows exist only for identifiers the kernel has handed out, so that the
\* next one is fresh; and no volume row is ever given its snap store.
IssuedInv ==
    /\ \A i \in SnapIds : Recorded(i) => i \in kIssued
    /\ \A r \in volRow : r.snap \in kIssued /\ r.store = NoStore

RowDisks(i) == {r.disk : r \in VolumeRowsOf(i)}

\* From the check under the lock to the snapshot row, the disks of a request
\* are in no snapshot; the stores collected, and then the volume rows, are
\* those of the disks already visited.
RequestInv ==
    /\ mpc \in StartStates \cup {"idle"} => got = {}
    /\ mpc \in EnsureStates \cup {"collect", "rows", "bitmap"} =>
          /\ req # {}
          /\ todo \subseteq req
          /\ \A d \in req : ~HasSnapshot(d)
    /\ mpc \in EnsureStates => DisksOf(got) = req \ todo
    /\ mpc \in {"initiate", "allocate", "record"} => StoreDisk[cur] \in todo
    /\ mpc \in {"collect", "rows", "bitmap"} =>
          /\ DisksOf(got) = req
          /\ sid \in kIssued
          /\ ~Recorded(sid)
    /\ mpc = "collect" => RowDisks(sid) = {}
    /\ mpc \in {"rows", "bitmap"} => RowDisks(sid) = req \ todo

\* A snapshot has volume rows for no disk but those of its stores, and a
\* deletion has still to visit the store of each row that is left.
RecordInv ==
    /\ \A i \in SnapIds : ActiveDisks(i) \subseteq DisksOf(snapRow[i])
    /\ mpc \in DeleteStates => ActiveDisks(sid) \subseteq DisksOf(got)

RegInv == IssuedInv /\ RequestInv /\ RecordInv

LEMMA RegInit == Init => RegInv
BY DEF Init, DBInit, RegInv, StartStates, IssuedInv, RequestInv, RecordInv, Recorded, ActiveDisks, VolumeRowsOf,
       EnsureStates, DeleteStates, DisksOf

-----------------------------------------------------------------------------
(* Steps that leave the volume and snapshot rows alone *)

LEMMA SameRows ==
    ASSUME UNCHANGED <<volRow, snapRow>>
    PROVE  /\ \A i : Recorded(i)' = Recorded(i)
           /\ \A i : RowDisks(i)' = RowDisks(i)
           /\ \A i : ActiveDisks(i)' = ActiveDisks(i)
           /\ \A d : HasSnapshot(d)' = HasSnapshot(d)
BY DEF Recorded, RowDisks, ActiveDisks, VolumeRowsOf, HasSnapshot

\* Rows that do not change say the same about identifiers and stores.
LEMMA RowsKept ==
    ASSUME RegInv, UNCHANGED <<volRow, snapRow>>, kIssued \subseteq kIssued'
    PROVE  /\ IssuedInv'
           /\ \A i \in SnapIds : ActiveDisks(i)' \subseteq DisksOf(snapRow'[i])
BY SameRows DEF RegInv, IssuedInv, RecordInv

\* Steps of the other actors.
LEMMA OthersKeepRegInv ==
    ASSUME RegInv, UNCHANGED <<mvars, volRow, snapRow, kIssued>>
    PROVE  RegInv'
<1>1. RequestInv'
  BY SameRows DEF RegInv, RequestInv, mvars
<1>2. RecordInv'
  BY SameRows, RowsKept DEF RegInv, RecordInv, mvars
<1>3. QED
  BY <1>1, <1>2, RowsKept DEF RegInv

\* Steps after which the request has nothing left to record or to delete.
LEMMA EndsKeepRegInv ==
    ASSUME RegInv, UNCHANGED <<volRow, snapRow, kIssued>>,
           mpc' \in StartStates \cup {"idle", "undo", "undostores"},
           mpc' \in StartStates \cup {"idle"} => got' = {}
    PROVE  RegInv'
<1>1. RequestInv'
  BY DEF RequestInv, StartStates, EnsureStates
<1>2. RecordInv'
  BY RowsKept DEF RecordInv, StartStates, DeleteStates
<1>3. QED
  BY <1>1, <1>2, RowsKept DEF RegInv

\* No volume row names a store, so marking the rows of one changes nothing.
LEMMA OverflowMarksNothing ==
    ASSUME DBTypeOK, IssuedInv, NEW s \in StoreIds, MarkOverflow(s)
    PROVE  volRow' = volRow
<1>1. \A r \in volRow : [r EXCEPT !.status = IF r.store = s THEN "overflow" ELSE @] = r
  <2>1. SUFFICES ASSUME NEW r \in volRow
                 PROVE  [r EXCEPT !.status = IF r.store = s THEN "overflow" ELSE @] = r
    OBVIOUS
  <2>2. r.store # s /\ r \in VolumeSnapshots
    BY NoStoreAssumption DEF IssuedInv, DBTypeOK
  <2>3. [r EXCEPT !.status = r.status] = r
    BY <2>2 DEF VolumeSnapshots
  <2>4. QED
    BY <2>2, <2>3
<1>2. QED
  BY <1>1 DEF MarkOverflow

-----------------------------------------------------------------------------
(* Steps of CreateSnapshot *)

LEMMA BeginCreateKeeps ==
    ASSUME RegInv, NEW D \in (SUBSET Disks) \ {{}}, BeginCreate(D)
    PROVE  RegInv'
<1>1. UNCHANGED <<volRow, snapRow, kIssued>>
  BY DEF BeginCreate, dbvars, kvars
<1>2. got' = {} /\ req' = D /\ todo' = D /\ mpc' = "ensure"
  BY DEF BeginCreate, RegInv, RequestInv
<1>3. \A d \in req' : ~HasSnapshot(d)'
  BY <1>1, SameRows DEF BeginCreate
<1>4. RequestInv'
  BY <1>2, <1>3 DEF RequestInv, EnsureStates, StartStates, DisksOf
<1>5. RecordInv'
  BY <1>1, <1>2, RowsKept DEF RecordInv, DeleteStates
<1>6. QED
  BY <1>1, <1>4, <1>5, RowsKept DEF RegInv

\* A store enters the collection as its disk leaves the loop.
LEMMA CollectStore ==
    ASSUME NEW s \in StoreIds, StoreDisk[s] \in todo, todo \subseteq req,
           DisksOf(got) = req \ todo, got' = got \cup {s}, todo' = todo \ {StoreDisk[s]}
    PROVE  DisksOf(got') = req \ todo'
<1>1. DisksOf(got') = DisksOf(got) \cup {StoreDisk[s]}
  BY DEF DisksOf
<1>2. QED
  BY <1>1

LEMMA EnsureKeeps ==
    ASSUME TypeInv, RegInv,
           \/ \E d \in Disks : ReuseStore(d) \/ InsertStoreRow(d)
           \/ InitiateStore
           \/ InitialAllocation
           \/ RecordInitialFile
    PROVE  RegInv'
<1>1. UNCHANGED <<volRow, snapRow, kIssued>>
  BY DEF ReuseStore, InsertStoreRow, InitiateStore, InitialAllocation, RecordInitialFile,
         KInitiate, dbvars, kvars
<1>2. CASE mpc' \in {"idle", "undo", "undostores"}
  <2>1. got' = {}
    BY <1>2 DEF ReuseStore, InsertStoreRow, InitiateStore, InitialAllocation,
                RecordInitialFile, Return, GoTo
  <2>2. QED
    BY <1>1, <1>2, <2>1, EndsKeepRegInv
<1>3. CASE mpc' \in EnsureStates
  <2>1. mpc \in EnsureStates /\ req' = req /\ todo' \subseteq todo
    BY <1>3 DEF ReuseStore, InsertStoreRow, InitiateStore, InitialAllocation,
                RecordInitialFile, Return, GoTo, EnsureStates
  <2>2. /\ req' # {}
        /\ todo' \subseteq req'
        /\ \A d \in req' : ~HasSnapshot(d)'
    BY <1>1, <2>1, SameRows DEF RegInv, RequestInv
  <2>3. DisksOf(got') = req' \ todo'
    <3>1. ASSUME NEW d \in Disks, ReuseStore(d) PROVE DisksOf(got') = req' \ todo'
      <4>1. PICK s \in StoresOfDisk(d) : got' = got \cup {s}
        BY <3>1 DEF ReuseStore
      <4>2. s \in StoreIds /\ StoreDisk[s] = d
        BY <4>1 DEF StoresOfDisk, TypeInv, DBTypeOK
      <4>3. QED
        BY <2>1, <3>1, <4>1, <4>2, CollectStore DEF ReuseStore, RegInv, RequestInv
    <3>2. CASE RecordInitialFile
      <4>1. cur \in StoreIds /\ StoreDisk[cur] \in todo
        BY <3>2 DEF RecordInitialFile, TypeInv, ManagerOK, RegInv, RequestInv
      <4>2. got' = got \cup {cur} /\ todo' = todo \ {StoreDisk[cur]}
        BY <1>3, <3>2 DEF RecordInitialFile, Return, GoTo, EnsureStates
      <4>3. QED
        BY <2>1, <4>1, <4>2, CollectStore DEF RegInv, RequestInv
    <3>3. CASE ~RecordInitialFile /\ ~\E d \in Disks : ReuseStore(d)
      <4>1. UNCHANGED <<req, todo, got>>
        BY <1>3, <3>3 DEF InsertStoreRow, InitiateStore, InitialAllocation, Return, GoTo,
                          EnsureStates
      <4>2. QED
        BY <2>1, <4>1 DEF RegInv, RequestInv, DisksOf
    <3>4. QED
      BY <3>1, <3>2, <3>3
  <2>4. mpc' \in {"initiate", "allocate", "record"} => StoreDisk[cur'] \in todo'
    <3>1. ASSUME NEW d \in Disks, InsertStoreRow(d) PROVE StoreDisk[cur'] \in todo'
      BY <3>1 DEF InsertStoreRow
    <3>2. CASE InitiateStore \/ InitialAllocation
      BY <1>3, <3>2 DEF InitiateStore, InitialAllocation, Return, GoTo, EnsureStates,
                        RegInv, RequestInv
    <3>3. CASE RecordInitialFile \/ \E d \in Disks : ReuseStore(d)
      BY <1>3, <3>3 DEF RecordInitialFile, ReuseStore, Return, GoTo, EnsureStates
    <3>4. QED
      BY <3>1, <3>2, <3>3
  <2>5. RequestInv'
    BY <1>3, <2>2, <2>3, <2>4 DEF RequestInv, EnsureStates, StartStates
  <2>6. RecordInv'
    BY <1>1, <1>3, RowsKept DEF RecordInv, EnsureStates, DeleteStates
  <2>7. QED
    BY <1>1, <2>5, <2>6, RowsKept DEF RegInv
<1>4. QED
  BY <1>2, <1>3 DEF ReuseStore, InsertStoreRow, InitiateStore, InitialAllocation,
                    RecordInitialFile, Return, GoTo, EnsureStates

LEMMA TakeSnapshotKeeps == TypeInv /\ RegInv /\ TakeSnapshot => RegInv'
<1>. SUFFICES ASSUME TypeInv, RegInv, TakeSnapshot PROVE RegInv'
  OBVIOUS
<1>1. PICK i \in SnapIds : KCreateSnapshot(i, req) /\ sid' = i
  BY DEF TakeSnapshot
<1>2. UNCHANGED <<req, todo, got, volRow, snapRow>> /\ kIssued' = kIssued \cup {i}
  BY <1>1 DEF TakeSnapshot, KCreateSnapshot, dbvars
<1>3. mpc = "ensure" /\ todo = {} /\ mpc' = "collect"
  BY DEF TakeSnapshot
<1>4. ~Recorded(i) /\ RowDisks(i) = {}
  BY <1>1 DEF KCreateSnapshot, RegInv, IssuedInv, RowDisks, VolumeRowsOf
<1>5. RequestInv'
  BY <1>1, <1>2, <1>3, <1>4, SameRows DEF RegInv, RequestInv, EnsureStates, StartStates, DisksOf
<1>6. RecordInv'
  BY <1>2, <1>3, RowsKept DEF RecordInv, DeleteStates
<1>7. QED
  BY <1>2, <1>5, <1>6, RowsKept DEF RegInv

LEMMA CollectInfoKeeps == RegInv /\ CollectInfo => RegInv'
<1>. SUFFICES ASSUME RegInv, CollectInfo PROVE RegInv'
  OBVIOUS
<1>1. UNCHANGED <<req, got, sid, cur, volRow, snapRow, kIssued>> /\ todo' = req
  BY DEF CollectInfo, dbvars, kvars
<1>2. CASE mpc' = "rows"
  <2>1. RequestInv'
    BY <1>1, <1>2, SameRows DEF CollectInfo, RegInv, RequestInv, EnsureStates, StartStates, DisksOf
  <2>2. RecordInv'
    BY <1>1, <1>2, RowsKept DEF RecordInv, DeleteStates
  <2>3. QED
    BY <1>1, <2>1, <2>2, RowsKept DEF RegInv
<1>3. CASE mpc' = "undo"
  BY <1>1, <1>3, EndsKeepRegInv DEF StartStates
<1>4. QED
  BY <1>2, <1>3 DEF CollectInfo

\* A row of a snapshot that is not recorded is not visible.
LEMMA HiddenRow ==
    ASSUME NEW i \in SnapIds, NEW d, ~Recorded(i), UNCHANGED snapRow,
           InsertVolumeRow(i, d) \/ DeleteVolumeRow(i, d)
    PROVE  /\ \A j \in SnapIds : ActiveDisks(j)' = ActiveDisks(j)
           /\ \A e : HasSnapshot(e)' = HasSnapshot(e)
           /\ \A j \in SnapIds : Recorded(j)' = Recorded(j)
           /\ InsertVolumeRow(i, d) => RowDisks(i)' = RowDisks(i) \cup {d}
<1>1. \A j \in SnapIds : Recorded(j)' = Recorded(j)
  BY DEF Recorded
<1>2. \A j \in SnapIds \ {i} : VolumeRowsOf(j)' = VolumeRowsOf(j)
  BY DEF VolumeRowsOf, InsertVolumeRow, DeleteVolumeRow, NewVolumeRow
<1>3. \A j \in SnapIds : ActiveDisks(j)' = ActiveDisks(j)
  BY <1>1, <1>2 DEF ActiveDisks
<1>4. ASSUME InsertVolumeRow(i, d) PROVE RowDisks(i)' = RowDisks(i) \cup {d}
  <2>1. VolumeRowsOf(i)' = VolumeRowsOf(i) \cup {NewVolumeRow(i, d)}
    BY <1>4 DEF InsertVolumeRow, VolumeRowsOf, NewVolumeRow
  <2>2. NewVolumeRow(i, d).disk = d
    BY DEF NewVolumeRow
  <2>3. QED
    BY <2>1, <2>2 DEF RowDisks
<1>5. \A e : HasSnapshot(e)' = HasSnapshot(e)
  BY <1>3 DEF HasSnapshot
<1>6. QED
  BY <1>1, <1>3, <1>4, <1>5

LEMMA InsertRowsKeeps ==
    ASSUME TypeInv, RegInv, NEW s \in StoreIds, InsertRows(s)
    PROVE  RegInv'
<1>1. /\ mpc = "rows" /\ mpc' = "bitmap"
      /\ UNCHANGED <<req, got, sid, snapRow, kIssued>>
      /\ StoreDisk[s] \in todo /\ todo' = todo \ {StoreDisk[s]}
      /\ InsertVolumeRow(sid, StoreDisk[s])
  BY DEF InsertRows, kvars
<1>2. sid \in SnapIds /\ sid \in kIssued /\ ~Recorded(sid)
  BY <1>1 DEF TypeInv, ManagerOK, RegInv, RequestInv
<1>3. IssuedInv'
  BY <1>1, <1>2, HiddenRow DEF RegInv, IssuedInv, InsertVolumeRow, NewVolumeRow
<1>4. RowDisks(sid)' = req' \ todo'
  <2>1. RowDisks(sid)' = RowDisks(sid) \cup {StoreDisk[s]}
    BY <1>1, <1>2, HiddenRow
  <2>2. RowDisks(sid) = req \ todo /\ todo \subseteq req
    BY <1>1 DEF RegInv, RequestInv
  <2>3. QED
    BY <1>1, <2>1, <2>2
<1>5. RequestInv'
  BY <1>1, <1>2, <1>4, HiddenRow DEF RegInv, RequestInv, EnsureStates, StartStates, DisksOf
<1>6. RecordInv'
  BY <1>1, <1>2, HiddenRow DEF RegInv, RecordInv, DeleteStates, DisksOf
<1>7. QED
  BY <1>3, <1>5, <1>6 DEF RegInv

LEMMA FetchBitmapKeeps == TypeInv /\ RegInv /\ FetchBitmap => RegInv'
<1>. SUFFICES ASSUME TypeInv, RegInv, FetchBitmap PROVE RegInv'
  OBVIOUS
<1>1. mpc = "bitmap" /\ UNCHANGED <<snapRow, kIssued>>
  BY DEF FetchBitmap, kvars
<1>2. CASE UNCHANGED <<req, todo, got, sid, volRow>> /\ mpc' = "rows"
  <2>1. RequestInv'
    BY <1>1, <1>2, SameRows DEF RegInv, RequestInv, EnsureStates, StartStates, DisksOf
  <2>2. RecordInv'
    BY <1>1, <1>2, RowsKept DEF RecordInv, DeleteStates
  <2>3. QED
    BY <1>1, <1>2, <2>1, <2>2, RowsKept DEF RegInv
<1>3. CASE DeleteVolumeRow(sid, StoreDisk[cur]) /\ Return
  <2>1. sid \in SnapIds /\ ~Recorded(sid)
    BY <1>1 DEF TypeInv, ManagerOK, RegInv, RequestInv
  <2>2. IssuedInv'
    BY <1>1, <1>3, <2>1, HiddenRow DEF RegInv, IssuedInv, DeleteVolumeRow
  <2>3. RequestInv'
    BY <1>3 DEF RequestInv, Return, GoTo, EnsureStates, StartStates
  <2>4. RecordInv'
    BY <1>1, <1>3, <2>1, HiddenRow DEF RegInv, RecordInv, DeleteStates, DisksOf, Return, GoTo
  <2>5. QED
    BY <2>2, <2>3, <2>4 DEF RegInv
<1>4. QED
  BY <1>2, <1>3 DEF FetchBitmap

\* The step that makes a snapshot visible.
LEMMA RecordedAtOnce ==
    ASSUME TypeInv, RegInv, RecordSnapshot
    PROVE  /\ req \in SUBSET Disks /\ req # {}
           /\ sid \in SnapIds
           /\ ActiveDisks(sid) = {}
           /\ \A j \in SnapIds : ActiveDisks(j) \cap req = {}
           /\ \A j \in SnapIds : ActiveDisks(j)' = IF j = sid THEN req ELSE ActiveDisks(j)
           /\ \A j \in SnapIds : Recorded(j)' = (j = sid \/ Recorded(j))
           /\ DisksOf(got) = req
<1>1. /\ mpc = "rows" /\ todo = {}
      /\ snapRow' = [snapRow EXCEPT ![sid] = got] /\ UNCHANGED volRow
  BY DEF RecordSnapshot
<1>2. /\ sid \in SnapIds /\ req \in SUBSET Disks /\ req # {}
      /\ snapRow \in [SnapIds -> SUBSET StoreIds]
  BY <1>1 DEF TypeInv, ManagerOK, DBTypeOK, RegInv, RequestInv
<1>3. DisksOf(got) = req /\ ~Recorded(sid) /\ RowDisks(sid) = req /\ got # {}
  BY <1>1, <1>2 DEF RegInv, RequestInv, DisksOf
<1>4. \A j \in SnapIds : ActiveDisks(j) \cap req = {}
  BY <1>1 DEF RegInv, RequestInv, HasSnapshot
<1>5. \A j \in SnapIds : Recorded(j)' = (j = sid \/ Recorded(j))
  BY <1>1, <1>2, <1>3 DEF Recorded
<1>6. \A j : VolumeRowsOf(j)' = VolumeRowsOf(j)
  BY <1>1 DEF VolumeRowsOf
<1>7. \A j \in SnapIds : ActiveDisks(j)' = IF j = sid THEN req ELSE ActiveDisks(j)
  BY <1>2, <1>3, <1>5, <1>6 DEF ActiveDisks, RowDisks
<1>8. ActiveDisks(sid) = {}
  BY <1>3 DEF ActiveDisks
<1>9. QED
  BY <1>2, <1>3, <1>4, <1>5, <1>7, <1>8

LEMMA RecordSnapshotKeeps == TypeInv /\ RegInv /\ RecordSnapshot => RegInv'
<1>. SUFFICES ASSUME TypeInv, RegInv, RecordSnapshot PROVE RegInv'
  OBVIOUS
<1>1. /\ snapRow' = [snapRow EXCEPT ![sid] = got] /\ UNCHANGED <<volRow, kIssued>>
      /\ snapRow \in [SnapIds -> SUBSET StoreIds] /\ mpc = "rows"
  BY DEF RecordSnapshot, kvars, TypeInv, DBTypeOK
<1>2. mpc' = "idle" /\ got' = {}
  BY DEF RecordSnapshot, Return, GoTo
<1>3. IssuedInv'
  BY <1>1, RecordedAtOnce DEF RegInv, RequestInv, IssuedInv
<1>4. RequestInv'
  BY <1>2 DEF RequestInv, EnsureStates
<1>5. \A j \in SnapIds : ActiveDisks(j)' \subseteq DisksOf(snapRow'[j])
  BY <1>1, RecordedAtOnce DEF RegInv, RecordInv, DisksOf
<1>6. RecordInv'
  BY <1>2, <1>5 DEF RecordInv, DeleteStates
<1>7. QED
  BY <1>3, <1>4, <1>6 DEF RegInv

-----------------------------------------------------------------------------
(* Steps of DeleteSnapshot *)

LEMMA BeginDeleteKeeps ==
    ASSUME TypeInv, RegInv, NEW i \in SnapIds, BeginDelete(i)
    PROVE  RegInv'
<1>1. /\ UNCHANGED <<volRow, snapRow, kIssued>>
      /\ sid' = i /\ got' = snapRow[i] /\ mpc' = "delstores"
  BY DEF BeginDelete, KDeleteSnapshot, dbvars
<1>2. RequestInv'
  BY <1>1 DEF RequestInv, EnsureStates, StartStates
<1>3. RecordInv'
  BY <1>1, RowsKept, SameRows DEF RegInv, RecordInv
<1>4. QED
  BY <1>1, <1>2, <1>3, RowsKept DEF RegInv

LEMMA DeleteStoreKeeps ==
    ASSUME RegInv, (\E s \in StoreIds : DeleteStore(s)) \/ DeleteFileRows \/ DeleteStoreRow
    PROVE  RegInv'
<1>1. /\ UNCHANGED <<volRow, snapRow, kIssued, sid, got>>
      /\ mpc \in DeleteStates /\ mpc' \in DeleteStates
  BY DEF DeleteStore, DeleteFileRows, DeleteStoreRow, KCleanup, kvars, dbvars, DeleteStates
<1>2. RequestInv'
  BY <1>1 DEF RequestInv, EnsureStates, StartStates, DeleteStates
<1>3. RecordInv'
  BY <1>1, RowsKept, SameRows DEF RegInv, RecordInv
<1>4. QED
  BY <1>1, <1>2, <1>3, RowsKept DEF RegInv

\* A volume row that goes takes its disk, and no other, out of the snapshot.
LEMMA ReleasedDisk ==
    ASSUME TypeInv, NEW s \in StoreIds, DeleteVolume(s)
    PROVE  /\ sid \in SnapIds
           /\ \A j \in SnapIds :
                 ActiveDisks(j)' = IF j = sid THEN ActiveDisks(j) \ {StoreDisk[s]}
                                             ELSE ActiveDisks(j)
<1>1. mpc \in DeleteStates /\ DeleteVolumeRow(sid, StoreDisk[s]) /\ UNCHANGED snapRow
  BY DEF DeleteVolume, DeleteStates
<1>2. sid \in SnapIds
  BY <1>1 DEF TypeInv, ManagerOK
<1>3. \A j : Recorded(j)' = Recorded(j)
  BY <1>1 DEF Recorded
<1>4. \A j : VolumeRowsOf(j)' = IF j = sid THEN {r \in VolumeRowsOf(j) : r.disk # StoreDisk[s]}
                                           ELSE VolumeRowsOf(j)
  BY <1>1 DEF VolumeRowsOf, DeleteVolumeRow
<1>5. QED
  BY <1>2, <1>3, <1>4 DEF ActiveDisks

LEMMA DeleteVolumeKeeps ==
    ASSUME TypeInv, RegInv, NEW s \in StoreIds, DeleteVolume(s)
    PROVE  RegInv'
<1>1. /\ UNCHANGED <<sid, snapRow, kIssued>> /\ got' = got \ {s}
      /\ mpc \in DeleteStates /\ mpc' = "delvols"
      /\ volRow' \subseteq volRow
  BY DEF DeleteVolume, DeleteVolumeRow, kvars, DeleteStates
<1>2. IssuedInv'
  BY <1>1 DEF RegInv, IssuedInv, Recorded
<1>3. RequestInv'
  BY <1>1 DEF RequestInv, EnsureStates, StartStates
<1>4. \A j \in SnapIds : ActiveDisks(j)' \subseteq DisksOf(snapRow'[j])
  BY <1>1, ReleasedDisk DEF RegInv, RecordInv
<1>5. ActiveDisks(sid)' \subseteq DisksOf(got')
  <2>1. ActiveDisks(sid)' = ActiveDisks(sid) \ {StoreDisk[s]}
    BY <1>1, ReleasedDisk
  <2>2. ActiveDisks(sid) \subseteq DisksOf(got)
    BY <1>1 DEF RegInv, RecordInv
  <2>3. QED
    BY <1>1, <2>1, <2>2 DEF DisksOf
<1>6. RecordInv'
  BY <1>4, <1>5 DEF RecordInv
<1>7. QED
  BY <1>2, <1>3, <1>6 DEF RegInv

\* The snapshot row goes when no volume row is left to be visible.
LEMMA RecordGone ==
    ASSUME TypeInv, RegInv, DeleteRecord
    PROVE  /\ \A j \in SnapIds : ActiveDisks(j)' = ActiveDisks(j)
           /\ \A j \in SnapIds : Recorded(j)' = (j # sid /\ Recorded(j))
<1>1. /\ mpc = "delvols" /\ got = {}
      /\ snapRow' = [snapRow EXCEPT ![sid] = {}] /\ UNCHANGED volRow
      /\ snapRow \in [SnapIds -> SUBSET StoreIds]
  BY DEF DeleteRecord, TypeInv, DBTypeOK
<1>2. sid \in SnapIds /\ ActiveDisks(sid) = {}
  BY <1>1 DEF TypeInv, ManagerOK, RegInv, RecordInv, DeleteStates, DisksOf
<1>3. \A j \in SnapIds : Recorded(j)' = (j # sid /\ Recorded(j))
  BY <1>1 DEF Recorded
<1>4. \A j : VolumeRowsOf(j)' = VolumeRowsOf(j)
  BY <1>1 DEF VolumeRowsOf
<1>5. QED
  BY <1>2, <1>3, <1>4 DEF ActiveDisks

LEMMA DeleteRecordKeeps == TypeInv /\ RegInv /\ DeleteRecord => RegInv'
<1>. SUFFICES ASSUME TypeInv, RegInv, DeleteRecord PROVE RegInv'
  OBVIOUS
<1>1. /\ mpc = "delvols" /\ got = {}
      /\ snapRow' = [snapRow EXCEPT ![sid] = {}] /\ UNCHANGED <<volRow, kIssued>>
      /\ snapRow \in [SnapIds -> SUBSET StoreIds]
      /\ mpc' = "idle" /\ got' = {}
  BY DEF DeleteRecord, Return, GoTo, kvars, TypeInv, DBTypeOK
<1>2. sid \in SnapIds /\ ActiveDisks(sid) = {}
  BY <1>1 DEF TypeInv, ManagerOK, RegInv, RecordInv, DeleteStates, DisksOf
<1>3. IssuedInv'
  BY <1>1, RecordGone DEF RegInv, IssuedInv
<1>4. RequestInv'
  BY <1>1 DEF RequestInv, EnsureStates
<1>5. \A j \in SnapIds : ActiveDisks(j)' \subseteq DisksOf(snapRow'[j])
  BY <1>1, <1>2, RecordGone DEF RegInv, RecordInv
<1>6. RecordInv'
  BY <1>1, <1>5 DEF RecordInv, DeleteStates
<1>7. QED
  BY <1>3, <1>4, <1>6 DEF RegInv

-----------------------------------------------------------------------------
(* Steps that lose the database *)

LEMMA NothingListed ==
    ASSUME LoseDB
    PROVE  \A j \in SnapIds : ~Recorded(j)' /\ ActiveDisks(j)' = {}
BY DEF LoseDB, Recorded, ActiveDisks

LEMMA LoseDBKeeps ==
    ASSUME LoseDB, GoTo("down")
    PROVE  RegInv'
<1>1. IssuedInv'
  BY NothingListed DEF IssuedInv, LoseDB
<1>2. RequestInv'
  BY DEF RequestInv, GoTo, EnsureStates, StartStates
<1>3. RecordInv'
  BY NothingListed DEF RecordInv, GoTo, DeleteStates
<1>4. QED
  BY <1>1, <1>2, <1>3 DEF RegInv

-----------------------------------------------------------------------------
(* The invariant, and the refinement *)

\* Steps of the message handler, the watchers, the kernel and usage queries.
OtherStep ==
    \/ HandlerStep
    \/ WatchersStep
    \/ KernelStep
    \/ \E s \in StoreIds : QueryUsage(s)
    \/ UNCHANGED vars

LEMMA OtherRows ==
    ASSUME TypeInv, RegInv, OtherStep
    PROVE  UNCHANGED <<mvars, volRow, snapRow, kIssued>>
<1>1. CASE HandleOverflow
  <2>1. Head(msgChan).store \in StoreIds
    BY <1>1, TakeMessageTypes DEF HandleOverflow, TypeInv
  <2>2. UNCHANGED volRow
    BY <1>1, <2>1, OverflowMarksNothing DEF HandleOverflow, TypeInv, RegInv
  <2>3. QED
    BY <1>1, <2>2 DEF HandleOverflow, kvars
<1>2. CASE HandlerStep /\ ~HandleOverflow
  BY <1>2 DEF HandlerStep, HandleAddFile, InsertFileRow, HandleDeleted, HandlerDeleteFiles,
              HandlerDeleteStore, HandleError, kvars, dbvars
<1>3. CASE WatchersStep
  BY <1>3 DEF WatchersStep, WatcherStep, ReadHalfFill, ReadOverflow, ReadTerminate, ReadError,
              Send, kvars, dbvars
<1>4. CASE KernelStep
  BY <1>4 DEF KernelStep, KEvent, dbvars
<1>5. CASE \E s \in StoreIds : QueryUsage(s)
  BY <1>5 DEF QueryUsage, KCleanup, dbvars
<1>6. CASE UNCHANGED vars
  BY <1>6 DEF vars, kvars, dbvars
<1>7. QED
  BY <1>1, <1>2, <1>3, <1>4, <1>5, <1>6 DEF OtherStep

\* Steps after which the request is over or gives back what it took, and the
\* steps of the start.
EndStep ==
    \/ \E d \in Disks : NoMapping(d)
    \/ UndoSnapshot
    \/ UndoDone
    \/ \E s \in StoreIds : UndoStore(s)
    \/ RequestFails
    \/ StartStep
    \/ CleanStorageFails
    \/ AttachFails
    \/ Crash /\ KeepsDB

LEMMA EndRows ==
    ASSUME RegInv, EndStep
    PROVE  /\ UNCHANGED <<volRow, snapRow, kIssued>>
           /\ mpc' \in StartStates \cup {"idle", "undo", "undostores"}
           /\ mpc' \in StartStates \cup {"idle"} => got' = {}
<1>1. CASE (\E d \in Disks : NoMapping(d)) \/ UndoDone \/ RequestFails
  BY <1>1 DEF NoMapping, UndoDone, RequestFails, InitiateFails, TakeSnapshotFails, RowsFail,
              RecordSnapshotFails, DeleteStoreFails, DeleteRecordFails, Return, GoTo, StartStates,
              kvars, dbvars
<1>2. CASE UndoSnapshot \/ \E s \in StoreIds : UndoStore(s)
  BY <1>2 DEF UndoSnapshot, UndoStore, KDeleteSnapshot, KCleanup, StartStates, kvars, dbvars
<1>3. CASE StartStep \/ CleanStorageFails \/ AttachFails
  BY <1>3 DEF StartStep, OpenDB, CleanStorage, AttachWatchers, CleanStorageFails, AttachFails,
              KInitiate, StartStates, kvars, dbvars, RegInv, RequestInv
<1>4. CASE Crash /\ KeepsDB
  BY <1>4 DEF Crash, GoTo, KCloseAll, StartStates, dbvars
<1>5. QED
  BY <1>1, <1>2, <1>3, <1>4 DEF EndStep

LEMMA RegStep == TypeInv /\ RegInv /\ [Next]_vars => RegInv'
<1>. SUFFICES ASSUME TypeInv, RegInv, [Next]_vars PROVE RegInv'
  OBVIOUS
<1>1. CASE OtherStep
  BY <1>1, OtherRows, OthersKeepRegInv
<1>2. CASE EndStep
  BY <1>2, EndRows, EndsKeepRegInv
<1>3. CASE (Crash /\ ~KeepsDB) \/ Reboot
  BY <1>3, LoseDBKeeps DEF Crash, Reboot
<1>4. CASE NewRequest
  BY <1>1, <1>4, BeginCreateKeeps, BeginDeleteKeeps DEF NewRequest, OtherStep
<1>5. CASE RequestStep
  BY <1>2, <1>5, EnsureKeeps, TakeSnapshotKeeps, CollectInfoKeeps, FetchBitmapKeeps,
     RecordSnapshotKeeps, InsertRowsKeeps, DeleteStoreKeeps, DeleteVolumeKeeps, DeleteRecordKeeps
     DEF RequestStep, EndStep
<1>6. QED
  BY <1>1, <1>2, <1>3, <1>4, <1>5 DEF Next, OtherStep, EndStep

\* What the abstract specification sees.
Active == [i \in SnapIds |-> ActiveDisks(i)]

LEMMA SameActive ==
    ASSUME \A i \in SnapIds : ActiveDisks(i)' = ActiveDisks(i)
    PROVE  UNCHANGED Active
BY DEF Active

LEMMA HiddenStep ==
    ASSUME TypeInv, RegInv, FetchBitmap \/ \E s \in StoreIds : InsertRows(s)
    PROVE  UNCHANGED Active
<1>1. CASE FetchBitmap
  <2>1. mpc = "bitmap" /\ UNCHANGED snapRow /\ (UNCHANGED volRow \/ DeleteVolumeRow(sid, StoreDisk[cur]))
    BY <1>1 DEF FetchBitmap
  <2>2. sid \in SnapIds /\ ~Recorded(sid)
    BY <2>1 DEF TypeInv, ManagerOK, RegInv, RequestInv
  <2>3. QED
    BY <2>1, <2>2, SameRows, HiddenRow, SameActive
<1>2. ASSUME NEW s \in StoreIds, InsertRows(s) PROVE UNCHANGED Active
  <2>1. mpc = "rows" /\ UNCHANGED snapRow /\ InsertVolumeRow(sid, StoreDisk[s])
    BY <1>2 DEF InsertRows
  <2>2. sid \in SnapIds /\ ~Recorded(sid)
    BY <2>1 DEF TypeInv, ManagerOK, RegInv, RequestInv
  <2>3. QED
    BY <2>1, <2>2, HiddenRow, SameActive
<1>3. QED
  BY <1>1, <1>2

LEMMA RegistryStep == TypeInv /\ RegInv /\ [Next]_vars => [Registry!Next]_Active
<1>. SUFFICES ASSUME TypeInv, RegInv, [Next]_vars PROVE [Registry!Next]_Active
  OBVIOUS
<1>1. CASE UNCHANGED <<volRow, snapRow>>
  BY <1>1, SameRows, SameActive
<1>2. CASE RecordSnapshot
  <2>1. Active' = [Active EXCEPT ![sid] = req]
    BY <1>2, RecordedAtOnce DEF Active
  <2>2. Registry!Create(sid, req)
    BY <1>2, <2>1, RecordedAtOnce DEF Registry!Create, Active
  <2>3. QED
    BY <1>2, <2>2, RecordedAtOnce DEF Registry!Next
<1>3. ASSUME NEW s \in StoreIds, DeleteVolume(s) PROVE [Registry!Next]_Active
  <2>1. sid \in SnapIds /\ Active' = [Active EXCEPT ![sid] = @ \ {StoreDisk[s]}]
    BY <1>3, ReleasedDisk DEF Active
  <2>2. CASE StoreDisk[s] \in Active[sid]
    <3>1. Registry!Release(sid, StoreDisk[s])
      BY <2>1, <2>2 DEF Registry!Release, Active
    <3>2. StoreDisk[s] \in Disks
      BY StoreDiskAssumption
    <3>3. QED
      BY <2>1, <3>1, <3>2 DEF Registry!Next
  <2>3. CASE StoreDisk[s] \notin Active[sid]
    BY <2>1, <2>3 DEF Active
  <2>4. QED
    BY <2>2, <2>3
<1>4. CASE DeleteRecord
  BY <1>4, RecordGone, SameActive
<1>5. CASE (Crash /\ ~KeepsDB) \/ Reboot
  <2>1. Registry!Forget
    BY <1>5, NothingListed DEF Crash, Reboot, Registry!Forget
  <2>2. QED
    BY <2>1 DEF Registry!Next
<1>6. CASE OtherStep \/ EndStep
  BY <1>1, <1>6, OtherRows, EndRows
<1>7. CASE NewRequest
  BY <1>1, <1>6, <1>7 DEF NewRequest, OtherStep, BeginCreate, BeginDelete, dbvars
<1>8. CASE FetchBitmap \/ \E s \in StoreIds : InsertRows(s)
  BY <1>8, HiddenStep
<1>9. CASE RequestStep
  BY <1>1, <1>2, <1>3, <1>4, <1>6, <1>8, <1>9
     DEF RequestStep, EndStep, ReuseStore, InsertStoreRow, InitiateStore, InitialAllocation,
         RecordInitialFile, TakeSnapshot, CollectInfo, DeleteFileRows, DeleteStoreRow, DeleteStore,
         dbvars
<1>10. QED
  BY <1>5, <1>6, <1>7, <1>9 DEF Next, OtherStep, EndStep

LEMMA RegistryInit == Init => Registry!Init
BY DEF Init, DBInit, Registry!Init, ActiveDisks, Recorded

\* To the clients of the API, CreateSnapshot and DeleteSnapshot behave like
\* SnapshotRegistry: whatever fails and whenever the process goes down, a
\* snapshot appears with all its disks at once, and only with disks that are in
\* no other snapshot (manager.go:480-490, 675).
THEOREM RefinesRegistry == Spec => ImplementsRegistry
<1>1. Init => TypeInv /\ RegInv
  BY InitTypes, RegInit
<1>2. TypeInv /\ RegInv /\ [Next]_vars => TypeInv' /\ RegInv'
  BY TypeStep, RegStep
<1>3. TypeInv /\ RegInv /\ [Next]_vars => [Registry!Next]_[i \in SnapIds |-> ActiveDisks(i)]
  BY RegistryStep DEF Active
<1>4. QED
  BY <1>1, <1>2, <1>3, RegistryInit, PTL DEF Spec, ImplementsRegistry, Registry!Spec
=============================================================================

------------------------------- MODULE AgentDB -------------------------------
(***************************************************************************)
(* The tables of db/db.go that snapshots touch.  Rows are kept up to what  *)
(* the snapshot life cycle tells apart: a store row is its identifier      *)
(* (which fixes its disk), the file rows of a store count as one, and      *)
(* image rows, which nothing reads, are left out.  Each operator is one    *)
(* bolt transaction.                                                       *)
(***************************************************************************)
EXTENDS VeeamSnap

CONSTANT NoStore  \* the SnapStore field of a row that was never given one

ASSUME NoStoreAssumption == NoStore \notin StoreIds

VARIABLES
    dbFile,       \* whether the database file exists
    storeRow,     \* SnapStore rows
    storeIssued,  \* identifiers uuid.New() has returned for snap stores
    fileRow,      \* stores that SnapStoreFile rows refer to
    volRow,       \* VolumeSnapshot rows
    snapRow       \* Snapshot rows: the stores of the VolumeSnapshots embedded
                  \* in each; {} where there is no row

dbvars == <<dbFile, storeRow, storeIssued, fileRow, volRow, snapRow>>

VolumeStatus == {"healthy", "overflow"}

VolumeSnapshots ==
    [snap : SnapIds, disk : Disks, store : StoreIds \cup {NoStore}, status : VolumeStatus]

DBTypeOK ==
    /\ dbFile \in BOOLEAN
    /\ storeRow \subseteq StoreIds
    /\ storeIssued \subseteq StoreIds
    /\ fileRow \subseteq StoreIds
    /\ volRow \subseteq VolumeSnapshots
    /\ snapRow \in [SnapIds -> SUBSET StoreIds]

DBInit ==
    /\ dbFile = FALSE
    /\ storeRow = {}
    /\ storeIssued = {}
    /\ fileRow = {}
    /\ volRow = {}
    /\ snapRow = [i \in SnapIds |-> {}]

\* The database file is removed, or was on a tmpfs that is gone.
LoseDB ==
    /\ dbFile' = FALSE
    /\ storeRow' = {}
    /\ fileRow' = {}
    /\ volRow' = {}
    /\ snapRow' = [i \in SnapIds |-> {}]
    /\ UNCHANGED storeIssued

-----------------------------------------------------------------------------
Recorded(i) == snapRow[i] # {}

VolumeRowsOf(i) == {r \in volRow : r.snap = i}

\* The disks a snapshot covers as far as the database can tell.
ActiveDisks(i) == IF Recorded(i) THEN {r.disk : r \in VolumeRowsOf(i)} ELSE {}

\* ListSnapshotsForDisk: the disk's volume rows joined with the snapshot rows.
HasSnapshot(d) == \E i \in SnapIds : d \in ActiveDisks(i)

\* GetSnapStoreByDiskID, FindSnapStoresForDevice
StoresOfDisk(d) == {s \in storeRow : StoreDisk[s] = d}

\* A volume row as CreateSnapshot inserts it: the snap store is only filled in
\* afterwards, in the copy that goes into the snapshot row (manager.go:651-669).
NewVolumeRow(i, d) ==
    [snap |-> i, disk |-> d, store |-> NoStore, status |-> "healthy"]

InsertVolumeRow(i, d) == volRow' = volRow \cup {NewVolumeRow(i, d)}

DeleteVolumeRow(i, d) ==
    volRow' = {r \in volRow : ~(r.snap = i /\ r.disk = d)}

\* ListVolumeSnapshotsBySnapstoreID, then UpdateVolumeSnapshot on each row.
MarkOverflow(s) ==
    volRow' = {[r EXCEPT !.status = IF r.store = s THEN "overflow" ELSE @] : r \in volRow}
=============================================================================

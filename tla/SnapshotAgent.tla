---------------------------- MODULE SnapshotAgent ----------------------------
(***************************************************************************)
(* worker/manager: the life cycle of a snapshot from the API call that     *)
(* takes it to the last row, file and kernel object it leaves behind.      *)
(*                                                                         *)
(* Four kinds of actors step independently: the request that holds         *)
(* Snapshot.mux (at most one, so one program counter, mpc, is enough), the *)
(* goroutine that handles watcher messages without that lock, one watcher  *)
(* per snap store, and the kernel.  The process can be killed between any  *)
(* two steps and is started again by systemd.                              *)
(***************************************************************************)
EXTENDS SnapStoreWatcher

CONSTANTS
    NoSnap,     \* no snapshot identifier yet
    MaxStops,   \* bound of the model on how often the process goes down
    Reboots,    \* whether it may go down because the machine does
    KeepsDB     \* whether the database outlives the process

ASSUME NoSnapAssumption == NoSnap \notin SnapIds
ASSUME StopsAssumption == MaxStops \in Nat /\ Reboots \in BOOLEAN /\ KeepsDB \in BOOLEAN

VARIABLES
    mpc,    \* where the request holding the lock, or the start-up code, is
    req,    \* the disks it was asked to snapshot
    todo,   \* the disks its current loop has yet to visit
    got,    \* snapStores: the snap stores it collected
    sid,    \* the snapshot it works on
    cur,    \* the snap store its current step works on
    hpc,    \* where handleWatcherMessages is
    hcur,   \* the snap store of the message it handles
    stops   \* how often the process went down (bounded by MaxStops)

mvars == <<mpc, req, todo, got, sid, cur>>
hvars == <<hpc, hcur>>
vars == <<kvars, dbvars, wvars, mvars, hvars, stops>>

StartStates == {"down", "clean", "attach"}
EnsureStates == {"ensure", "initiate", "allocate", "record"}
CreateStates == EnsureStates \cup {"collect", "rows", "bitmap", "undo", "undostores"}
DeleteStates == {"delstores", "delfiles", "delrow", "delvols"}

TypeOK ==
    /\ KernelTypeOK
    /\ DBTypeOK
    /\ WatcherTypeOK
    /\ mpc \in StartStates \cup {"idle"} \cup CreateStates \cup DeleteStates
    /\ req \subseteq Disks
    /\ todo \subseteq Disks
    /\ got \subseteq StoreIds
    /\ sid \in SnapIds \cup {NoSnap}
    /\ cur \in StoreIds \cup {NoStore}
    /\ hpc \in {"idle", "insert", "delfiles", "delrow"}
    /\ hcur \in StoreIds \cup {NoStore}
    /\ stops \in Nat

\* No request is in the manager: nothing is left of its variables.
GoTo(pc) ==
    /\ mpc' = pc
    /\ req' = {}
    /\ todo' = {}
    /\ got' = {}
    /\ sid' = NoSnap
    /\ cur' = NoStore

HandlerDone == hpc' = "idle" /\ hcur' = NoStore

Init ==
    /\ KernelInit
    /\ DBInit
    /\ WatcherInit
    /\ mpc = "down" /\ req = {} /\ todo = {} /\ got = {} /\ sid = NoSnap /\ cur = NoStore
    /\ hpc = "idle" /\ hcur = NoStore
    /\ stops = 0

\* The request returns to its caller and the lock is released.
Return == GoTo("idle")

Listening(s) == watch[s] \in {"reading", "sending"}

-----------------------------------------------------------------------------
(* CreateSnapshot *)

\* Mutation: the check for a snapshot of the disk is forgotten.
BeginCreateUnchecked(D) ==
    /\ mpc = "idle"
    /\ mpc' = "ensure"
    /\ req' = D
    /\ todo' = D
    /\ UNCHANGED <<got, sid, cur, kvars, dbvars, wvars, hvars, stops>>

\* The lock is taken and no disk of the request has a snapshot.
BeginCreate(D) ==
    /\ mpc = "idle"
    /\ \A d \in D : ~HasSnapshot(d)
    /\ mpc' = "ensure"
    /\ req' = D
    /\ todo' = D
    /\ UNCHANGED <<got, sid, cur, kvars, dbvars, wvars, hvars, stops>>

\* ensureSnapStoreForDisk finds a row: the store is used as it is.
ReuseStore(d) ==
    /\ mpc = "ensure"
    /\ d \in todo
    /\ \E s \in StoresOfDisk(d) : got' = got \cup {s}
    /\ todo' = todo \ {d}
    /\ UNCHANGED <<mpc, req, sid, cur, kvars, dbvars, wvars, hvars, stops>>

\* No row: CreateSnapStore inserts one under a new UUID ...
InsertStoreRow(d) ==
    /\ mpc = "ensure"
    /\ d \in todo
    /\ StoresOfDisk(d) = {}
    /\ \E s \in StoreIds \ storeIssued :
          /\ StoreDisk[s] = d
          /\ storeRow' = storeRow \cup {s}
          /\ storeIssued' = storeIssued \cup {s}
          /\ cur' = s
    /\ mpc' = "initiate"
    /\ UNCHANGED <<req, todo, got, sid, kvars, dbFile, fileRow, volRow, snapRow,
                   wvars, hvars, stops>>

\* ... or cannot, the disk having no snap store mapping.  Stores ensured for
\* other disks of the request stay as they are.
NoMapping(d) ==
    /\ mpc = "ensure"
    /\ d \in todo
    /\ StoresOfDisk(d) = {}
    /\ Return
    /\ UNCHANGED <<kvars, dbvars, wvars, hvars, stops>>

\* Create the directory, open the character device, write INITIATE.
InitiateStore ==
    /\ mpc = "initiate"
    /\ KInitiate({cur})
    /\ StartWatchers({cur})
    /\ dir' = dir \cup {cur}
    /\ mpc' = "allocate"
    /\ UNCHANGED <<req, todo, got, sid, cur, dbvars, hvars, stops>>

\* Only a failing watcher takes the row away: the deferred function looks at
\* err, and Stat and MkdirAll report into statErr and mkdirErr.
InitiateFails ==
    /\ mpc = "initiate"
    /\ "store" \in Faults
    /\ storeRow' \in {storeRow, storeRow \ {cur}}
    /\ Return
    /\ UNCHANGED <<kvars, dbFile, storeIssued, fileRow, volRow, snapRow, wvars, hvars, stops>>

\* AllocateInitialStorage, 20% of the disk.
InitialAllocation ==
    /\ mpc = "allocate"
    /\ \/ /\ AllocateSucceeds(cur)
          /\ mpc' = "record"
          /\ UNCHANGED <<req, todo, got, sid, cur>>
       \/ AllocateFails(cur) /\ Return
    /\ UNCHANGED <<kSnap, kIssued, kStores, pipe, events, dbvars, wvars, hvars, stops>>

\* RecordSnapStoreFileInDB; it may also fail after the file row is inserted.
RecordInitialFile ==
    /\ mpc = "record"
    /\ \/ /\ cur \in storeRow
          /\ fileRow' = fileRow \cup {cur}
          /\ got' = got \cup {cur}
          /\ todo' = todo \ {StoreDisk[cur]}
          /\ mpc' = "ensure"
          /\ cur' = NoStore
          /\ UNCHANGED <<req, sid>>
       \/ /\ "db" \in Faults \/ cur \notin storeRow
          /\ fileRow' \in {fileRow, fileRow \cup ({cur} \cap storeRow)}
          /\ Return
    /\ UNCHANGED <<kvars, dbFile, storeRow, storeIssued, volRow, snapRow, wvars, hvars, stops>>

\* CBT info and images before the snapshot, then the ioctl that takes it.  A
\* failure of any of them runs the deferred clean-up of the snap stores.
TakeSnapshot ==
    /\ mpc = "ensure"
    /\ todo = {}
    /\ \E i \in SnapIds :
          /\ KCreateSnapshot(i, req)
          /\ sid' = i
    /\ mpc' = "collect"
    /\ UNCHANGED <<req, todo, got, cur, dbvars, wvars, hvars, stops>>

TakeSnapshotFails ==
    /\ mpc = "ensure"
    /\ todo = {}
    /\ "ioctl" \in Faults \/ ~CanSnapshot(req)
    /\ mpc' = "undostores"
    /\ todo' = req
    /\ UNCHANGED <<req, got, sid, cur, kvars, dbvars, wvars, hvars, stops>>

\* CBT info and images after the snapshot.
CollectInfo ==
    /\ mpc = "collect"
    /\ \/ mpc' = "rows"
       \/ "ioctl" \in Faults /\ mpc' = "undo"
    /\ todo' = req
    /\ UNCHANGED <<req, got, sid, cur, kvars, dbvars, wvars, hvars, stops>>

\* One turn of the loop: the image and volume rows of a disk ...
InsertRows(s) ==
    /\ mpc = "rows"
    /\ s \in got
    /\ StoreDisk[s] \in todo
    /\ InsertVolumeRow(sid, StoreDisk[s])
    /\ todo' = todo \ {StoreDisk[s]}
    /\ cur' = s
    /\ mpc' = "bitmap"
    /\ UNCHANGED <<req, got, sid, kvars, dbFile, storeRow, storeIssued, fileRow, snapRow,
                   wvars, hvars, stops>>

\* ... unless the CBT info, the new image, its device node or the database
\* let it down: the error is the loop's own variable, no deferred function
\* sees it, and the snapshot and its stores are left behind.
RowsFail ==
    /\ mpc = "rows"
    /\ todo # {}
    /\ "bookkeeping" \in Faults
    /\ Return
    /\ UNCHANGED <<kvars, dbvars, wvars, hvars, stops>>

\* GetCBTBitmap.  Its error does reach the deferred functions of this turn.
FetchBitmap ==
    /\ mpc = "bitmap"
    /\ \/ /\ mpc' = "rows"
          /\ cur' = NoStore
          /\ UNCHANGED <<req, todo, got, sid, volRow>>
       \/ /\ "bookkeeping" \in Faults
          /\ DeleteVolumeRow(sid, StoreDisk[cur])
          /\ Return
    /\ UNCHANGED <<kvars, dbFile, storeRow, storeIssued, fileRow, snapRow, wvars, hvars, stops>>

\* Mutation: the row embeds the disks instead of the volume snapshots.
RecordDisks ==
    /\ mpc = "rows"
    /\ todo = {}
    /\ snapRow' = [snapRow EXCEPT ![sid] = req]
    /\ Return
    /\ UNCHANGED <<kvars, dbFile, storeRow, storeIssued, fileRow, volRow, wvars, hvars, stops>>

\* db.CreateSnapshot
RecordSnapshot ==
    /\ mpc = "rows"
    /\ todo = {}
    /\ snapRow' = [snapRow EXCEPT ![sid] = got]
    /\ Return
    /\ UNCHANGED <<kvars, dbFile, storeRow, storeIssued, fileRow, volRow, wvars, hvars, stops>>

\* Mutation: the deferred ioctl.DeleteSnapshot is missing.
RecordFailsKeepingSnapshot ==
    /\ mpc = "rows"
    /\ todo = {}
    /\ "db" \in Faults
    /\ mpc' = "undostores"
    /\ todo' = req
    /\ UNCHANGED <<req, got, sid, cur, kvars, dbvars, wvars, hvars, stops>>

RecordSnapshotFails ==
    /\ mpc = "rows"
    /\ todo = {}
    /\ "db" \in Faults
    /\ mpc' = "undo"
    /\ UNCHANGED <<req, todo, got, sid, cur, kvars, dbvars, wvars, hvars, stops>>

\* The deferred functions, last one first: the snapshot ...
UndoSnapshot ==
    /\ mpc = "undo"
    /\ \/ KDeleteSnapshot(sid)
       \/ "delete" \in Faults /\ UNCHANGED kvars
    /\ mpc' = "undostores"
    /\ todo' = req
    /\ UNCHANGED <<req, got, sid, cur, dbvars, wvars, hvars, stops>>

\* ... then, one by one, the snap stores; errors are only logged.  The rows
\* go when the watcher reports the store deleted.
UndoStore(s) ==
    /\ mpc = "undostores"
    /\ s \in got
    /\ StoreDisk[s] \in todo
    /\ \/ KCleanup(s, Listening(s))
       \/ "delete" \in Faults /\ UNCHANGED kvars
    /\ todo' = todo \ {StoreDisk[s]}
    /\ UNCHANGED <<mpc, req, got, sid, cur, dbvars, wvars, hvars, stops>>

UndoDone ==
    /\ mpc = "undostores"
    /\ todo = {}
    /\ Return
    /\ UNCHANGED <<kvars, dbvars, wvars, hvars, stops>>

-----------------------------------------------------------------------------
(* DeleteSnapshot *)

\* Mutation: only the agent's own records of the snapshot are deleted.
BeginDeleteInDBOnly(i) ==
    /\ mpc = "idle"
    /\ Recorded(i)
    /\ kSnap[i] # {}
    /\ mpc' = "delstores"
    /\ sid' = i
    /\ got' = snapRow[i]
    /\ todo' = DisksOf(snapRow[i])
    /\ UNCHANGED <<req, cur, kvars, dbvars, wvars, hvars, stops>>

\* The snapshot is in the database and the ioctl removes it; it refuses one
\* that does not exist, and then nothing changes.
BeginDelete(i) ==
    /\ mpc = "idle"
    /\ Recorded(i)
    /\ kSnap[i] # {}
    /\ KDeleteSnapshot(i)
    /\ mpc' = "delstores"
    /\ sid' = i
    /\ got' = snapRow[i]
    /\ todo' = DisksOf(snapRow[i])
    /\ UNCHANGED <<req, cur, dbvars, wvars, hvars, stops>>

\* Per volume snapshot: clean the store up ...
DeleteStore(s) ==
    /\ mpc = "delstores"
    /\ s \in got
    /\ StoreDisk[s] \in todo
    /\ KCleanup(s, Listening(s))
    /\ cur' = s
    /\ mpc' = "delfiles"
    /\ UNCHANGED <<req, todo, got, sid, dbvars, wvars, hvars, stops>>

\* ... and give up on an error, although the kernel's snapshot is gone.
DeleteStoreFails ==
    /\ mpc \in {"delstores", "delfiles", "delrow"}
    /\ todo # {}
    /\ "delete" \in Faults
    /\ Return
    /\ UNCHANGED <<kvars, dbvars, wvars, hvars, stops>>

\* A file row that cannot be deleted is only logged.
DeleteFileRows ==
    /\ mpc = "delfiles"
    /\ \/ fileRow' = fileRow \ {cur}
       \/ "delete" \in Faults /\ UNCHANGED fileRow
    /\ mpc' = "delrow"
    /\ UNCHANGED <<req, todo, got, sid, cur, kvars, dbFile, storeRow, storeIssued, volRow,
                   snapRow, wvars, hvars, stops>>

DeleteStoreRow ==
    /\ mpc = "delrow"
    /\ storeRow' = storeRow \ {cur}
    /\ todo' = todo \ {StoreDisk[cur]}
    /\ cur' = NoStore
    /\ mpc' = "delstores"
    /\ UNCHANGED <<req, got, sid, kvars, dbFile, storeIssued, fileRow, volRow, snapRow,
                   wvars, hvars, stops>>

\* db.DeleteSnapshot: the volume rows one by one, then the snapshot row.
DeleteVolume(s) ==
    /\ \/ mpc = "delstores" /\ todo = {}
       \/ mpc = "delvols"
    /\ s \in got
    /\ DeleteVolumeRow(sid, StoreDisk[s])
    /\ got' = got \ {s}
    /\ mpc' = "delvols"
    /\ UNCHANGED <<req, todo, sid, cur, kvars, dbFile, storeRow, storeIssued, fileRow, snapRow,
                   wvars, hvars, stops>>

DeleteRecord ==
    /\ mpc = "delvols"
    /\ got = {}
    /\ snapRow' = [snapRow EXCEPT ![sid] = {}]
    /\ Return
    /\ UNCHANGED <<kvars, dbFile, storeRow, storeIssued, fileRow, volRow, wvars, hvars, stops>>

DeleteRecordFails ==
    /\ mpc = "delvols"
    /\ "delete" \in Faults
    /\ Return
    /\ UNCHANGED <<kvars, dbvars, wvars, hvars, stops>>

-----------------------------------------------------------------------------
\* Mutation: the usage of a store nobody uses is asked for as well.
QueryAnyUsage(s) ==
    /\ mpc = "idle"
    /\ s \in storeRow
    /\ KCleanup(s, Listening(s))
    /\ UNCHANGED <<dbvars, wvars, mvars, hvars, stops>>

\* snapStoreUsedBytes, for GetSnapStore and ListSnapStores: the usage of a
\* store is asked for with the ioctl that deletes a store nobody uses.
QueryUsage(s) ==
    /\ mpc = "idle"
    /\ s \in storeRow
    /\ HasSnapshot(StoreDisk[s])
    /\ KCleanup(s, Listening(s))
    /\ UNCHANGED <<dbvars, wvars, mvars, hvars, stops>>

-----------------------------------------------------------------------------
(* handleWatcherMessages: holds no lock, and only logs what goes wrong *)

TakeMessage(type) ==
    /\ hpc = "idle"
    /\ mpc \notin StartStates
    /\ msgChan # <<>>
    /\ Head(msgChan).type = type
    /\ msgChan' = Tail(msgChan)

\* RecordSnapStoreFileInDB reads the store's row ...
HandleAddFile ==
    /\ TakeMessage("AddFile")
    /\ IF Head(msgChan).store \in storeRow
         THEN hpc' = "insert" /\ hcur' = Head(msgChan).store
         ELSE UNCHANGED hvars
    /\ UNCHANGED <<kvars, dbvars, watch, out, dir, mvars, stops>>

\* ... and inserts the file row, whatever happened to the store's since.
InsertFileRow ==
    /\ hpc = "insert"
    /\ \/ fileRow' = fileRow \cup {hcur}
       \/ "db" \in Faults /\ UNCHANGED fileRow
    /\ HandlerDone
    /\ UNCHANGED <<kvars, dbFile, storeRow, storeIssued, volRow, snapRow, wvars, mvars, stops>>

\* Mutation: the file rows are forgotten.
HandleDeletedStoreOnly ==
    /\ TakeMessage("Deleted")
    /\ hpc' = "delrow"
    /\ hcur' = Head(msgChan).store
    /\ UNCHANGED <<kvars, dbvars, watch, out, dir, mvars, stops>>

HandleDeleted ==
    /\ TakeMessage("Deleted")
    /\ hpc' = "delfiles"
    /\ hcur' = Head(msgChan).store
    /\ UNCHANGED <<kvars, dbvars, watch, out, dir, mvars, stops>>

HandlerDeleteFiles ==
    /\ hpc = "delfiles"
    /\ \/ fileRow' = fileRow \ {hcur}
       \/ "db" \in Faults /\ UNCHANGED fileRow
    /\ hpc' = "delrow"
    /\ UNCHANGED <<hcur, kvars, dbFile, storeRow, storeIssued, volRow, snapRow,
                   wvars, mvars, stops>>

\* Mutation: the row is looked up by disk, as GetSnapStoreByDiskID does.
HandlerDeleteByDisk ==
    /\ hpc = "delrow"
    /\ storeRow' = storeRow \ StoresOfDisk(StoreDisk[hcur])
    /\ HandlerDone
    /\ UNCHANGED <<kvars, dbFile, storeIssued, fileRow, volRow, snapRow, wvars, mvars, stops>>

HandlerDeleteStore ==
    /\ hpc = "delrow"
    /\ \/ storeRow' = storeRow \ {hcur}
       \/ "db" \in Faults /\ UNCHANGED storeRow
    /\ HandlerDone
    /\ UNCHANGED <<kvars, dbFile, storeIssued, fileRow, volRow, snapRow, wvars, mvars, stops>>

HandleOverflow ==
    /\ TakeMessage("Overflow")
    /\ MarkOverflow(Head(msgChan).store)
    /\ UNCHANGED <<hvars, kvars, dbFile, storeRow, storeIssued, fileRow, snapRow,
                   watch, out, dir, mvars, stops>>

\* Mutation: a watcher in trouble is taken for the end of its store.
HandleErrorAsDeleted ==
    /\ TakeMessage("Error")
    /\ hpc' = "delfiles"
    /\ hcur' = Head(msgChan).store
    /\ UNCHANGED <<kvars, dbvars, watch, out, dir, mvars, stops>>

HandleError ==
    /\ TakeMessage("Error")
    /\ UNCHANGED <<hvars, kvars, dbvars, watch, out, dir, mvars, stops>>

HandlerStep ==
    \/ HandleAddFile
    \/ InsertFileRow
    \/ HandleDeleted
    \/ HandlerDeleteFiles
    \/ HandlerDeleteStore
    \/ HandleOverflow
    \/ HandleError

-----------------------------------------------------------------------------
(* The process goes down and comes up *)

\* Everything in memory is lost, the kernel keeps what it has.
Crash ==
    /\ mpc # "down"
    /\ stops < MaxStops
    /\ stops' = stops + 1
    /\ GoTo("down")
    /\ HandlerDone
    /\ StopWatchers
    /\ KCloseAll
    /\ IF KeepsDB THEN UNCHANGED dbvars ELSE LoseDB

\* The database is on a tmpfs (README.md:152).
Reboot ==
    /\ Reboots
    /\ stops < MaxStops
    /\ stops' = stops + 1
    /\ GoTo("down")
    /\ HandlerDone
    /\ StopWatchers
    /\ KReboot
    /\ LoseDB

\* Mutation: storage is cleaned on every start.
OpenDBAndClean ==
    /\ mpc = "down"
    /\ dbFile' = TRUE
    /\ mpc' = "clean"
    /\ UNCHANGED <<storeRow, storeIssued, fileRow, volRow, snapRow,
                   req, todo, got, sid, cur, kvars, wvars, hvars, stops>>

\* NewManager opens the database, which creates the file.
OpenDB ==
    /\ mpc = "down"
    /\ dbFile' = TRUE
    /\ mpc' = IF dbFile THEN "attach" ELSE "clean"
    /\ UNCHANGED <<storeRow, storeIssued, fileRow, volRow, snapRow,
                   req, todo, got, sid, cur, kvars, wvars, hvars, stops>>

\* cleanStorage empties the CoW destinations, for a new database only.
CleanStorage ==
    /\ mpc = "clean"
    /\ dir' = {}
    /\ mpc' = "attach"
    /\ UNCHANGED <<req, todo, got, sid, cur, kvars, dbvars, watch, out, msgChan, hvars, stops>>

\* When that fails, or recording the locations and disks in the new database,
\* the database file is removed and the process exits.
CleanStorageFails ==
    /\ mpc = "clean"
    /\ "start" \in Faults
    /\ dir' \in SUBSET dir
    /\ dbFile' = FALSE
    /\ mpc' = "down"
    /\ UNCHANGED <<storeRow, storeIssued, fileRow, volRow, snapRow,
                   req, todo, got, sid, cur, kvars, watch, out, msgChan, hvars, stops>>

\* Mutation: only stores that hold files are attached to.
AttachToAllocatedStores ==
    /\ mpc = "attach"
    /\ KInitiate(storeRow \cap fileRow)
    /\ StartWatchers(storeRow \cap fileRow)
    /\ mpc' = "idle"
    /\ UNCHANGED <<dir, req, todo, got, sid, cur, dbvars, hvars, stops>>

\* PopulateSnapStoreWatcher: a watcher for every store row, and with it an
\* INITIATE, which makes anew the stores the kernel no longer has.
AttachWatchers ==
    /\ mpc = "attach"
    /\ KInitiate(storeRow)
    /\ StartWatchers(storeRow)
    /\ mpc' = "idle"
    /\ UNCHANGED <<dir, req, todo, got, sid, cur, dbvars, hvars, stops>>

\* An INITIATE fails after some succeeded, and the process exits.
AttachFails ==
    /\ mpc = "attach"
    /\ "start" \in Faults
    /\ \E S \in SUBSET storeRow : S # storeRow /\ KInitiate(S)
    /\ mpc' = "down"
    /\ UNCHANGED <<req, todo, got, sid, cur, dbvars, wvars, hvars, stops>>

StartStep == OpenDB \/ CleanStorage \/ AttachWatchers

-----------------------------------------------------------------------------
\* What the request holding the lock does next, when nothing fails ...
RequestStep ==
    \/ \E d \in Disks : ReuseStore(d) \/ InsertStoreRow(d) \/ NoMapping(d)
    \/ InitiateStore
    \/ InitialAllocation
    \/ RecordInitialFile
    \/ TakeSnapshot
    \/ CollectInfo
    \/ FetchBitmap
    \/ RecordSnapshot
    \/ UndoSnapshot
    \/ UndoDone
    \/ DeleteFileRows
    \/ DeleteStoreRow
    \/ DeleteRecord
    \/ \E s \in StoreIds :
          InsertRows(s) \/ UndoStore(s) \/ DeleteStore(s) \/ DeleteVolume(s)

\* ... and the ways its calls fail.
RequestFails ==
    \/ InitiateFails
    \/ TakeSnapshotFails
    \/ RowsFail
    \/ RecordSnapshotFails
    \/ DeleteStoreFails
    \/ DeleteRecordFails

NewRequest ==
    \/ \E D \in (SUBSET Disks) \ {{}} : BeginCreate(D)
    \/ \E i \in SnapIds : BeginDelete(i)
    \/ \E s \in StoreIds : QueryUsage(s)

KernelStep ==
    /\ \E s \in StoreIds, e \in EventKinds : Listening(s) /\ KEvent(s, e)
    /\ UNCHANGED <<dbvars, wvars, mvars, hvars, stops>>

WatchersStep ==
    /\ \E s \in StoreIds : WatcherStep(s)
    /\ UNCHANGED <<dbvars, mvars, hvars, stops>>

Next ==
    \/ NewRequest
    \/ RequestStep
    \/ RequestFails
    \/ HandlerStep
    \/ WatchersStep
    \/ KernelStep
    \/ StartStep
    \/ CleanStorageFails
    \/ AttachFails
    \/ Crash
    \/ Reboot

Spec == Init /\ [][Next]_vars

\* A request runs to its end, and the goroutines, once they have something to
\* do, are scheduled.  Nobody is obliged to send requests.
Fairness ==
    /\ WF_vars(RequestStep \/ TakeSnapshotFails)
    /\ WF_vars(StartStep)
    /\ WF_vars(HandlerStep)
    /\ \A s \in StoreIds :
          WF_vars(WatcherStep(s) /\ UNCHANGED <<dbvars, mvars, hvars, stops>>)

FairSpec == Spec /\ Fairness

-----------------------------------------------------------------------------
(* Properties *)

\* CreateSnapshot (manager.go:480-490, 675): to a client of the API a request
\* to take a snapshot happens at once or not at all, and never for a disk that
\* is part of another snapshot.
Registry == INSTANCE SnapshotRegistry WITH active <- [i \in SnapIds |-> ActiveDisks(i)]

ImplementsRegistry == Registry!Spec

\* CreateSnapshot and DeleteSnapshot (manager.go:517-550, 699-740): whatever
\* was undone half-way, between requests the database lists exactly the
\* snapshots that exist, each with its disks.
RegistryMatchesKernel ==
    mpc = "idle" => \A i \in SnapIds : ActiveDisks(i) = kSnap[i]

\* A recorded snapshot that exists has, for every disk, its snap store and the
\* row that leads to it: neither a clean-up of another request nor a Deleted
\* message about an earlier store takes them away (manager.go:520, worker.go:65-78).
SnapshotKeepsItsStores ==
    \A i \in SnapIds :
        kSnap[i] # {} /\ Recorded(i) => snapRow[i] \subseteq kStores \cap storeRow

\* db/models.go:104-107: the files are what keeps the file system off the
\* extents; they must not be removed while a store writes to these.
ExtentsAreBacked == kExtents \subseteq dir

\* README.md:144, 148: every snap store in the database is watched, after a
\* restart too: its events would otherwise be lost.
RecordedStoresAreWatched ==
    mpc \notin StartStates =>
        \A s \in storeRow \cap kStores : watch[s] # "none"

\* Store and file rows of a store that is gone do not stay: a Deleted message
\* that will remove them is on its way, whichever of DeleteSnapshot and the
\* message handler came in between (manager.go:717-730, worker.go:60-78).
RowsAwaitDeletion ==
    mpc \notin StartStates =>
        \A s \in (storeRow \ kStores) \cup (fileRow \ storeRow) :
            \/ DeletionPending(s)
            \/ hcur = s /\ hpc # "insert"
            \/ cur = s /\ mpc = "initiate"

\* The files of a store that is gone do not stay either: its watcher is the only
\* one to remove them, and listens until the termination has reached it, whatever
\* else it has reported (character_device_watcher.go:208-291).
FilesAwaitRemoval ==
    \A s \in dir \ kStores : Listening(s) /\ "terminate" \in Range(pipe[s])

\* snapstores.go:64-70: asking how full a store is never deletes it.
QueryDeletesNothing ==
    [][\A s \in StoreIds : QueryUsage(s) /\ s \in kStores => s \in kStores']_vars

\* removeSnapStoreFiles and the handler of its message: once a store is gone,
\* its files and all its rows go too, for good.
DeletedStoresAreForgotten ==
    \A s \in StoreIds :
        s \in dir \ kStores ~> [](s \notin dir \cup storeRow \cup fileRow)

-----------------------------------------------------------------------------
(* What the repository says, and the code does not do *)

\* manager.go:545 "cleanup func in case of error": a request that fails leaves
\* no snapshot behind in the kernel.
FailedRequestsLeaveNoSnapshot ==
    mpc = "idle" => \A i \in SnapIds : kSnap[i] # {} => Recorded(i)

\* worker.go:80: when a store overflows, the volume snapshots that live in it
\* are marked in the database.
OverflowIsMarked ==
    [][\A s \in StoreIds, i \in SnapIds :
          /\ HandleOverflow
          /\ s = Head(msgChan).store
          /\ s \in snapRow[i]
          => \A r \in volRow' : r.snap = i /\ r.disk = StoreDisk[s] => r.status = "overflow"]_vars

\* README.md:148: after a restart there is nothing to clean up by hand: the
\* snapshots in the database exist, so that they can be deleted.
RecordedSnapshotsExist ==
    mpc = "idle" => \A i \in SnapIds : Recorded(i) => kSnap[i] # {}
=============================================================================

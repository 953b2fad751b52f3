----------------------- MODULE SnapshotAgent_storage ------------------------
(***************************************************************************)
(* What keeps snapshot data safe: the files under the extents of a store   *)
(* outlive these, and every recorded store has its watcher.                *)
(***************************************************************************)
EXTENDS SnapshotAgent_proofs

-----------------------------------------------------------------------------
(* The invariants *)

\* A watcher is told to remove the files of a store only after the store is
\* gone, and identifiers are not used again.
PipeInv == \A s \in kStores : "terminate" \notin Range(pipe[s])

ExtentInv == kExtents \subseteq kStores \cap dir

\* Start-up runs alone, and finds a new database only where no extents are
\* left: after a reboot, or when the last start did not get further.
StartInv ==
    /\ mpc \in StartStates => \A s \in StoreIds : watch[s] = "none" /\ out[s] = <<>>
    /\ ~dbFile => mpc = "down" /\ kExtents = {}
    /\ mpc = "clean" => kExtents = {}

\* The kernel has no store that was not issued before, so that a new store
\* starts without one; and the watcher of a store that is recorded and exists
\* is not about to end.
IssuedStores ==
    /\ kStores \cup storeRow \subseteq storeIssued
    /\ mpc = "initiate" => cur \in storeIssued

WatchInv ==
    mpc \notin StartStates =>
        \A s \in storeRow \cap kStores : watch[s] \in {"reading", "sending"}

-----------------------------------------------------------------------------
(* Events *)

LEMMA RangeFacts ==
    ASSUME NEW S, NEW q \in Seq(S)
    PROVE  /\ q # <<>> => Head(q) \in Range(q) /\ Range(Tail(q)) \subseteq Range(q)
           /\ \A e \in S : Range(Append(q, e)) = Range(q) \cup {e}
           /\ Range(<<>>) = {}
<1>1. ASSUME q # <<>> PROVE Head(q) \in Range(q) /\ Range(Tail(q)) \subseteq Range(q)
  <2>1. Len(q) \in Nat /\ Len(q) > 0 /\ DOMAIN q = 1..Len(q)
    BY <1>1
  <2>2. DOMAIN Tail(q) = 1..(Len(q) - 1) /\ \A k \in 1..(Len(q) - 1) : Tail(q)[k] = q[k + 1]
    BY <1>1
  <2>3. \A k \in 1..(Len(q) - 1) : k + 1 \in DOMAIN q
    BY <2>1
  <2>4. 1 \in DOMAIN q /\ Head(q) = q[1]
    BY <1>1, <2>1
  <2>5. QED
    BY <2>2, <2>3, <2>4 DEF Range
<1>2. ASSUME NEW e \in S PROVE Range(Append(q, e)) = Range(q) \cup {e}
  <2>1. DOMAIN q = 1..Len(q) /\ Len(q) \in Nat
    OBVIOUS
  <2>2. /\ DOMAIN Append(q, e) = 1..(Len(q) + 1)
        /\ \A k \in 1..Len(q) : Append(q, e)[k] = q[k]
        /\ Append(q, e)[Len(q) + 1] = e
    OBVIOUS
  <2>3. 1..(Len(q) + 1) = (1..Len(q)) \cup {Len(q) + 1}
    BY <2>1
  <2>4. QED
    BY <2>1, <2>2, <2>3 DEF Range
<1>3. Range(<<>>) = {}
  BY DEF Range
<1>4. QED
  BY <1>1, <1>2, <1>3

\* The operations of the kernel module that the steps of the agent consist of.
KernelOp ==
    \/ \E i \in SnapIds : KCreateSnapshot(i, req)
    \/ \E i \in SnapIds : KDeleteSnapshot(i)
    \/ \E s \in StoreIds : KCleanup(s, Listening(s))
    \/ \E S \in SUBSET StoreIds : KInitiate(S)
    \/ \E s \in StoreIds, e \in EventKinds : KEvent(s, e)
    \/ KCloseAll
    \/ KReboot
    \/ UNCHANGED <<kStores, pipe>>

LEMMA PipeKernel == TypeInv /\ PipeInv /\ KernelOp => PipeInv'
<1>. SUFFICES ASSUME TypeInv, PipeInv, KernelOp PROVE PipeInv'
  OBVIOUS
<1>1. \A s \in StoreIds : pipe[s] \in Seq(EventKinds)
  BY DEF TypeInv, KernelTypeOK
<1>2. pipe \in [StoreIds -> Seq(EventKinds)] /\ kStores \subseteq StoreIds
  BY DEF TypeInv, KernelTypeOK
<1>3. ASSUME NEW s \in StoreIds, KCleanup(s, Listening(s)) PROVE PipeInv'
  BY <1>2, <1>3 DEF PipeInv, KCleanup
<1>4. ASSUME NEW S \in SUBSET StoreIds, KInitiate(S) PROVE PipeInv'
  BY <1>2, <1>4 DEF PipeInv, KInitiate, Range
<1>5. ASSUME NEW s \in StoreIds, NEW e \in EventKinds, KEvent(s, e) PROVE PipeInv'
  <2>1. Range(Append(pipe[s], e)) = Range(pipe[s]) \cup {e} /\ e # "terminate"
    BY <1>1, <1>5, RangeFacts DEF KEvent
  <2>2. kStores' = kStores /\ pipe' = [pipe EXCEPT ![s] = Append(@, e)]
    BY <1>5 DEF KEvent
  <2>3. QED
    BY <1>2, <2>1, <2>2 DEF PipeInv
<1>6. CASE KCloseAll \/ KReboot
  BY <1>2, <1>6 DEF PipeInv, KCloseAll, KReboot, Range
<1>7. CASE UNCHANGED <<kStores, pipe>>
  BY <1>7 DEF PipeInv
<1>8. QED
  BY <1>3, <1>4, <1>5, <1>6, <1>7 DEF KernelOp, KCreateSnapshot, KDeleteSnapshot, PipeInv

LEMMA NextEventRange ==
    ASSUME TypeInv, NEW s \in StoreIds, NEW e, NextEvent(s, e)
    PROVE  e \in Range(pipe[s]) /\ \A t \in StoreIds : Range(pipe'[t]) \subseteq Range(pipe[t])
<1>1. pipe \in [StoreIds -> Seq(EventKinds)] /\ pipe[s] # <<>>
  BY DEF TypeInv, KernelTypeOK, NextEvent
<1>2. pipe[s] \in Seq(EventKinds)
  BY <1>1
<1>3. Head(pipe[s]) \in Range(pipe[s]) /\ Range(Tail(pipe[s])) \subseteq Range(pipe[s])
  BY <1>1, <1>2, RangeFacts
<1>4. QED
  BY <1>1, <1>3 DEF NextEvent

LEMMA PipeWatcher ==
    ASSUME TypeInv, PipeInv, NEW s \in StoreIds, WatcherStep(s)
    PROVE  PipeInv'
<1>1. kStores' = kStores /\ kStores \subseteq StoreIds /\ pipe \in [StoreIds -> Seq(EventKinds)]
  BY DEF WatcherStep, ReadHalfFill, ReadOverflow, ReadTerminate, ReadError, Send, kvars,
         TypeInv, KernelTypeOK
<1>2. CASE ReadError(s)
  BY <1>2 DEF ReadError, kvars, PipeInv
<1>3. CASE Send(s)
  BY <1>1, <1>3 DEF Send, PipeInv, Range
<1>4. CASE \E e : NextEvent(s, e)
  BY <1>1, <1>4, NextEventRange DEF PipeInv
<1>5. QED
  BY <1>2, <1>3, <1>4 DEF WatcherStep, ReadHalfFill, ReadOverflow, ReadTerminate

\* Every step of the agent does one thing to the kernel's stores and queues.
LEMMA KernelView ==
    ASSUME TypeInv, [Next]_vars
    PROVE  KernelOp \/ \E s \in StoreIds : WatcherStep(s)
<1>1. CASE RequestStep
  <2>1. CASE InitiateStore
    BY <2>1 DEF InitiateStore, KernelOp, TypeInv, ManagerOK
  <2>2. CASE TakeSnapshot \/ UndoSnapshot
    BY <2>2 DEF TakeSnapshot, UndoSnapshot, KernelOp, TypeInv, ManagerOK, kvars
  <2>3. CASE \E s \in StoreIds : UndoStore(s) \/ DeleteStore(s)
    BY <2>3 DEF UndoStore, DeleteStore, KernelOp, kvars
  <2>4. QED
    BY <1>1, <2>1, <2>2, <2>3
       DEF RequestStep, ReuseStore, InsertStoreRow, NoMapping, InitialAllocation, RecordInitialFile,
           CollectInfo, FetchBitmap, RecordSnapshot, UndoDone, DeleteFileRows, DeleteStoreRow,
           DeleteRecord, InsertRows, DeleteVolume, KernelOp, kvars
<1>2. CASE RequestFails
  BY <1>2 DEF RequestFails, InitiateFails, TakeSnapshotFails, RowsFail, RecordSnapshotFails,
              DeleteStoreFails, DeleteRecordFails, KernelOp, kvars
<1>3. CASE NewRequest
  BY <1>3 DEF NewRequest, BeginCreate, BeginDelete, QueryUsage, KernelOp, kvars
<1>4. CASE HandlerStep
  BY <1>4 DEF HandlerStep, HandleAddFile, InsertFileRow, HandleDeleted, HandlerDeleteFiles,
              HandlerDeleteStore, HandleOverflow, HandleError, KernelOp, kvars
<1>5. CASE WatchersStep \/ KernelStep
  BY <1>5 DEF WatchersStep, KernelStep, KernelOp
<1>6. CASE StartStep \/ CleanStorageFails \/ AttachFails
  BY <1>6 DEF StartStep, OpenDB, CleanStorage, AttachWatchers, CleanStorageFails, AttachFails,
              KernelOp, kvars, TypeInv, DBTypeOK
<1>7. CASE Crash \/ Reboot
  BY <1>7 DEF Crash, Reboot, KernelOp
<1>8. CASE UNCHANGED vars
  BY <1>8 DEF vars, kvars, KernelOp
<1>9. QED
  BY <1>1, <1>2, <1>3, <1>4, <1>5, <1>6, <1>7, <1>8 DEF Next

LEMMA PipeStep == TypeInv /\ PipeInv /\ [Next]_vars => PipeInv'
BY KernelView, PipeKernel, PipeWatcher

-----------------------------------------------------------------------------
(* Extents and files *)

\* Start-up, crashes and reboots.
LEMMA StartSteps ==
    ASSUME KeepsDB, TypeInv, ExtentInv, StartInv,
           StartStep \/ CleanStorageFails \/ AttachFails \/ Crash \/ Reboot
    PROVE  ExtentInv' /\ StartInv'
<1>. USE DEF StartStates
<1>1. CASE OpenDB
  BY <1>1 DEF OpenDB, ExtentInv, StartInv, kvars, wvars
<1>2. CASE CleanStorage
  BY <1>2 DEF CleanStorage, ExtentInv, StartInv, kvars, dbvars
<1>3. CASE CleanStorageFails
  BY <1>3 DEF CleanStorageFails, ExtentInv, StartInv, kvars
<1>4. CASE AttachWatchers
  BY <1>4 DEF AttachWatchers, KInitiate, StartWatchers, ExtentInv, StartInv, dbvars
<1>5. CASE AttachFails
  BY <1>5 DEF AttachFails, KInitiate, ExtentInv, StartInv, dbvars, wvars
<1>6. CASE Crash
  <2>1. StartInv'
    BY <1>6 DEF Crash, GoTo, StopWatchers, KCloseAll, StartInv, dbvars
  <2>2. ExtentInv'
    BY <1>6 DEF Crash, StopWatchers, KCloseAll, ExtentInv
  <2>3. QED
    BY <2>1, <2>2
<1>7. CASE Reboot
  BY <1>7 DEF Reboot, GoTo, StopWatchers, KReboot, LoseDB, ExtentInv, StartInv
<1>8. QED
  BY <1>1, <1>2, <1>3, <1>4, <1>5, <1>6, <1>7 DEF StartStep

\* Watchers: none runs while the agent starts.
LEMMA WatcherSteps ==
    ASSUME TypeInv, PipeInv, ExtentInv, StartInv, WatchersStep
    PROVE  ExtentInv' /\ StartInv'
<1>1. PICK s \in StoreIds : WatcherStep(s)
  BY DEF WatchersStep
<1>2. mpc \notin StartStates
  BY <1>1 DEF StartInv, WatcherStep, ReadHalfFill, ReadOverflow, ReadTerminate, ReadError, Send,
              NextEvent
<1>3. StartInv'
  BY <1>2 DEF StartInv, WatchersStep, dbvars, mvars, StartStates
<1>4. CASE ReadTerminate(s)
  <2>1. s \notin kStores
    BY <1>4, NextEventRange DEF ReadTerminate, PipeInv
  <2>2. QED
    BY <1>3, <1>4, <2>1 DEF ReadTerminate, ExtentInv
<1>5. CASE ReadHalfFill(s)
  BY <1>3, <1>5 DEF ReadHalfFill, AllocateSucceeds, AllocateFails, ExtentInv
<1>6. CASE ReadOverflow(s) \/ ReadError(s) \/ Send(s)
  BY <1>3, <1>6 DEF ReadOverflow, ReadError, Send, ExtentInv, kvars
<1>7. QED
  BY <1>1, <1>4, <1>5, <1>6 DEF WatcherStep

\* The requests, the message handler and the kernel.
LEMMA OtherSteps ==
    ASSUME TypeInv, ExtentInv, StartInv,
           RequestStep \/ RequestFails \/ NewRequest \/ HandlerStep \/ KernelStep \/ UNCHANGED vars
    PROVE  ExtentInv' /\ StartInv'
<1>1. CASE RequestStep \/ RequestFails \/ NewRequest
  <2>1. mpc \notin StartStates /\ mpc' \notin StartStates /\ dbFile' = dbFile
    BY <1>1 DEF RequestStep, ReuseStore, InsertStoreRow, NoMapping, InitiateStore, InitialAllocation,
                RecordInitialFile, TakeSnapshot, CollectInfo, FetchBitmap, RecordSnapshot,
                UndoSnapshot, UndoDone, DeleteFileRows, DeleteStoreRow, DeleteRecord, InsertRows,
                UndoStore, DeleteStore, DeleteVolume, RequestFails, InitiateFails,
                TakeSnapshotFails, RowsFail, RecordSnapshotFails, DeleteStoreFails,
                DeleteRecordFails, NewRequest, BeginCreate, BeginDelete, QueryUsage,
                Return, GoTo, StartStates, dbvars, mvars
  <2>2. StartInv'
    BY <2>1 DEF StartInv, StartStates
  <2>3. CASE InitialAllocation
    BY <2>2, <2>3 DEF InitialAllocation, AllocateSucceeds, AllocateFails, ExtentInv, wvars
  <2>4. CASE InitiateStore
    BY <2>2, <2>4 DEF InitiateStore, KInitiate, ExtentInv
  <2>5. CASE \E s \in StoreIds : UndoStore(s) \/ DeleteStore(s) \/ QueryUsage(s)
    BY <2>2, <2>5 DEF UndoStore, DeleteStore, QueryUsage, KCleanup, ExtentInv, kvars, wvars
  <2>6. CASE TakeSnapshot \/ UndoSnapshot \/ \E i \in SnapIds : BeginDelete(i)
    BY <2>2, <2>6 DEF TakeSnapshot, UndoSnapshot, BeginDelete, KCreateSnapshot, KDeleteSnapshot,
                ExtentInv, kvars, wvars
  <2>7. ExtentInv'
    BY <1>1, <2>3, <2>4, <2>5, <2>6
       DEF RequestStep, ReuseStore, InsertStoreRow, NoMapping, RecordInitialFile, CollectInfo,
           FetchBitmap, RecordSnapshot, UndoDone, DeleteFileRows, DeleteStoreRow, DeleteRecord,
           InsertRows, DeleteVolume, RequestFails, InitiateFails, TakeSnapshotFails, RowsFail,
           RecordSnapshotFails, DeleteStoreFails, DeleteRecordFails, NewRequest, BeginCreate,
           ExtentInv, kvars, wvars
  <2>8. QED
    BY <2>2, <2>7
<1>2. CASE HandlerStep
  BY <1>2 DEF HandlerStep, HandleAddFile, InsertFileRow, HandleDeleted, HandlerDeleteFiles,
              HandlerDeleteStore, HandleOverflow, HandleError, ExtentInv, StartInv, StartStates,
              kvars, wvars, dbvars, mvars
<1>3. CASE KernelStep
  BY <1>3 DEF KernelStep, KEvent, ExtentInv, StartInv, wvars, dbvars, mvars
<1>4. CASE UNCHANGED vars
  BY <1>4 DEF vars, ExtentInv, StartInv, kvars, wvars, dbvars, mvars
<1>5. QED
  BY <1>1, <1>2, <1>3, <1>4

LEMMA StorageInit == Init => PipeInv /\ ExtentInv /\ StartInv
BY DEF Init, KernelInit, WatcherInit, DBInit, PipeInv, ExtentInv, StartInv

\* As long as the database outlives the process, no step of the agent removes
\* the files a snap store writes to: not a clean-up at start-up (manager.go:77)
\* nor a watcher that takes its store for deleted (models.go:104-107).
THEOREM ExtentsStayBacked == KeepsDB => (Spec => []ExtentsAreBacked)
<1>1. SUFFICES ASSUME KeepsDB PROVE Spec => []ExtentsAreBacked
  OBVIOUS
<1>. DEFINE Inv == TypeInv /\ PipeInv /\ ExtentInv /\ StartInv
<1>2. Init => Inv
  BY InitTypes, StorageInit
<1>3. Inv /\ [Next]_vars => Inv'
  <2>. SUFFICES ASSUME Inv, [Next]_vars PROVE Inv'
    OBVIOUS
  <2>1. TypeInv' /\ PipeInv'
    BY TypeStep, PipeStep
  <2>2. ExtentInv' /\ StartInv'
    BY <1>1, StartSteps, WatcherSteps, OtherSteps DEF Next
  <2>3. QED
    BY <2>1, <2>2
<1>4. Inv => ExtentsAreBacked
  BY DEF ExtentInv, ExtentsAreBacked
<1>5. QED
  BY <1>2, <1>3, <1>4, PTL DEF Spec

-----------------------------------------------------------------------------
(* Watchers *)

\* Steps that add no store row and no store, and leave the watchers alone.
Quiet ==
    /\ storeRow' \subseteq storeRow
    /\ kStores' \subseteq kStores
    /\ UNCHANGED <<storeIssued, watch>>
    /\ mpc' \in StartStates \/ mpc \notin StartStates
    /\ mpc' = "initiate" => mpc = "initiate" /\ cur' = cur

LEMMA QuietKeeps ==
    ASSUME IssuedStores, WatchInv, Quiet
    PROVE  IssuedStores' /\ WatchInv'
<1>1. IssuedStores'
  BY DEF Quiet, IssuedStores
<1>2. WatchInv'
  BY DEF Quiet, WatchInv
<1>3. QED
  BY <1>1, <1>2

\* Most steps are of that kind.
LEMMA QuietSteps ==
    ASSUME TypeInv, [Next]_vars,
           ~\E d \in Disks : InsertStoreRow(d), ~InitiateStore,
           ~WatchersStep, ~AttachWatchers, ~AttachFails, ~Crash, ~Reboot
    PROVE  Quiet
<1>. USE DEF Quiet, StartStates
<1>1. CASE RequestStep
  <2>1. CASE (\E d \in Disks : ReuseStore(d) \/ NoMapping(d)) \/ InitialAllocation \/ RecordInitialFile
             \/ TakeSnapshot \/ CollectInfo
    BY <2>1 DEF ReuseStore, NoMapping, InitialAllocation, RecordInitialFile, TakeSnapshot,
                CollectInfo, KCreateSnapshot, Return, GoTo, kvars, dbvars, wvars
  <2>2. CASE FetchBitmap \/ RecordSnapshot \/ UndoSnapshot \/ UndoDone \/ DeleteFileRows
             \/ DeleteStoreRow \/ DeleteRecord
    BY <2>2 DEF FetchBitmap, RecordSnapshot, UndoSnapshot, UndoDone, DeleteFileRows,
                DeleteStoreRow, DeleteRecord, KDeleteSnapshot, Return, GoTo, kvars, dbvars, wvars
  <2>3. CASE \E s \in StoreIds : InsertRows(s) \/ UndoStore(s) \/ DeleteStore(s) \/ DeleteVolume(s)
    BY <2>3 DEF InsertRows, UndoStore, DeleteStore, DeleteVolume, KCleanup, kvars, dbvars, wvars
  <2>4. QED
    BY <1>1, <2>1, <2>2, <2>3 DEF RequestStep
<1>2. CASE RequestFails
  BY <1>2 DEF RequestFails, InitiateFails, TakeSnapshotFails, RowsFail, RecordSnapshotFails,
              DeleteStoreFails, DeleteRecordFails, Return, GoTo, kvars, dbvars, wvars
<1>3. CASE NewRequest
  BY <1>3 DEF NewRequest, BeginCreate, BeginDelete, QueryUsage, KDeleteSnapshot, KCleanup,
              kvars, dbvars, wvars, mvars
<1>4. CASE HandlerStep
  BY <1>4 DEF HandlerStep, HandleAddFile, InsertFileRow, HandleDeleted, HandlerDeleteFiles,
              HandlerDeleteStore, HandleOverflow, HandleError, kvars, dbvars, wvars, mvars
<1>5. CASE KernelStep
  BY <1>5 DEF KernelStep, KEvent, dbvars, wvars, mvars
<1>6. CASE OpenDB \/ CleanStorage \/ CleanStorageFails
  BY <1>6 DEF OpenDB, CleanStorage, CleanStorageFails, kvars, dbvars, wvars
<1>7. CASE UNCHANGED vars
  BY <1>7 DEF vars, kvars, dbvars, wvars, mvars
<1>8. QED
  BY <1>1, <1>2, <1>3, <1>4, <1>5, <1>6, <1>7 DEF Next, StartStep

LEMMA WatchStep ==
    ASSUME "watch" \notin Faults, TypeInv, PipeInv, IssuedStores, WatchInv, [Next]_vars
    PROVE  IssuedStores' /\ WatchInv'
<1>0. watch \in [StoreIds -> WatcherStates] /\ storeRow \subseteq StoreIds
  BY DEF TypeInv, WatcherTypeOK, DBTypeOK
<1>1. ASSUME NEW d \in Disks, InsertStoreRow(d) PROVE IssuedStores' /\ WatchInv'
  BY <1>1 DEF InsertStoreRow, IssuedStores, WatchInv, StartStates, kvars, wvars
<1>2. CASE InitiateStore
  BY <1>0, <1>2 DEF InitiateStore, KInitiate, StartWatchers, IssuedStores, WatchInv, StartStates,
                    dbvars
<1>3. CASE WatchersStep
  <2>1. PICK s \in StoreIds : WatcherStep(s)
    BY <1>3 DEF WatchersStep
  <2>2. UNCHANGED <<kStores, storeRow, storeIssued, mpc, cur>>
    BY <1>3, <2>1 DEF WatchersStep, WatcherStep, ReadHalfFill, ReadOverflow, ReadTerminate,
                      ReadError, Send, kvars, dbvars, mvars
  <2>3. \A t \in StoreIds : t \in kStores /\ watch[t] \in {"reading", "sending"}
                            => watch'[t] \in {"reading", "sending"}
    <3>1. CASE ReadTerminate(s)
      BY <1>0, <3>1, NextEventRange DEF ReadTerminate, PipeInv, Report
    <3>2. CASE ReadHalfFill(s) \/ ReadOverflow(s)
      BY <1>0, <3>2 DEF ReadHalfFill, ReadOverflow, Report
    <3>3. CASE Send(s)
      BY <1>0, <3>3 DEF Send
    <3>4. ~ReadError(s)
      BY DEF ReadError
    <3>5. QED
      BY <2>1, <3>1, <3>2, <3>3, <3>4 DEF WatcherStep
  <2>4. QED
    BY <1>0, <2>2, <2>3 DEF IssuedStores, WatchInv
<1>4. CASE AttachWatchers
  BY <1>0, <1>4 DEF AttachWatchers, KInitiate, StartWatchers, IssuedStores, WatchInv, dbvars
<1>5. CASE AttachFails
  BY <1>5 DEF AttachFails, KInitiate, IssuedStores, WatchInv, StartStates, dbvars
<1>6. CASE Crash
  BY <1>6 DEF Crash, GoTo, KCloseAll, LoseDB, IssuedStores, WatchInv, StartStates, dbvars
<1>7. CASE Reboot
  BY <1>7 DEF Reboot, GoTo, KReboot, LoseDB, IssuedStores, WatchInv, StartStates
<1>8. QED
  BY <1>1, <1>2, <1>3, <1>4, <1>5, <1>6, <1>7, QuietSteps, QuietKeeps

LEMMA WatchInit == Init => PipeInv /\ IssuedStores /\ WatchInv
BY DEF Init, KernelInit, DBInit, PipeInv, IssuedStores, WatchInv, StartStates

\* As long as the character devices can be read, every snap store in the
\* database that exists has a watcher that listens, after restarts too
\* (PopulateSnapStoreWatcher, CreateSnapStore, charDeviceReader).
THEOREM StoresAreWatched == "watch" \notin Faults => (Spec => []RecordedStoresAreWatched)
<1>1. SUFFICES ASSUME "watch" \notin Faults PROVE Spec => []RecordedStoresAreWatched
  OBVIOUS
<1>. DEFINE Inv == TypeInv /\ PipeInv /\ IssuedStores /\ WatchInv
<1>2. Init => Inv
  BY InitTypes, WatchInit
<1>3. Inv /\ [Next]_vars => Inv'
  BY <1>1, TypeStep, PipeStep, WatchStep
<1>4. Inv => RecordedStoresAreWatched
  BY DEF WatchInv, RecordedStoresAreWatched
<1>5. QED
  BY <1>2, <1>3, <1>4, PTL DEF Spec
=============================================================================

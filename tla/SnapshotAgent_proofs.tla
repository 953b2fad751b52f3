------------------------ MODULE SnapshotAgent_proofs ------------------------
(***************************************************************************)
(* Proofs about SnapshotAgent, for any disks, snap stores, bounds and      *)
(* choice of failures.                                                     *)
(***************************************************************************)
EXTENDS SnapshotAgent, TLAPS

-----------------------------------------------------------------------------
(* Type correctness *)

\* The variables of the request, with what its program counter says about the
\* ones its next step uses.
ManagerOK ==
    /\ mpc \in StartStates \cup {"idle"} \cup CreateStates \cup DeleteStates
    /\ req \subseteq Disks
    /\ todo \subseteq Disks
    /\ got \subseteq StoreIds
    /\ sid \in SnapIds \cup {NoSnap}
    /\ cur \in StoreIds \cup {NoStore}
    /\ mpc \in {"collect", "rows", "bitmap", "undo"} \cup DeleteStates => sid \in SnapIds
    /\ mpc \in {"initiate", "allocate", "record", "bitmap", "delfiles", "delrow"} => cur \in StoreIds

\* The same for the message handler.
HandlerOK ==
    /\ hpc \in {"idle", "insert", "delfiles", "delrow"}
    /\ hcur \in StoreIds \cup {NoStore}
    /\ hpc # "idle" => hcur \in StoreIds

\* TypeOK made inductive.
TypeInv ==
    /\ KernelTypeOK
    /\ DBTypeOK
    /\ WatcherTypeOK
    /\ ManagerOK
    /\ HandlerOK
    /\ stops \in Nat

\* What each operation of the kernel module leaves of its types.
LEMMA KernelTypes ==
    ASSUME KernelTypeOK,
           \/ \E i \in SnapIds, D \in SUBSET Disks : KCreateSnapshot(i, D)
           \/ \E i \in SnapIds : KDeleteSnapshot(i)
           \/ \E s \in StoreIds, l \in BOOLEAN : KCleanup(s, l)
           \/ \E S \in SUBSET StoreIds : KInitiate(S)
           \/ \E s \in StoreIds, e \in EventKinds : KEvent(s, e)
           \/ KCloseAll
           \/ KReboot
           \/ UNCHANGED kvars
    PROVE  KernelTypeOK'
<1>1. CASE \E i \in SnapIds, D \in SUBSET Disks : KCreateSnapshot(i, D)
  BY <1>1 DEF KernelTypeOK, KCreateSnapshot
<1>2. CASE \E i \in SnapIds : KDeleteSnapshot(i)
  BY <1>2 DEF KernelTypeOK, KDeleteSnapshot
<1>3. CASE \E s \in StoreIds, l \in BOOLEAN : KCleanup(s, l)
  <2>1. PICK s \in StoreIds, l \in BOOLEAN : KCleanup(s, l)
    BY <1>3
  <2>2. Append(pipe[s], "terminate") \in Seq(EventKinds)
    BY DEF KernelTypeOK, EventKinds
  <2>3. pipe' \in [StoreIds -> Seq(EventKinds)]
    BY <2>1, <2>2 DEF KernelTypeOK, KCleanup
  <2>4. QED
    BY <2>1, <2>3 DEF KernelTypeOK, KCleanup
<1>4. CASE \E S \in SUBSET StoreIds : KInitiate(S)
  BY <1>4 DEF KernelTypeOK, KInitiate
<1>5. CASE \E s \in StoreIds, e \in EventKinds : KEvent(s, e)
  BY <1>5 DEF KernelTypeOK, KEvent, EventKinds
<1>6. CASE KCloseAll
  BY <1>6 DEF KernelTypeOK, KCloseAll
<1>7. CASE KReboot
  BY <1>7 DEF KernelTypeOK, KReboot
<1>8. CASE UNCHANGED kvars
  BY <1>8 DEF KernelTypeOK, kvars
<1>9. QED
  BY <1>1, <1>2, <1>3, <1>4, <1>5, <1>6, <1>7, <1>8

\* A message of a watcher is one the handler knows.
LEMMA MsgTypes ==
    ASSUME NEW s \in StoreIds, NEW t \in {"AddFile", "Deleted", "Overflow", "Error"}
    PROVE  Msg(t, s) \in Messages
BY DEF Msg, Messages

\* Taking an event from a character device keeps the queues' types.
LEMMA NextEventTypes ==
    ASSUME KernelTypeOK, NEW s \in StoreIds, NEW e, NextEvent(s, e)
    PROVE  pipe' \in [StoreIds -> Seq(EventKinds)]
<1>1. Tail(pipe[s]) \in Seq(EventKinds)
  BY DEF KernelTypeOK, NextEvent
<1>2. QED
  BY <1>1 DEF KernelTypeOK, NextEvent

\* So does queueing messages for the channel.
LEMMA ReportTypes ==
    ASSUME WatcherTypeOK, NEW s \in StoreIds, NEW state \in WatcherStates,
           NEW msgs \in Seq(Messages), Report(s, state, msgs), dir' \subseteq StoreIds
    PROVE  WatcherTypeOK'
BY DEF WatcherTypeOK, Report

\* A step of a watcher keeps the types of its own variables and the kernel's.
LEMMA WatcherTypes ==
    ASSUME KernelTypeOK, WatcherTypeOK, NEW s \in StoreIds, WatcherStep(s)
    PROVE  KernelTypeOK' /\ WatcherTypeOK'
<1>0. /\ "sending" \in WatcherStates /\ "closing" \in WatcherStates
      /\ dir \subseteq StoreIds
  BY DEF WatcherStates, WatcherTypeOK
<1>1. CASE ReadHalfFill(s)
  <2>1. pipe' \in [StoreIds -> Seq(EventKinds)]
    BY <1>1, NextEventTypes DEF ReadHalfFill
  <2>2. KernelTypeOK'
    BY <1>1, <2>1 DEF ReadHalfFill, AllocateSucceeds, AllocateFails, KernelTypeOK
  <2>3. \E t \in {"AddFile", "Error"} : Report(s, "sending", <<Msg(t, s)>>)
    BY <1>1 DEF ReadHalfFill
  <2>4. \A t \in {"AddFile", "Error"} : <<Msg(t, s)>> \in Seq(Messages)
    BY MsgTypes
  <2>5. WatcherTypeOK'
    BY <1>0, <1>1, <2>3, <2>4, ReportTypes DEF ReadHalfFill
  <2>6. QED
    BY <2>2, <2>5
<1>2. CASE ReadOverflow(s)
  <2>1. pipe' \in [StoreIds -> Seq(EventKinds)]
    BY <1>2, NextEventTypes DEF ReadOverflow
  <2>2. KernelTypeOK'
    BY <1>2, <2>1 DEF ReadOverflow, KernelTypeOK
  <2>3. <<Msg("Overflow", s), Msg("Error", s)>> \in Seq(Messages)
    BY MsgTypes
  <2>4. WatcherTypeOK'
    BY <1>0, <1>2, <2>3, ReportTypes DEF ReadOverflow
  <2>5. QED
    BY <2>2, <2>4
<1>3. CASE ReadTerminate(s)
  <2>1. pipe' \in [StoreIds -> Seq(EventKinds)]
    BY <1>3, NextEventTypes DEF ReadTerminate
  <2>2. KernelTypeOK'
    BY <1>3, <2>1 DEF ReadTerminate, KernelTypeOK
  <2>3. \E t \in {"Deleted", "Error"} : Report(s, "closing", <<Msg(t, s)>>)
    BY <1>3 DEF ReadTerminate
  <2>4. \A t \in {"Deleted", "Error"} : <<Msg(t, s)>> \in Seq(Messages)
    BY MsgTypes
  <2>5. dir' \subseteq StoreIds
    BY <1>0, <1>3 DEF ReadTerminate
  <2>6. WatcherTypeOK'
    BY <1>0, <2>3, <2>4, <2>5, ReportTypes
  <2>7. QED
    BY <2>2, <2>6
<1>4. CASE ReadError(s)
  <2>1. <<Msg("Error", s)>> \in Seq(Messages)
    BY MsgTypes
  <2>2. WatcherTypeOK'
    BY <1>0, <1>4, <2>1, ReportTypes DEF ReadError
  <2>3. QED
    BY <1>4, <2>2, KernelTypes DEF ReadError
<1>5. CASE Send(s)
  <2>1. out[s] \in Seq(Messages) /\ out[s] # <<>>
    BY <1>5 DEF Send, WatcherTypeOK
  <2>2. Tail(out[s]) \in Seq(Messages) /\ Head(out[s]) \in Messages
    BY <2>1
  <2>3. msgChan' \in Seq(Messages)
    BY <1>5, <2>2 DEF Send, WatcherTypeOK
  <2>4. out' \in [StoreIds -> Seq(Messages)]
    BY <1>5, <2>2 DEF Send, WatcherTypeOK
  <2>5. watch' \in [StoreIds -> WatcherStates]
    BY <1>5 DEF Send, WatcherTypeOK, WatcherStates
  <2>6. pipe' \in [StoreIds -> Seq(EventKinds)]
    BY <1>5 DEF Send, KernelTypeOK
  <2>7. QED
    BY <1>5, <2>3, <2>4, <2>5, <2>6 DEF Send, KernelTypeOK, WatcherTypeOK
<1>6. QED
  BY <1>1, <1>2, <1>3, <1>4, <1>5 DEF WatcherStep

\* Variables a step leaves alone keep their types.
LEMMA UnchangedTypes ==
    /\ KernelTypeOK /\ UNCHANGED kvars => KernelTypeOK'
    /\ DBTypeOK /\ UNCHANGED dbvars => DBTypeOK'
    /\ WatcherTypeOK /\ UNCHANGED wvars => WatcherTypeOK'
    /\ ManagerOK /\ UNCHANGED mvars => ManagerOK'
    /\ HandlerOK /\ UNCHANGED hvars => HandlerOK'
BY DEF KernelTypeOK, kvars, DBTypeOK, dbvars, WatcherTypeOK, wvars, ManagerOK, mvars,
       HandlerOK, hvars

\* A request that returns and a process that goes down leave nothing behind.
LEMMA GoToTypes ==
    ASSUME NEW pc \in {"idle", "down"}, GoTo(pc)
    PROVE  ManagerOK'
BY DEF GoTo, ManagerOK, StartStates, CreateStates, EnsureStates, DeleteStates

LEMMA InitTypes == Init => TypeInv
<1>1. KernelInit => KernelTypeOK
  BY DEF KernelInit, KernelTypeOK
<1>2. DBInit => DBTypeOK
  BY DEF DBInit, DBTypeOK
<1>3. WatcherInit => WatcherTypeOK
  BY DEF WatcherInit, WatcherTypeOK, WatcherStates
<1>4. QED
  BY <1>1, <1>2, <1>3 DEF Init, TypeInv, ManagerOK, StartStates, DeleteStates, HandlerOK

\* A request that changes its own variables only.
LEMMA LocalTypes ==
    ASSUME TypeInv, UNCHANGED <<kvars, dbvars, wvars, hvars, stops>>, ManagerOK'
    PROVE  TypeInv'
BY UnchangedTypes DEF TypeInv

LEMMA RequestTypes == TypeInv /\ RequestStep => TypeInv'
<1>. SUFFICES ASSUME TypeInv, RequestStep PROVE TypeInv'
  OBVIOUS
<1>. USE UnchangedTypes DEF TypeInv, StartStates, CreateStates, EnsureStates, DeleteStates
<1>1. ASSUME NEW d \in Disks, ReuseStore(d) PROVE TypeInv'
  <2>1. ManagerOK'
    BY <1>1 DEF ReuseStore, StoresOfDisk, ManagerOK, DBTypeOK
  <2>2. QED
    BY <1>1, <2>1, LocalTypes DEF ReuseStore
<1>2. ASSUME NEW d \in Disks, InsertStoreRow(d) PROVE TypeInv'
  <2>1. ManagerOK'
    BY <1>2 DEF InsertStoreRow, ManagerOK
  <2>2. DBTypeOK'
    BY <1>2 DEF InsertStoreRow, DBTypeOK
  <2>3. QED
    BY <1>2, <2>1, <2>2 DEF InsertStoreRow
<1>3. ASSUME NEW d \in Disks, NoMapping(d) PROVE TypeInv'
  BY <1>3, GoToTypes, LocalTypes DEF NoMapping, Return
<1>4. CASE InitiateStore
  <2>1. cur \in StoreIds /\ ManagerOK'
    BY <1>4 DEF InitiateStore, ManagerOK
  <2>2. KernelTypeOK'
    BY <1>4, <2>1, KernelTypes DEF InitiateStore
  <2>3. WatcherTypeOK'
    BY <1>4, <2>1 DEF InitiateStore, StartWatchers, WatcherTypeOK, WatcherStates
  <2>4. QED
    BY <1>4, <2>1, <2>2, <2>3 DEF InitiateStore
<1>5. CASE InitialAllocation
  <2>1. cur \in StoreIds
    BY <1>5 DEF InitialAllocation, ManagerOK
  <2>2. KernelTypeOK'
    BY <1>5, <2>1 DEF InitialAllocation, AllocateSucceeds, AllocateFails, KernelTypeOK
  <2>3. ManagerOK'
    BY <1>5, GoToTypes DEF InitialAllocation, Return, ManagerOK
  <2>4. QED
    BY <1>5, <2>2, <2>3 DEF InitialAllocation
<1>6. CASE RecordInitialFile
  <2>1. ManagerOK'
    BY <1>6, GoToTypes DEF RecordInitialFile, Return, ManagerOK
  <2>2. DBTypeOK'
    BY <1>6 DEF RecordInitialFile, ManagerOK, DBTypeOK
  <2>3. QED
    BY <1>6, <2>1, <2>2 DEF RecordInitialFile
<1>7. CASE TakeSnapshot
  <2>1. KernelTypeOK'
    BY <1>7, KernelTypes DEF TakeSnapshot, ManagerOK
  <2>2. ManagerOK'
    BY <1>7 DEF TakeSnapshot, ManagerOK
  <2>3. QED
    BY <1>7, <2>1, <2>2 DEF TakeSnapshot
<1>8. CASE CollectInfo
  <2>1. ManagerOK'
    BY <1>8 DEF CollectInfo, ManagerOK
  <2>2. QED
    BY <1>8, <2>1, LocalTypes DEF CollectInfo
<1>9. CASE FetchBitmap
  <2>1. ManagerOK'
    BY <1>9, GoToTypes DEF FetchBitmap, Return, ManagerOK
  <2>2. DBTypeOK'
    BY <1>9 DEF FetchBitmap, DeleteVolumeRow, DBTypeOK
  <2>3. QED
    BY <1>9, <2>1, <2>2 DEF FetchBitmap
<1>10. CASE RecordSnapshot
  <2>1. ManagerOK'
    BY <1>10, GoToTypes DEF RecordSnapshot, Return
  <2>2. DBTypeOK'
    BY <1>10 DEF RecordSnapshot, ManagerOK, DBTypeOK
  <2>3. QED
    BY <1>10, <2>1, <2>2 DEF RecordSnapshot
<1>11. CASE UndoSnapshot
  <2>1. KernelTypeOK'
    BY <1>11, KernelTypes DEF UndoSnapshot, ManagerOK
  <2>2. ManagerOK'
    BY <1>11 DEF UndoSnapshot, ManagerOK
  <2>3. QED
    BY <1>11, <2>1, <2>2 DEF UndoSnapshot
<1>12. CASE UndoDone
  BY <1>12, GoToTypes, LocalTypes DEF UndoDone, Return
<1>13. CASE DeleteFileRows
  <2>1. ManagerOK'
    BY <1>13 DEF DeleteFileRows, ManagerOK
  <2>2. DBTypeOK'
    BY <1>13 DEF DeleteFileRows, DBTypeOK
  <2>3. QED
    BY <1>13, <2>1, <2>2 DEF DeleteFileRows
<1>14. CASE DeleteStoreRow
  <2>1. ManagerOK'
    BY <1>14 DEF DeleteStoreRow, ManagerOK
  <2>2. DBTypeOK'
    BY <1>14 DEF DeleteStoreRow, DBTypeOK
  <2>3. QED
    BY <1>14, <2>1, <2>2 DEF DeleteStoreRow
<1>15. CASE DeleteRecord
  <2>1. ManagerOK'
    BY <1>15, GoToTypes DEF DeleteRecord, Return
  <2>2. DBTypeOK'
    BY <1>15 DEF DeleteRecord, DBTypeOK
  <2>3. QED
    BY <1>15, <2>1, <2>2 DEF DeleteRecord
<1>16. ASSUME NEW s \in StoreIds, InsertRows(s) PROVE TypeInv'
  <2>1. ManagerOK' /\ sid \in SnapIds /\ StoreDisk[s] \in Disks
    BY <1>16, StoreDiskAssumption DEF InsertRows, ManagerOK
  <2>2. NewVolumeRow(sid, StoreDisk[s]) \in VolumeSnapshots
    BY <2>1 DEF NewVolumeRow, VolumeSnapshots, VolumeStatus
  <2>3. DBTypeOK'
    BY <1>16, <2>2 DEF InsertRows, InsertVolumeRow, DBTypeOK
  <2>4. QED
    BY <1>16, <2>1, <2>3 DEF InsertRows
<1>17. ASSUME NEW s \in StoreIds, UndoStore(s) PROVE TypeInv'
  <2>1. ManagerOK'
    BY <1>17 DEF UndoStore, ManagerOK
  <2>2. Listening(s) \in BOOLEAN
    BY DEF Listening
  <2>3. KernelTypeOK'
    BY <1>17, <2>2, KernelTypes DEF UndoStore
  <2>4. QED
    BY <1>17, <2>1, <2>3 DEF UndoStore
<1>18. ASSUME NEW s \in StoreIds, DeleteStore(s) PROVE TypeInv'
  <2>1. ManagerOK'
    BY <1>18 DEF DeleteStore, ManagerOK
  <2>2. Listening(s) \in BOOLEAN
    BY DEF Listening
  <2>3. KernelTypeOK'
    BY <1>18, <2>2, KernelTypes DEF DeleteStore
  <2>4. QED
    BY <1>18, <2>1, <2>3 DEF DeleteStore
<1>19. ASSUME NEW s \in StoreIds, DeleteVolume(s) PROVE TypeInv'
  <2>1. ManagerOK'
    BY <1>19 DEF DeleteVolume, ManagerOK
  <2>2. DBTypeOK'
    BY <1>19 DEF DeleteVolume, DeleteVolumeRow, DBTypeOK
  <2>3. QED
    BY <1>19, <2>1, <2>2 DEF DeleteVolume
<1>20. QED
  BY <1>1, <1>2, <1>3, <1>4, <1>5, <1>6, <1>7, <1>8, <1>9, <1>10, <1>11, <1>12, <1>13, <1>14,
     <1>15, <1>16, <1>17, <1>18, <1>19 DEF RequestStep

LEMMA RequestFailsTypes == TypeInv /\ RequestFails => TypeInv'
<1>. SUFFICES ASSUME TypeInv, RequestFails PROVE TypeInv'
  OBVIOUS
<1>. USE UnchangedTypes DEF TypeInv, StartStates, CreateStates, EnsureStates, DeleteStates
<1>1. CASE InitiateFails
  <2>1. DBTypeOK'
    BY <1>1 DEF InitiateFails, DBTypeOK
  <2>2. QED
    BY <1>1, <2>1, GoToTypes DEF InitiateFails, Return
<1>2. CASE TakeSnapshotFails
  <2>1. ManagerOK'
    BY <1>2 DEF TakeSnapshotFails, ManagerOK
  <2>2. QED
    BY <1>2, <2>1, LocalTypes DEF TakeSnapshotFails
<1>3. CASE RowsFail
  BY <1>3, GoToTypes, LocalTypes DEF RowsFail, Return
<1>4. CASE RecordSnapshotFails
  <2>1. ManagerOK'
    BY <1>4 DEF RecordSnapshotFails, ManagerOK
  <2>2. QED
    BY <1>4, <2>1, LocalTypes DEF RecordSnapshotFails
<1>5. CASE DeleteStoreFails \/ DeleteRecordFails
  BY <1>5, GoToTypes, LocalTypes DEF DeleteStoreFails, DeleteRecordFails, Return
<1>6. QED
  BY <1>1, <1>2, <1>3, <1>4, <1>5 DEF RequestFails

LEMMA NewRequestTypes == TypeInv /\ NewRequest => TypeInv'
<1>. SUFFICES ASSUME TypeInv, NewRequest PROVE TypeInv'
  OBVIOUS
<1>. USE UnchangedTypes DEF TypeInv, StartStates, CreateStates, EnsureStates, DeleteStates
<1>1. ASSUME NEW D \in SUBSET Disks, BeginCreate(D) PROVE TypeInv'
  <2>1. ManagerOK'
    BY <1>1 DEF BeginCreate, ManagerOK
  <2>2. QED
    BY <1>1, <2>1, LocalTypes DEF BeginCreate
<1>2. ASSUME NEW i \in SnapIds, BeginDelete(i) PROVE TypeInv'
  <2>1. KernelTypeOK'
    BY <1>2, KernelTypes DEF BeginDelete
  <2>2. snapRow[i] \subseteq StoreIds /\ DisksOf(snapRow[i]) \subseteq Disks
    BY <1>2, StoreDiskAssumption DEF DBTypeOK, DisksOf
  <2>3. ManagerOK'
    BY <1>2, <2>2 DEF BeginDelete, ManagerOK
  <2>4. QED
    BY <1>2, <2>1, <2>3 DEF BeginDelete
<1>3. ASSUME NEW s \in StoreIds, QueryUsage(s) PROVE TypeInv'
  <2>1. Listening(s) \in BOOLEAN
    BY DEF Listening
  <2>2. KernelTypeOK'
    BY <1>3, <2>1, KernelTypes DEF QueryUsage
  <2>3. QED
    BY <1>3, <2>2 DEF QueryUsage
<1>4. QED
  BY <1>1, <1>2, <1>3 DEF NewRequest

LEMMA TakeMessageTypes ==
    ASSUME WatcherTypeOK, NEW type, TakeMessage(type), UNCHANGED <<watch, out, dir>>
    PROVE  WatcherTypeOK' /\ Head(msgChan) \in Messages /\ Head(msgChan).store \in StoreIds
<1>1. msgChan \in Seq(Messages) /\ msgChan # <<>>
  BY DEF WatcherTypeOK, TakeMessage
<1>2. Tail(msgChan) \in Seq(Messages) /\ Head(msgChan) \in Messages
  BY <1>1
<1>3. QED
  BY <1>2 DEF WatcherTypeOK, TakeMessage, Messages

LEMMA HandlerTypes == TypeInv /\ HandlerStep => TypeInv'
<1>. SUFFICES ASSUME TypeInv, HandlerStep PROVE TypeInv'
  OBVIOUS
<1>. USE UnchangedTypes DEF TypeInv
<1>1. CASE HandleAddFile \/ HandleDeleted \/ HandleError
  <2>1. WatcherTypeOK' /\ Head(msgChan).store \in StoreIds
    BY <1>1, TakeMessageTypes DEF HandleAddFile, HandleDeleted, HandleError
  <2>2. HandlerOK'
    BY <1>1, <2>1 DEF HandleAddFile, HandleDeleted, HandleError, HandlerOK, hvars
  <2>3. QED
    BY <1>1, <2>1, <2>2 DEF HandleAddFile, HandleDeleted, HandleError
<1>2. CASE HandleOverflow
  <2>1. WatcherTypeOK'
    BY <1>2, TakeMessageTypes DEF HandleOverflow
  <2>2. volRow' \subseteq VolumeSnapshots
    BY <1>2 DEF HandleOverflow, MarkOverflow, DBTypeOK, VolumeSnapshots, VolumeStatus
  <2>3. DBTypeOK'
    BY <1>2, <2>2 DEF HandleOverflow, DBTypeOK
  <2>4. QED
    BY <1>2, <2>1, <2>3 DEF HandleOverflow
<1>3. CASE InsertFileRow \/ HandlerDeleteFiles \/ HandlerDeleteStore
  <2>1. DBTypeOK'
    BY <1>3 DEF InsertFileRow, HandlerDeleteFiles, HandlerDeleteStore, DBTypeOK, HandlerOK
  <2>2. HandlerOK'
    BY <1>3 DEF InsertFileRow, HandlerDeleteFiles, HandlerDeleteStore, HandlerOK, HandlerDone
  <2>3. QED
    BY <1>3, <2>1, <2>2 DEF InsertFileRow, HandlerDeleteFiles, HandlerDeleteStore
<1>4. QED
  BY <1>1, <1>2, <1>3 DEF HandlerStep

LEMMA LoseDBTypes == DBTypeOK /\ LoseDB => DBTypeOK'
BY DEF DBTypeOK, LoseDB

LEMMA StopTypes ==
    /\ WatcherTypeOK /\ StopWatchers => WatcherTypeOK'
    /\ HandlerDone => HandlerOK'
<1>1. WatcherTypeOK /\ StopWatchers => WatcherTypeOK'
  BY DEF WatcherTypeOK, WatcherStates, StopWatchers
<1>2. QED
  BY <1>1 DEF HandlerDone, HandlerOK

LEMMA RestartTypes ==
    TypeInv /\ (StartStep \/ CleanStorageFails \/ AttachFails \/ Crash \/ Reboot) => TypeInv'
<1>. SUFFICES ASSUME TypeInv, StartStep \/ CleanStorageFails \/ AttachFails \/ Crash \/ Reboot
              PROVE  TypeInv'
  OBVIOUS
<1>. USE UnchangedTypes DEF TypeInv, StartStates, CreateStates, EnsureStates, DeleteStates
<1>1. CASE OpenDB
  BY <1>1 DEF OpenDB, ManagerOK, DBTypeOK
<1>2. CASE CleanStorage
  BY <1>2 DEF CleanStorage, ManagerOK, WatcherTypeOK
<1>3. CASE CleanStorageFails
  BY <1>3 DEF CleanStorageFails, ManagerOK, DBTypeOK, WatcherTypeOK
<1>4. CASE AttachWatchers
  <2>1. KernelTypeOK'
    BY <1>4, KernelTypes DEF AttachWatchers, DBTypeOK
  <2>2. WatcherTypeOK'
    BY <1>4 DEF AttachWatchers, StartWatchers, WatcherTypeOK, WatcherStates
  <2>3. ManagerOK'
    BY <1>4 DEF AttachWatchers, ManagerOK
  <2>4. QED
    BY <1>4, <2>1, <2>2, <2>3 DEF AttachWatchers
<1>5. CASE AttachFails
  <2>1. KernelTypeOK'
    BY <1>5, KernelTypes DEF AttachFails, DBTypeOK
  <2>2. ManagerOK'
    BY <1>5 DEF AttachFails, ManagerOK
  <2>3. QED
    BY <1>5, <2>1, <2>2 DEF AttachFails
<1>6. CASE Crash
  <2>1. KernelTypeOK' /\ DBTypeOK'
    BY <1>6, KernelTypes, LoseDBTypes DEF Crash
  <2>2. QED
    BY <1>6, <2>1, GoToTypes, StopTypes DEF Crash
<1>7. CASE Reboot
  <2>1. KernelTypeOK' /\ DBTypeOK'
    BY <1>7, KernelTypes, LoseDBTypes DEF Reboot
  <2>2. QED
    BY <1>7, <2>1, GoToTypes, StopTypes DEF Reboot
<1>8. QED
  BY <1>1, <1>2, <1>3, <1>4, <1>5, <1>6, <1>7 DEF StartStep

LEMMA TypeStep == TypeInv /\ [Next]_vars => TypeInv'
<1>. SUFFICES ASSUME TypeInv, [Next]_vars PROVE TypeInv'
  OBVIOUS
<1>1. CASE KernelStep
  BY <1>1, KernelTypes, UnchangedTypes DEF KernelStep, TypeInv
<1>2. CASE WatchersStep
  BY <1>2, WatcherTypes, UnchangedTypes DEF WatchersStep, TypeInv
<1>3. CASE UNCHANGED vars
  BY <1>3, UnchangedTypes DEF vars, TypeInv
<1>4. QED
  BY <1>1, <1>2, <1>3, RequestTypes, RequestFailsTypes, NewRequestTypes, HandlerTypes,
     RestartTypes DEF Next

\* Whatever requests, goroutines, kernel and crashes do, every variable of the
\* manager, the database, the watchers and the kernel keeps its type, and a
\* step finds its snapshot and snap store set (CreateSnapshot, DeleteSnapshot,
\* handleWatcherMessages).
THEOREM TypeCorrect == Spec => []TypeOK
<1>1. TypeInv => TypeOK
  BY DEF TypeInv, ManagerOK, HandlerOK, TypeOK
<1>2. QED
  BY <1>1, InitTypes, TypeStep, PTL DEF Spec
=============================================================================

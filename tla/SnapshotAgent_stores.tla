------------------------ MODULE SnapshotAgent_stores ------------------------
(***************************************************************************)
(* What ties the kernel, the database and the messages between them        *)
(* together: a snapshot keeps its stores, the database lists what exists,  *)
(* and the rows and files of a store that is gone are on their way out.    *)
(***************************************************************************)
EXTENDS SnapshotAgent_registry, SnapshotAgent_storage

-----------------------------------------------------------------------------
(* Stores that are gone *)

\* Someone has been told, and may act on it, that the store was deleted.
EndReported(s) ==
    \/ "terminate" \in Range(pipe[s])
    \/ \E t \in StoreIds : Msg("Deleted", s) \in Range(out[t])
    \/ Msg("Deleted", s) \in Range(msgChan)
    \/ hcur = s /\ hpc \in {"delfiles", "delrow"}

\* Start-up finds no goroutine at work and nothing queued.
QuietStart ==
    mpc \in StartStates =>
        /\ \A s \in StoreIds : watch[s] = "none" /\ pipe[s] = <<>> /\ out[s] = <<>>
        /\ msgChan = <<>>
        /\ hpc = "idle"

\* What is said of a deleted store stays true: it is not made again while the
\* message is under way, and a new store has an identifier no message names.
EndInv ==
    /\ \A s \in StoreIds : EndReported(s) => s \in storeIssued \ kStores
    /\ kStores \cup storeRow \subseteq storeIssued
    /\ mpc = "initiate" => cur \in storeRow \ kStores /\ ~EndReported(cur)

\* Sequences of one and of two elements.
LEMMA ShortRanges ==
    /\ \A x : Range(<<x>>) = {x}
    /\ \A x, y : Range(<<x, y>>) = {x, y}
BY DEF Range

\* Receiving from a channel takes its head, and leaves the tail.
LEMMA HeadAndTail ==
    ASSUME NEW S, NEW q \in Seq(S), q # <<>>
    PROVE  Range(q) = Range(Tail(q)) \cup {Head(q)}
<1>1. Len(q) \in Nat /\ Len(q) > 0 /\ DOMAIN q = 1..Len(q) /\ Head(q) = q[1]
  OBVIOUS
<1>2. DOMAIN Tail(q) = 1..(Len(q) - 1) /\ \A k \in 1..(Len(q) - 1) : Tail(q)[k] = q[k + 1]
  OBVIOUS
<1>3. \A k \in 1..Len(q) : k = 1 \/ (k - 1 \in 1..(Len(q) - 1) /\ Tail(q)[k - 1] = q[k])
  BY <1>1, <1>2
<1>4. \A k \in 1..(Len(q) - 1) : k + 1 \in 1..Len(q)
  BY <1>1
<1>5. 1 \in 1..Len(q)
  BY <1>1
<1>6. Range(q) \subseteq Range(Tail(q)) \cup {Head(q)}
  <2>1. SUFFICES ASSUME NEW k \in 1..Len(q) PROVE q[k] \in Range(Tail(q)) \cup {Head(q)}
    BY <1>1 DEF Range
  <2>2. CASE k = 1
    BY <1>1, <2>2
  <2>3. CASE k - 1 \in 1..(Len(q) - 1) /\ Tail(q)[k - 1] = q[k]
    BY <1>2, <2>3 DEF Range
  <2>4. QED
    BY <1>3, <2>2, <2>3
<1>7. QED
  BY <1>1, <1>2, <1>4, <1>5, <1>6 DEF Range

LEMMA SameEnds ==
    ASSUME UNCHANGED <<pipe, out, msgChan, hpc, hcur>>
    PROVE  \A s : EndReported(s)' = EndReported(s)
BY DEF EndReported

\* Requests run only once the agent is up.
LEMMA RequestsRunLate ==
    ASSUME RequestStep \/ RequestFails \/ NewRequest
    PROVE  mpc \notin StartStates /\ mpc' \notin StartStates
BY DEF RequestStep, ReuseStore, InsertStoreRow, NoMapping, InitiateStore, InitialAllocation,
       RecordInitialFile, TakeSnapshot, CollectInfo, FetchBitmap, RecordSnapshot,
       UndoSnapshot, UndoDone, DeleteFileRows, DeleteStoreRow, DeleteRecord, InsertRows,
       UndoStore, DeleteStore, DeleteVolume, RequestFails, InitiateFails,
       TakeSnapshotFails, RowsFail, RecordSnapshotFails, DeleteStoreFails,
       DeleteRecordFails, NewRequest, BeginCreate, BeginDelete, QueryUsage,
       Return, GoTo, StartStates, mvars

LEMMA QuietStartStep == TypeInv /\ QuietStart /\ [Next]_vars => QuietStart'
<1>. SUFFICES ASSUME TypeInv, QuietStart, [Next]_vars PROVE QuietStart'
  OBVIOUS
<1>. USE DEF StartStates
<1>1. CASE RequestStep \/ RequestFails \/ NewRequest
  BY <1>1, RequestsRunLate DEF QuietStart
<1>2. CASE HandlerStep
  BY <1>2 DEF HandlerStep, HandleAddFile, InsertFileRow, HandleDeleted, HandlerDeleteFiles,
              HandlerDeleteStore, HandleOverflow, HandleError, TakeMessage, QuietStart, mvars
<1>3. CASE WatchersStep \/ KernelStep
  BY <1>3 DEF WatchersStep, WatcherStep, ReadHalfFill, ReadOverflow, ReadTerminate, ReadError,
              Send, NextEvent, KernelStep, Listening, QuietStart, mvars
<1>4. CASE OpenDB \/ CleanStorage \/ CleanStorageFails \/ AttachWatchers
  BY <1>4 DEF OpenDB, CleanStorage, CleanStorageFails, AttachWatchers, QuietStart, kvars, wvars,
              hvars
<1>5. CASE AttachFails
  BY <1>5 DEF AttachFails, KInitiate, QuietStart, wvars, hvars
<1>6. CASE Crash \/ Reboot
  BY <1>6 DEF Crash, Reboot, StopWatchers, KCloseAll, KReboot, HandlerDone, QuietStart
<1>7. CASE UNCHANGED vars
  BY <1>7 DEF vars, QuietStart, kvars, wvars, hvars, mvars
<1>8. QED
  BY <1>1, <1>2, <1>3, <1>4, <1>5, <1>6, <1>7 DEF Next, StartStep

\* A step that reports nothing, makes no store and records none.
LEMMA EndsKept ==
    ASSUME EndInv, \A s \in StoreIds : EndReported(s)' => EndReported(s),
           kStores' \subseteq kStores, storeRow' \subseteq storeRow, storeIssued' = storeIssued,
           mpc' = "initiate" => mpc = "initiate" /\ cur' = cur /\ cur \in storeRow' /\ cur \in StoreIds
    PROVE  EndInv'
BY DEF EndInv

\* Watchers and message handler only pass on what they were told.
LEMMA WatcherPassesOn ==
    ASSUME TypeInv, NEW s \in StoreIds, WatcherStep(s), UNCHANGED hvars
    PROVE  \A t \in StoreIds : EndReported(t)' => EndReported(t)
<1>0. out \in [StoreIds -> Seq(Messages)] /\ msgChan \in Seq(Messages)
  BY DEF TypeInv, WatcherTypeOK
<1>1. ASSUME NEW e, NextEvent(s, e), NEW state, NEW msgs, Report(s, state, msgs),
             \A t \in StoreIds : Msg("Deleted", t) \in Range(msgs) => t = s /\ e = "terminate"
      PROVE  \A t \in StoreIds : EndReported(t)' => EndReported(t)
  <2>1. e \in Range(pipe[s]) /\ \A t \in StoreIds : Range(pipe'[t]) \subseteq Range(pipe[t])
    BY <1>1, NextEventRange
  <2>2. out' = [out EXCEPT ![s] = msgs] /\ msgChan' = msgChan
    BY <1>1 DEF Report
  <2>3. QED
    BY <1>0, <1>1, <2>1, <2>2 DEF EndReported, hvars
<1>2. CASE ReadHalfFill(s) \/ ReadOverflow(s)
  BY <1>1, <1>2, ShortRanges DEF ReadHalfFill, ReadOverflow, Msg
<1>3. CASE ReadTerminate(s)
  BY <1>1, <1>3, ShortRanges DEF ReadTerminate, Msg
<1>4. CASE ReadError(s)
  BY <1>0, <1>4, ShortRanges DEF ReadError, Report, Msg, EndReported, hvars, kvars
<1>5. CASE Send(s)
  <2>1. out[s] \in Seq(Messages) /\ out[s] # <<>>
    BY <1>0, <1>5 DEF Send
  <2>2. Head(out[s]) \in Messages /\ Head(out[s]) \in Range(out[s])
        /\ Range(Tail(out[s])) \subseteq Range(out[s])
    BY <2>1, RangeFacts
  <2>3. Range(msgChan') = Range(msgChan) \cup {Head(out[s])}
    BY <1>0, <1>5, <2>2, RangeFacts DEF Send
  <2>4. \A t \in StoreIds : Range(out'[t]) \subseteq Range(out[t])
    BY <1>0, <1>5, <2>2 DEF Send
  <2>5. \A t \in StoreIds : Range(pipe'[t]) \subseteq Range(pipe[t])
    BY <1>5, ShortRanges DEF Send, Range, TypeInv, KernelTypeOK
  <2>6. QED
    BY <2>2, <2>3, <2>4, <2>5 DEF EndReported, hvars
<1>6. QED
  BY <1>2, <1>3, <1>4, <1>5 DEF WatcherStep

\* The message at the head of the channel.
LEMMA TakenMessage ==
    ASSUME TypeInv, NEW type, TakeMessage(type)
    PROVE  /\ Head(msgChan).store \in StoreIds
           /\ Head(msgChan) = Msg(type, Head(msgChan).store)
           /\ Range(msgChan) = Range(msgChan') \cup {Head(msgChan)}
           /\ hpc = "idle" /\ mpc \notin StartStates
<1>1. msgChan \in Seq(Messages) /\ msgChan # <<>> /\ msgChan' = Tail(msgChan)
  BY DEF TypeInv, WatcherTypeOK, TakeMessage
<1>2. Head(msgChan) \in Messages
  BY <1>1
<1>3. Head(msgChan) = Msg(type, Head(msgChan).store) /\ Head(msgChan).store \in StoreIds
  BY <1>2 DEF Messages, Msg, TakeMessage
<1>4. Range(msgChan) = Range(Tail(msgChan)) \cup {Head(msgChan)}
  BY <1>1, HeadAndTail
<1>5. QED
  BY <1>1, <1>3, <1>4 DEF TakeMessage

LEMMA HandlerPassesOn ==
    ASSUME TypeInv, HandlerStep
    PROVE  \A t \in StoreIds : EndReported(t)' => EndReported(t)
<1>1. CASE HandleAddFile \/ HandleOverflow \/ HandleError
  <2>1. Range(msgChan') \subseteq Range(msgChan) /\ UNCHANGED <<pipe, out>>
    BY <1>1, TakenMessage DEF HandleAddFile, HandleOverflow, HandleError, kvars
  <2>2. hpc' \in {hpc, "insert"} /\ (hpc' = hpc => hcur' = hcur)
    BY <1>1 DEF HandleAddFile, HandleOverflow, HandleError, TakeMessage, hvars
  <2>3. QED
    BY <2>1, <2>2 DEF EndReported
<1>2. CASE HandleDeleted
  BY <1>2, TakenMessage DEF HandleDeleted, EndReported, kvars
<1>3. CASE InsertFileRow \/ HandlerDeleteFiles \/ HandlerDeleteStore
  BY <1>3 DEF InsertFileRow, HandlerDeleteFiles, HandlerDeleteStore, HandlerDone, EndReported,
              kvars, wvars
<1>4. QED
  BY <1>1, <1>2, <1>3 DEF HandlerStep

\* The clean-up ioctl reports the store it deletes.
LEMMA CleanupReports ==
    ASSUME TypeInv, EndInv, NEW s \in StoreIds, KCleanup(s, Listening(s)),
           UNCHANGED <<storeRow, storeIssued, wvars, hvars>>, mpc' # "initiate"
    PROVE  EndInv'
<1>1. pipe \in [StoreIds -> Seq(EventKinds)]
  BY DEF TypeInv, KernelTypeOK
<1>2. \A t \in StoreIds : EndReported(t)' => EndReported(t) \/ (t = s /\ s \in kStores /\ s \notin kStores')
  <2>1. CASE UNCHANGED pipe
    BY <2>1, SameEnds DEF wvars, hvars
  <2>2. CASE pipe' = [pipe EXCEPT ![s] = Append(@, "terminate")] /\ s \in kStores /\ s \notin kStores'
    BY <1>1, <2>2 DEF EndReported, wvars, hvars
  <2>3. QED
    BY <2>1, <2>2 DEF KCleanup
<1>3. kStores' \subseteq kStores
  BY DEF KCleanup
<1>4. QED
  BY <1>2, <1>3 DEF EndInv

LEMMA RequestEnds == TypeInv /\ EndInv /\ RequestStep => EndInv'
<1>. SUFFICES ASSUME TypeInv, EndInv, RequestStep PROVE EndInv'
  OBVIOUS
<1>1. ASSUME NEW d \in Disks, InsertStoreRow(d) PROVE EndInv'
  BY <1>1, SameEnds DEF InsertStoreRow, EndInv, kvars, wvars, hvars, TypeInv, DBTypeOK
<1>2. CASE InitiateStore
  <2>1. cur \in StoreIds /\ mpc = "initiate" /\ mpc' = "allocate"
    BY <1>2 DEF InitiateStore, TypeInv, ManagerOK
  <2>2. \A s \in StoreIds : EndReported(s)' => EndReported(s)
    BY <1>2, <2>1, ShortRanges
       DEF InitiateStore, KInitiate, StartWatchers, EndReported, Range, hvars, TypeInv, KernelTypeOK,
           WatcherTypeOK
  <2>3. QED
    BY <1>2, <2>1, <2>2 DEF InitiateStore, KInitiate, EndInv, dbvars
<1>3. ASSUME NEW s \in StoreIds, UndoStore(s) \/ DeleteStore(s) PROVE EndInv'
  <2>1. UNCHANGED <<storeRow, storeIssued, wvars, hvars>> /\ mpc' # "initiate"
    BY <1>3 DEF UndoStore, DeleteStore, dbvars
  <2>2. CASE KCleanup(s, Listening(s))
    BY <2>1, <2>2, CleanupReports
  <2>3. CASE UNCHANGED kvars
    <3>1. UNCHANGED <<pipe, out, msgChan, hpc, hcur, kStores>>
      BY <2>1, <2>3 DEF kvars, wvars, hvars
    <3>2. QED
      BY <2>1, <3>1, SameEnds, EndsKept
  <2>4. QED
    BY <1>3, <2>2, <2>3 DEF UndoStore, DeleteStore
<1>4. CASE (\E d \in Disks : ReuseStore(d) \/ NoMapping(d)) \/ InitialAllocation \/ RecordInitialFile
           \/ TakeSnapshot \/ CollectInfo \/ FetchBitmap
  <2>1. /\ UNCHANGED <<pipe, out, msgChan, hpc, hcur, kStores, storeRow, storeIssued>>
        /\ mpc' # "initiate"
    BY <1>4 DEF ReuseStore, NoMapping, InitialAllocation, RecordInitialFile, TakeSnapshot,
                CollectInfo, FetchBitmap, KCreateSnapshot, Return, GoTo, kvars, dbvars, wvars, hvars
  <2>2. QED
    BY <2>1, SameEnds, EndsKept
<1>5. CASE RecordSnapshot \/ UndoSnapshot \/ UndoDone \/ DeleteFileRows \/ DeleteStoreRow
           \/ DeleteRecord \/ \E s \in StoreIds : InsertRows(s) \/ DeleteVolume(s)
  <2>1. /\ UNCHANGED <<pipe, out, msgChan, hpc, hcur, kStores, storeIssued>>
        /\ storeRow' \subseteq storeRow
        /\ mpc' # "initiate"
    BY <1>5 DEF RecordSnapshot, UndoSnapshot, UndoDone, DeleteFileRows, DeleteStoreRow,
                DeleteRecord, InsertRows, DeleteVolume, KDeleteSnapshot, Return, GoTo, kvars,
                dbvars, wvars, hvars
  <2>2. QED
    BY <2>1, SameEnds, EndsKept
<1>6. QED
  BY <1>1, <1>2, <1>3, <1>4, <1>5 DEF RequestStep

LEMMA EndStepInv == TypeInv /\ QuietStart /\ EndInv /\ [Next]_vars => EndInv'
<1>. SUFFICES ASSUME TypeInv, QuietStart, EndInv, [Next]_vars PROVE EndInv'
  OBVIOUS
<1>0. kStores \subseteq StoreIds /\ storeRow \subseteq StoreIds /\ (mpc = "initiate" => cur \in StoreIds)
  BY DEF TypeInv, KernelTypeOK, DBTypeOK, ManagerOK
<1>1. CASE RequestFails
  <2>1. /\ UNCHANGED <<pipe, out, msgChan, hpc, hcur, kStores, storeIssued>>
        /\ storeRow' \subseteq storeRow
        /\ mpc' # "initiate"
    BY <1>1 DEF RequestFails, InitiateFails, TakeSnapshotFails, RowsFail, RecordSnapshotFails,
                DeleteStoreFails, DeleteRecordFails, Return, GoTo, kvars, dbvars, wvars, hvars
  <2>2. QED
    BY <2>1, SameEnds, EndsKept
<1>2. CASE NewRequest
  <2>1. ASSUME NEW s \in StoreIds, QueryUsage(s) PROVE EndInv'
    BY <2>1, CleanupReports DEF QueryUsage, dbvars, mvars
  <2>2. CASE (\E D \in (SUBSET Disks) \ {{}} : BeginCreate(D)) \/ \E i \in SnapIds : BeginDelete(i)
    <3>1. /\ UNCHANGED <<pipe, out, msgChan, hpc, hcur, kStores, storeRow, storeIssued>>
          /\ mpc' # "initiate"
      BY <2>2 DEF BeginCreate, BeginDelete, KDeleteSnapshot, kvars, dbvars, wvars, hvars
    <3>2. QED
      BY <3>1, SameEnds, EndsKept
  <2>3. QED
    BY <1>2, <2>1, <2>2 DEF NewRequest
<1>3. CASE HandlerStep
  <2>1. /\ UNCHANGED <<kStores, storeIssued, mpc, cur>>
        /\ storeRow' \subseteq storeRow
    BY <1>3 DEF HandlerStep, HandleAddFile, InsertFileRow, HandleDeleted, HandlerDeleteFiles,
                HandlerDeleteStore, HandleOverflow, HandleError, kvars, dbvars, mvars
  <2>2. mpc = "initiate" => cur \in storeRow'
    BY <1>3 DEF HandlerStep, HandleAddFile, InsertFileRow, HandleDeleted, HandlerDeleteFiles,
                HandlerDeleteStore, HandleOverflow, HandleError, dbvars, EndInv, EndReported
  <2>3. QED
    BY <1>0, <1>3, <2>1, <2>2, HandlerPassesOn, EndsKept
<1>4. CASE WatchersStep
  <2>1. PICK s \in StoreIds : WatcherStep(s)
    BY <1>4 DEF WatchersStep
  <2>2. \A t \in StoreIds : EndReported(t)' => EndReported(t)
    BY <1>4, <2>1, WatcherPassesOn DEF WatchersStep
  <2>3. UNCHANGED <<kStores, storeRow, storeIssued, mpc, cur>>
    BY <1>4, <2>1 DEF WatchersStep, WatcherStep, ReadHalfFill, ReadOverflow, ReadTerminate,
                      ReadError, Send, kvars, dbvars, mvars
  <2>4. QED
    BY <1>0, <2>2, <2>3, EndsKept DEF EndInv
<1>5. CASE KernelStep
  <2>1. PICK s \in StoreIds, e \in EventKinds : KEvent(s, e)
    BY <1>5 DEF KernelStep
  <2>2. pipe[s] \in Seq(EventKinds) /\ pipe \in [StoreIds -> Seq(EventKinds)] /\ e # "terminate"
    BY <2>1 DEF KEvent, TypeInv, KernelTypeOK
  <2>3. Range(Append(pipe[s], e)) = Range(pipe[s]) \cup {e}
    BY <2>2, RangeFacts
  <2>4. \A t \in StoreIds : EndReported(t)' => EndReported(t)
    BY <1>5, <2>1, <2>2, <2>3 DEF KernelStep, KEvent, EndReported, wvars, hvars
  <2>5. UNCHANGED <<kStores, storeRow, storeIssued, mpc, cur>>
    BY <1>5, <2>1 DEF KernelStep, KEvent, dbvars, mvars
  <2>6. QED
    BY <1>0, <2>4, <2>5, EndsKept DEF EndInv
<1>6. CASE StartStep \/ CleanStorageFails \/ AttachFails
  <2>1. mpc \in StartStates /\ mpc' # "initiate"
    BY <1>6 DEF StartStep, OpenDB, CleanStorage, AttachWatchers, CleanStorageFails, AttachFails,
                StartStates
  <2>2. \A s \in StoreIds : ~EndReported(s)
    BY <2>1, ShortRanges DEF QuietStart, EndReported, Range
  <2>3. \A s \in StoreIds : ~EndReported(s)'
    <3>1. \A s \in StoreIds : pipe'[s] = <<>> /\ out'[s] = <<>>
      BY <1>6, <2>1 DEF QuietStart, StartStep, OpenDB, CleanStorage, AttachWatchers, CleanStorageFails,
                  AttachFails, KInitiate, StartWatchers, kvars, wvars
    <3>2. msgChan' = <<>> /\ hpc' = "idle"
      BY <1>6, <2>1 DEF QuietStart, StartStep, OpenDB, CleanStorage, AttachWatchers, CleanStorageFails,
                  AttachFails, StartWatchers, wvars, hvars
    <3>3. QED
      BY <3>1, <3>2 DEF EndReported, Range
  <2>4. /\ kStores' \subseteq kStores \cup storeRow
        /\ UNCHANGED <<storeRow, storeIssued>>
    BY <1>6 DEF StartStep, OpenDB, CleanStorage, AttachWatchers, CleanStorageFails,
                AttachFails, KInitiate, kvars, dbvars
  <2>5. QED
    BY <2>1, <2>3, <2>4 DEF EndInv
<1>7. CASE Crash \/ Reboot
  <2>1. \A s \in StoreIds : ~EndReported(s)'
    BY <1>7 DEF Crash, Reboot, StopWatchers, KCloseAll, KReboot, HandlerDone, EndReported, Range
  <2>2. mpc' = "down" /\ kStores' \subseteq kStores /\ storeRow' \subseteq storeRow
        /\ storeIssued' = storeIssued
    BY <1>7 DEF Crash, Reboot, GoTo, KCloseAll, KReboot, LoseDB, dbvars
  <2>3. QED
    BY <2>1, <2>2 DEF EndInv
<1>8. CASE UNCHANGED vars
  <2>1. UNCHANGED <<pipe, out, msgChan, hpc, hcur, kStores, storeRow, storeIssued, mpc, cur>>
    BY <1>8 DEF vars, kvars, dbvars, wvars, mvars, hvars
  <2>2. QED
    BY <1>0, <2>1, SameEnds, EndsKept DEF EndInv
<1>9. QED
  BY <1>1, <1>2, <1>3, <1>4, <1>5, <1>6, <1>7, <1>8, RequestEnds DEF Next

-----------------------------------------------------------------------------
(* How the steps of the agent touch the request, the rows and the snapshots *)

Creating == {"collect", "rows", "bitmap", "undo"}

\* Only requests, the start and the end of the process move the request.
LEMMA ControlView ==
    ASSUME [Next]_vars
    PROVE  \/ RequestStep \/ RequestFails \/ NewRequest
           \/ UNCHANGED mvars
           \/ mpc' \in StartStates \cup {"idle"}
BY DEF Next, HandlerStep, HandleAddFile, InsertFileRow, HandleDeleted, HandlerDeleteFiles,
       HandlerDeleteStore, HandleOverflow, HandleError, WatchersStep, KernelStep, StartStep, OpenDB,
       CleanStorage, AttachWatchers, CleanStorageFails, AttachFails, Crash, Reboot, GoTo,
       StartStates, vars

\* A request that creates a snapshot started out with the ioctl, and works on
\* the same snapshot and disks until it is over.
LEMMA CreatingStays ==
    ASSUME [Next]_vars, mpc' \in Creating, ~TakeSnapshot
    PROVE  mpc \in Creating /\ UNCHANGED <<sid, req, got>> /\ (mpc = "undo" => mpc' = "undo")
<1>1. CASE RequestStep
  BY <1>1 DEF RequestStep, ReuseStore, InsertStoreRow, NoMapping, InitiateStore,
              InitialAllocation, RecordInitialFile, CollectInfo, FetchBitmap,
              RecordSnapshot, UndoSnapshot, UndoDone, DeleteFileRows, DeleteStoreRow, DeleteRecord,
              InsertRows, UndoStore, DeleteStore, DeleteVolume, Return, GoTo, Creating
<1>2. CASE RequestFails \/ NewRequest
  BY <1>2 DEF RequestFails, InitiateFails, TakeSnapshotFails, RowsFail, RecordSnapshotFails,
              DeleteStoreFails, DeleteRecordFails, NewRequest, BeginCreate, BeginDelete, QueryUsage,
              Return, GoTo, Creating, mvars
<1>3. QED
  BY <1>1, <1>2, ControlView DEF Creating, StartStates, mvars

\* It ends by recording the snapshot or by deleting it again.
LEMMA CreatingEnds ==
    ASSUME [Next]_vars, mpc \in Creating, mpc' \notin Creating, "bookkeeping" \notin Faults
    PROVE  RecordSnapshot \/ UndoSnapshot \/ Crash \/ Reboot
<1>1. CASE RequestStep
  BY <1>1 DEF RequestStep, ReuseStore, InsertStoreRow, NoMapping, InitiateStore,
              InitialAllocation, RecordInitialFile, TakeSnapshot, CollectInfo, FetchBitmap,
              UndoDone, DeleteFileRows, DeleteStoreRow, DeleteRecord,
              InsertRows, UndoStore, DeleteStore, DeleteVolume, Creating
<1>2. CASE RequestFails \/ NewRequest
  BY <1>2 DEF RequestFails, InitiateFails, TakeSnapshotFails, RowsFail, RecordSnapshotFails,
              DeleteStoreFails, DeleteRecordFails, NewRequest, BeginCreate, BeginDelete, QueryUsage,
              Creating, mvars
<1>3. QED
  BY <1>1, <1>2
     DEF Next, HandlerStep, HandleAddFile, InsertFileRow, HandleDeleted, HandlerDeleteFiles,
         HandlerDeleteStore, HandleOverflow, HandleError, WatchersStep, KernelStep, StartStep,
         OpenDB, CleanStorage, AttachWatchers, CleanStorageFails, AttachFails, Creating, vars, mvars

\* A store row that was inserted waits for its store.
LEMMA InitiateStays ==
    ASSUME [Next]_vars, mpc = "initiate", ~InitiateStore, ~InitiateFails, ~Crash, ~Reboot
    PROVE  UNCHANGED mvars
<1>1. ~RequestStep
  BY DEF RequestStep, ReuseStore, InsertStoreRow, NoMapping, InitialAllocation,
         RecordInitialFile, TakeSnapshot, CollectInfo, FetchBitmap, RecordSnapshot,
         UndoSnapshot, UndoDone, DeleteFileRows, DeleteStoreRow, DeleteRecord,
         InsertRows, UndoStore, DeleteStore, DeleteVolume
<1>2. ~RequestFails /\ ~NewRequest
  BY DEF RequestFails, TakeSnapshotFails, RowsFail, RecordSnapshotFails, DeleteStoreFails,
         DeleteRecordFails, NewRequest, BeginCreate, BeginDelete, QueryUsage
<1>3. QED
  BY <1>1, <1>2
     DEF Next, HandlerStep, HandleAddFile, InsertFileRow, HandleDeleted, HandlerDeleteFiles,
         HandlerDeleteStore, HandleOverflow, HandleError, WatchersStep, KernelStep, StartStep,
         OpenDB, CleanStorage, AttachWatchers, CleanStorageFails, AttachFails, vars

\* A request that deletes a snapshot stays with that snapshot.
LEMMA DeletingStays ==
    ASSUME [Next]_vars, mpc' \in DeleteStates, ~\E i \in SnapIds : BeginDelete(i)
    PROVE  /\ mpc \in DeleteStates /\ sid' = sid /\ got' \subseteq got
           /\ \/ mpc' \notin {"delfiles", "delrow"}
              \/ got' = got /\ \E s \in StoreIds : DeleteStore(s)
              \/ got' = got /\ mpc \in {"delfiles", "delrow"} /\ cur' = cur
<1>1. CASE RequestStep
  BY <1>1 DEF RequestStep, ReuseStore, InsertStoreRow, NoMapping, InitiateStore,
              InitialAllocation, RecordInitialFile, TakeSnapshot, CollectInfo, FetchBitmap,
              RecordSnapshot, UndoSnapshot, UndoDone, DeleteFileRows, DeleteStoreRow, DeleteRecord,
              InsertRows, UndoStore, DeleteStore, DeleteVolume, Return, GoTo, DeleteStates
<1>2. CASE RequestFails \/ NewRequest
  BY <1>2 DEF RequestFails, InitiateFails, TakeSnapshotFails, RowsFail, RecordSnapshotFails,
              DeleteStoreFails, DeleteRecordFails, NewRequest, BeginCreate, QueryUsage,
              Return, GoTo, DeleteStates, mvars
<1>3. QED
  BY <1>1, <1>2, ControlView DEF DeleteStates, StartStates, mvars

LEMMA DeletingEnds ==
    ASSUME [Next]_vars, mpc \in DeleteStates, ~(mpc' \in DeleteStates /\ sid' = sid),
           "delete" \notin Faults
    PROVE  DeleteRecord \/ Crash \/ Reboot
<1>1. CASE RequestStep
  BY <1>1 DEF RequestStep, ReuseStore, InsertStoreRow, NoMapping, InitiateStore,
              InitialAllocation, RecordInitialFile, TakeSnapshot, CollectInfo, FetchBitmap,
              RecordSnapshot, UndoSnapshot, UndoDone, DeleteFileRows, DeleteStoreRow,
              InsertRows, UndoStore, DeleteStore, DeleteVolume, DeleteStates
<1>2. CASE RequestFails \/ NewRequest
  BY <1>2 DEF RequestFails, InitiateFails, TakeSnapshotFails, RowsFail, RecordSnapshotFails,
              DeleteStoreFails, DeleteRecordFails, NewRequest, BeginCreate, BeginDelete, QueryUsage,
              DeleteStates, mvars
<1>3. QED
  BY <1>1, <1>2
     DEF Next, HandlerStep, HandleAddFile, InsertFileRow, HandleDeleted, HandlerDeleteFiles,
         HandlerDeleteStore, HandleOverflow, HandleError, WatchersStep, KernelStep, StartStep,
         OpenDB, CleanStorage, AttachWatchers, CleanStorageFails, AttachFails, DeleteStates, vars,
         mvars

\* The ioctls that make and destroy snapshots.
LEMMA SnapshotView ==
    ASSUME [Next]_vars
    PROVE  \/ UNCHANGED <<kSnap, kIssued>>
           \/ TakeSnapshot
           \/ UndoSnapshot
           \/ \E i \in SnapIds : BeginDelete(i)
           \/ Reboot
<1>1. CASE RequestStep
  BY <1>1 DEF RequestStep, ReuseStore, InsertStoreRow, NoMapping, InitiateStore,
              InitialAllocation, RecordInitialFile, CollectInfo, FetchBitmap,
              RecordSnapshot, UndoDone, DeleteFileRows, DeleteStoreRow, DeleteRecord,
              InsertRows, UndoStore, DeleteStore, DeleteVolume, KInitiate, KCleanup, kvars
<1>2. CASE RequestFails \/ NewRequest
  BY <1>2 DEF RequestFails, InitiateFails, TakeSnapshotFails, RowsFail, RecordSnapshotFails,
              DeleteStoreFails, DeleteRecordFails, NewRequest, BeginCreate, QueryUsage, KCleanup,
              kvars
<1>3. CASE HandlerStep \/ WatchersStep \/ KernelStep
  BY <1>3 DEF HandlerStep, HandleAddFile, InsertFileRow, HandleDeleted, HandlerDeleteFiles,
              HandlerDeleteStore, HandleOverflow, HandleError, WatchersStep, WatcherStep,
              ReadHalfFill, ReadOverflow, ReadTerminate, ReadError, Send, KernelStep, KEvent, kvars
<1>4. CASE StartStep \/ CleanStorageFails \/ AttachFails \/ Crash \/ UNCHANGED vars
  BY <1>4 DEF StartStep, OpenDB, CleanStorage, AttachWatchers, CleanStorageFails, AttachFails,
              Crash, KInitiate, KCloseAll, kvars, vars
<1>5. QED
  BY <1>1, <1>2, <1>3, <1>4 DEF Next

\* What the database says about snapshots changes in four ways.
LEMMA RecordView ==
    ASSUME TypeInv, RegInv, [Next]_vars
    PROVE  \/ /\ \A j \in SnapIds : ActiveDisks(j)' = ActiveDisks(j) /\ Recorded(j)' = Recorded(j)
              /\ snapRow' = snapRow
           \/ RecordSnapshot
           \/ \E s \in StoreIds : DeleteVolume(s)
           \/ DeleteRecord
           \/ LoseDB /\ GoTo("down") /\ (Crash \/ Reboot)
<1>1. CASE UNCHANGED <<volRow, snapRow>>
  BY <1>1, SameRows
<1>2. CASE OtherStep \/ EndStep
  BY <1>1, <1>2, OtherRows, EndRows
<1>3. CASE FetchBitmap
  <2>1. mpc = "bitmap" /\ UNCHANGED snapRow
        /\ (UNCHANGED volRow \/ DeleteVolumeRow(sid, StoreDisk[cur]))
    BY <1>3 DEF FetchBitmap
  <2>2. sid \in SnapIds /\ ~Recorded(sid)
    BY <2>1 DEF TypeInv, ManagerOK, RegInv, RequestInv
  <2>3. QED
    BY <1>1, <2>1, <2>2, HiddenRow
<1>4. ASSUME NEW s \in StoreIds, InsertRows(s)
      PROVE  (\A j \in SnapIds : ActiveDisks(j)' = ActiveDisks(j) /\ Recorded(j)' = Recorded(j))
             /\ snapRow' = snapRow
  <2>1. mpc = "rows" /\ UNCHANGED snapRow /\ InsertVolumeRow(sid, StoreDisk[s])
    BY <1>4 DEF InsertRows
  <2>2. sid \in SnapIds /\ ~Recorded(sid)
    BY <2>1 DEF TypeInv, ManagerOK, RegInv, RequestInv
  <2>3. QED
    BY <2>1, <2>2, HiddenRow
<1>5. CASE RequestStep
  BY <1>1, <1>2, <1>3, <1>4, <1>5
     DEF RequestStep, EndStep, ReuseStore, InsertStoreRow, InitiateStore, InitialAllocation,
         RecordInitialFile, TakeSnapshot, CollectInfo, DeleteFileRows, DeleteStoreRow, DeleteStore,
         dbvars
<1>6. CASE NewRequest
  BY <1>1, <1>2, <1>6 DEF NewRequest, OtherStep, BeginCreate, BeginDelete, dbvars
<1>7. CASE (Crash /\ ~KeepsDB) \/ Reboot
  BY <1>7 DEF Crash, Reboot
<1>8. QED
  BY <1>2, <1>5, <1>6, <1>7 DEF Next, OtherStep, EndStep

\* A row that is there was there before, unless this step recorded it.
LEMMA RecordKept ==
    ASSUME TypeInv, RegInv, [Next]_vars, ~RecordSnapshot, NEW i \in SnapIds, Recorded(i)'
    PROVE  Recorded(i) /\ snapRow'[i] = snapRow[i] /\ i \in kIssued
<1>1. Recorded(i) /\ snapRow'[i] = snapRow[i]
  <2>1. snapRow \in [SnapIds -> SUBSET StoreIds]
    BY DEF TypeInv, DBTypeOK
  <2>2. CASE DeleteRecord
    BY <2>1, <2>2, RecordGone DEF DeleteRecord
  <2>3. QED
    BY <2>2, RecordView, NothingListed DEF DeleteVolume, Recorded
<1>2. QED
  BY <1>1 DEF RegInv, IssuedInv

-----------------------------------------------------------------------------
(* Which snapshot covers which disk *)

\* No disk is in two snapshots that are listed: what SnapshotRegistry promises.
DisjointInv ==
    \A i, j \in SnapIds : i # j => ActiveDisks(i) \cap ActiveDisks(j) = {}

\* A recorded snapshot that the kernel still has.
Existing(i) == kSnap[i] # {} /\ Recorded(i)

\* The kernel, the stores embedded in the snapshot row and the volume rows
\* agree on the disks of a snapshot; while one is deleted, its stores serve no
\* other snapshot that is recorded.
DiskInv ==
    /\ \A i \in SnapIds : kSnap[i] # {} => i \in kIssued
    /\ \A i \in SnapIds :
          Existing(i) => kSnap[i] = DisksOf(snapRow[i]) /\ kSnap[i] = ActiveDisks(i)
    /\ mpc \in {"collect", "rows", "bitmap"} => kSnap[sid] = req
    /\ mpc = "undo" => ~Recorded(sid)
    /\ mpc \in DeleteStates =>
          /\ kSnap[sid] = {}
          /\ \A s \in got, j \in SnapIds : Existing(j) => StoreDisk[s] \notin kSnap[j]
    /\ mpc \in {"delfiles", "delrow"} => cur \in got /\ (cur \in kStores => InUse(cur))

LEMMA DisjointStep == TypeInv /\ RegInv /\ DisjointInv /\ [Next]_vars => DisjointInv'
<1>. SUFFICES ASSUME TypeInv, RegInv, DisjointInv, [Next]_vars PROVE DisjointInv'
  OBVIOUS
<1>1. [Registry!Next]_Active
  BY RegistryStep
<1>2. Active' = [i \in SnapIds |-> ActiveDisks(i)']
  BY DEF Active
<1>3. ASSUME NEW i \in SnapIds, NEW D \in SUBSET Disks, Registry!Create(i, D) PROVE DisjointInv'
  BY <1>2, <1>3 DEF Registry!Create, Active, DisjointInv
<1>4. ASSUME NEW i \in SnapIds, NEW d \in Disks, Registry!Release(i, d) PROVE DisjointInv'
  BY <1>2, <1>4 DEF Registry!Release, Active, DisjointInv
<1>5. CASE Registry!Forget \/ UNCHANGED Active
  BY <1>2, <1>5 DEF Registry!Forget, Active, DisjointInv
<1>6. QED
  BY <1>1, <1>3, <1>4, <1>5 DEF Registry!Next, Active

\* The parts of DiskInv about the snapshots themselves.
LEMMA ExistingStep ==
    ASSUME TypeInv, RegInv, DiskInv, [Next]_vars
    PROVE  /\ \A i \in SnapIds : kSnap'[i] # {} => i \in kIssued'
           /\ \A i \in SnapIds :
                 Existing(i)' => kSnap'[i] = DisksOf(snapRow'[i]) /\ kSnap'[i] = ActiveDisks(i)'
<1>0. kSnap \in [SnapIds -> SUBSET Disks] /\ snapRow \in [SnapIds -> SUBSET StoreIds]
      /\ (mpc \in {"collect", "rows", "bitmap", "undo"} \cup DeleteStates => sid \in SnapIds)
  BY DEF TypeInv, KernelTypeOK, DBTypeOK, ManagerOK
<1>1. CASE TakeSnapshot
  <2>1. PICK i \in SnapIds : KCreateSnapshot(i, req)
    BY <1>1 DEF TakeSnapshot
  <2>2. ~Recorded(i)
    BY <2>1 DEF KCreateSnapshot, RegInv, IssuedInv
  <2>3. UNCHANGED <<volRow, snapRow>>
    BY <1>1 DEF TakeSnapshot, dbvars
  <2>4. QED
    BY <1>0, <2>1, <2>2, <2>3, SameRows DEF KCreateSnapshot, DiskInv, Existing
<1>2. CASE UndoSnapshot \/ \E i \in SnapIds : BeginDelete(i)
  <2>1. kSnap' = kSnap \/ \E i \in SnapIds : kSnap' = [kSnap EXCEPT ![i] = {}]
    BY <1>0, <1>2 DEF UndoSnapshot, BeginDelete, KDeleteSnapshot, kvars
  <2>2. UNCHANGED <<volRow, snapRow, kIssued>>
    BY <1>2 DEF UndoSnapshot, BeginDelete, KDeleteSnapshot, dbvars, kvars
  <2>3. QED
    BY <1>0, <2>1, <2>2, SameRows DEF DiskInv, Existing
<1>3. CASE Reboot
  BY <1>3 DEF Reboot, KReboot, Existing
<1>4. CASE UNCHANGED <<kSnap, kIssued>>
  <2>1. CASE (\A j \in SnapIds : ActiveDisks(j)' = ActiveDisks(j) /\ Recorded(j)' = Recorded(j))
             /\ snapRow' = snapRow
    BY <1>4, <2>1 DEF DiskInv, Existing
  <2>2. CASE RecordSnapshot
    <3>1. kSnap[sid] = req /\ snapRow' = [snapRow EXCEPT ![sid] = got] /\ sid \in SnapIds
      BY <1>0, <2>2 DEF RecordSnapshot, DiskInv
    <3>2. \A j \in SnapIds : snapRow'[j] = IF j = sid THEN got ELSE snapRow[j]
      BY <1>0, <3>1
    <3>3. QED
      BY <1>4, <2>2, <3>1, <3>2, RecordedAtOnce DEF DiskInv, Existing
  <2>3. ASSUME NEW s \in StoreIds, DeleteVolume(s)
        PROVE  \A i \in SnapIds :
                 Existing(i)' => kSnap'[i] = DisksOf(snapRow'[i]) /\ kSnap'[i] = ActiveDisks(i)'
    <3>1. kSnap[sid] = {} /\ snapRow' = snapRow
      BY <2>3 DEF DeleteVolume, DeleteStates, DiskInv
    <3>2. QED
      BY <1>4, <2>3, <3>1, ReleasedDisk DEF DiskInv, Existing, Recorded
  <2>4. CASE DeleteRecord
    <3>1. kSnap[sid] = {} /\ snapRow' = [snapRow EXCEPT ![sid] = {}] /\ sid \in SnapIds
      BY <1>0, <2>4 DEF DeleteRecord, DeleteStates, DiskInv
    <3>2. QED
      BY <1>0, <1>4, <2>4, <3>1, RecordGone DEF DiskInv, Existing
  <2>5. CASE LoseDB
    BY <2>5, <1>4, NothingListed DEF DiskInv, Existing
  <2>6. QED
    BY <1>4, <2>1, <2>2, <2>3, <2>4, <2>5, RecordView DEF DiskInv
<1>5. QED
  BY <1>1, <1>2, <1>3, <1>4, SnapshotView

\* The part about the snapshot that is being made.
LEMMA MadeStep ==
    ASSUME TypeInv, RegInv, DiskInv, [Next]_vars
    PROVE  /\ mpc' \in {"collect", "rows", "bitmap"} => kSnap'[sid'] = req'
           /\ mpc' = "undo" => ~Recorded(sid)'
<1>0. kSnap \in [SnapIds -> SUBSET Disks]
  BY DEF TypeInv, KernelTypeOK
<1>1. CASE TakeSnapshot
  BY <1>0, <1>1 DEF TakeSnapshot, KCreateSnapshot
<1>2. CASE ~TakeSnapshot /\ mpc' \in Creating
  <2>1. mpc \in Creating /\ UNCHANGED <<sid, req>> /\ (mpc = "undo" => mpc' = "undo")
        /\ sid \in SnapIds
    BY <1>2, CreatingStays DEF TypeInv, ManagerOK, Creating
  <2>2. UNCHANGED kSnap
    <3>1. ~UndoSnapshot /\ ~Reboot /\ ~\E i \in SnapIds : BeginDelete(i)
      BY <1>2, <2>1 DEF UndoSnapshot, Reboot, BeginDelete, GoTo, Creating
    <3>2. QED
      BY <1>2, <3>1, SnapshotView
  <2>3. ~Recorded(sid)
    BY <2>1 DEF RegInv, RequestInv, DiskInv, Creating
  <2>4. Recorded(sid)' = Recorded(sid)
    <3>1. ~RecordSnapshot /\ ~DeleteRecord /\ ~GoTo("down")
      BY <1>2 DEF RecordSnapshot, DeleteRecord, Return, GoTo, Creating
    <3>2. ~\E s \in StoreIds : DeleteVolume(s)
      BY <1>2 DEF DeleteVolume, Creating
    <3>3. QED
      BY <2>1, <3>1, <3>2, RecordView
  <2>5. QED
    BY <2>1, <2>2, <2>3, <2>4 DEF DiskInv, Creating
<1>3. QED
  BY <1>1, <1>2 DEF Creating

\* The part about the snapshot that is being deleted.
LEMMA UnmadeStep ==
    ASSUME TypeInv, RegInv, DisjointInv, DiskInv, [Next]_vars, mpc' \in DeleteStates
    PROVE  /\ kSnap'[sid'] = {}
           /\ \A s \in got', j \in SnapIds : Existing(j)' => StoreDisk[s] \notin kSnap'[j]
<1>0. kSnap \in [SnapIds -> SUBSET Disks] /\ snapRow \in [SnapIds -> SUBSET StoreIds]
  BY DEF TypeInv, KernelTypeOK, DBTypeOK
<1>1. ASSUME NEW i \in SnapIds, BeginDelete(i)
      PROVE  /\ kSnap'[sid'] = {}
             /\ \A s \in got', j \in SnapIds : Existing(j)' => StoreDisk[s] \notin kSnap'[j]
  <2>1. /\ Existing(i) /\ kSnap' = [kSnap EXCEPT ![i] = {}] /\ UNCHANGED <<volRow, snapRow>>
        /\ got' = snapRow[i] /\ sid' = i
    BY <1>1 DEF BeginDelete, KDeleteSnapshot, Existing, dbvars
  <2>2. \A s \in got' : StoreDisk[s] \in ActiveDisks(i)
    BY <2>1 DEF DiskInv, DisksOf
  <2>3. \A j \in SnapIds \ {i} : Existing(j)' => kSnap'[j] = ActiveDisks(j)
    BY <1>0, <2>1, SameRows DEF Existing, DiskInv
  <2>4. \A j \in SnapIds \ {i} : ActiveDisks(i) \cap ActiveDisks(j) = {}
    BY DEF DisjointInv
  <2>5. kSnap'[i] = {}
    BY <1>0, <2>1
  <2>6. QED
    BY <2>1, <2>2, <2>3, <2>4, <2>5 DEF Existing
<1>2. CASE ~\E i \in SnapIds : BeginDelete(i)
  <2>1. mpc \in DeleteStates /\ sid' = sid /\ got' \subseteq got
    BY <1>2, DeletingStays
  <2>2. UNCHANGED kSnap
    <3>1. ~TakeSnapshot /\ ~UndoSnapshot /\ ~Reboot
      BY <2>1 DEF TakeSnapshot, UndoSnapshot, Reboot, GoTo, DeleteStates
    <3>2. QED
      BY <1>2, <3>1, SnapshotView
  <2>3. \A j \in SnapIds : Recorded(j)' => Recorded(j)
    <3>1. ~RecordSnapshot
      BY <2>1 DEF RecordSnapshot, DeleteStates
    <3>2. QED
      BY <3>1, RecordView, ReleasedDisk, RecordGone, NothingListed DEF DeleteVolume, Recorded
  <2>4. QED
    BY <2>1, <2>2, <2>3 DEF DiskInv, Existing
<1>3. QED
  BY <1>1, <1>2

\* Where snap stores are made and deleted.
LEMMA StoreView ==
    ASSUME [Next]_vars
    PROVE  \/ UNCHANGED kStores
           \/ InitiateStore
           \/ AttachWatchers
           \/ AttachFails
           \/ Reboot
           \/ \E s \in StoreIds : /\ KCleanup(s, Listening(s))
                                  /\ UndoStore(s) \/ DeleteStore(s) \/ QueryUsage(s)
<1>1. CASE RequestStep
  BY <1>1 DEF RequestStep, ReuseStore, InsertStoreRow, NoMapping, InitialAllocation,
              RecordInitialFile, TakeSnapshot, CollectInfo, FetchBitmap, RecordSnapshot,
              UndoSnapshot, UndoDone, DeleteFileRows, DeleteStoreRow, DeleteRecord, InsertRows,
              UndoStore, DeleteStore, DeleteVolume, KCreateSnapshot, KDeleteSnapshot, kvars
<1>2. CASE RequestFails \/ NewRequest
  BY <1>2 DEF RequestFails, InitiateFails, TakeSnapshotFails, RowsFail, RecordSnapshotFails,
              DeleteStoreFails, DeleteRecordFails, NewRequest, BeginCreate, BeginDelete, QueryUsage,
              KDeleteSnapshot, kvars
<1>3. CASE HandlerStep \/ WatchersStep \/ KernelStep
  BY <1>3 DEF HandlerStep, HandleAddFile, InsertFileRow, HandleDeleted, HandlerDeleteFiles,
              HandlerDeleteStore, HandleOverflow, HandleError, WatchersStep, WatcherStep,
              ReadHalfFill, ReadOverflow, ReadTerminate, ReadError, Send, KernelStep, KEvent, kvars
<1>4. CASE StartStep \/ CleanStorageFails \/ Crash \/ UNCHANGED vars
  BY <1>4 DEF StartStep, OpenDB, CleanStorage, CleanStorageFails, Crash, KCloseAll, kvars, vars
<1>5. QED
  BY <1>1, <1>2, <1>3, <1>4 DEF Next

\* A store the request has cleaned up is gone, or another snapshot holds it.
LEMMA CleanedStep ==
    ASSUME TypeInv, DiskInv, [Next]_vars, mpc' \in {"delfiles", "delrow"}
    PROVE  cur' \in got' /\ (cur' \in kStores' => InUse(cur)')
<1>0. mpc' \in DeleteStates /\ ~\E i \in SnapIds : BeginDelete(i)
  BY DEF DeleteStates, BeginDelete
<1>1. ASSUME NEW s \in StoreIds, DeleteStore(s)
      PROVE  cur' \in got' /\ (cur' \in kStores' => InUse(cur)')
  BY <1>1 DEF DeleteStore, KCleanup, InUse
<1>2. CASE mpc \in {"delfiles", "delrow"} /\ UNCHANGED <<got, cur>>
  <2>1. UNCHANGED <<kSnap, kStores>>
    <3>1. ~TakeSnapshot /\ ~UndoSnapshot /\ ~Reboot
      BY <1>0, <1>2 DEF TakeSnapshot, UndoSnapshot, Reboot, GoTo, DeleteStates
    <3>2. ~InitiateStore /\ ~AttachWatchers /\ ~AttachFails
      BY <1>2 DEF InitiateStore, AttachWatchers, AttachFails
    <3>3. ~\E s \in StoreIds : UndoStore(s) \/ DeleteStore(s) \/ QueryUsage(s)
      BY <1>2 DEF UndoStore, DeleteStore, QueryUsage
    <3>4. QED
      BY <1>0, <3>1, <3>2, <3>3, SnapshotView, StoreView
  <2>2. QED
    BY <1>2, <2>1 DEF DiskInv, InUse
<1>3. QED
  BY <1>0, <1>1, <1>2, DeletingStays

LEMMA DiskStep == TypeInv /\ RegInv /\ DisjointInv /\ DiskInv /\ [Next]_vars => DiskInv'
BY ExistingStep, MadeStep, UnmadeStep, CleanedStep DEF DiskInv

-----------------------------------------------------------------------------
(* Snap stores and their rows *)

\* A disk has one row: CreateSnapStore is called only where
\* GetSnapStoreByDiskID found none.
RowPerDisk == \A s, t \in storeRow : StoreDisk[s] = StoreDisk[t] => s = t

\* Where store rows come from and where they go.
LEMMA StoreRowView ==
    ASSUME [Next]_vars
    PROVE  \/ UNCHANGED storeRow
           \/ \E d \in Disks : InsertStoreRow(d)
           \/ InitiateFails
           \/ DeleteStoreRow
           \/ HandlerDeleteStore
           \/ Crash /\ ~KeepsDB
           \/ Reboot
<1>1. CASE RequestStep
  BY <1>1 DEF RequestStep, ReuseStore, NoMapping, InitiateStore, InitialAllocation,
              RecordInitialFile, TakeSnapshot, CollectInfo, FetchBitmap, RecordSnapshot,
              UndoSnapshot, UndoDone, DeleteFileRows, DeleteRecord, InsertRows,
              UndoStore, DeleteStore, DeleteVolume, dbvars
<1>2. CASE RequestFails \/ NewRequest
  BY <1>2 DEF RequestFails, TakeSnapshotFails, RowsFail, RecordSnapshotFails,
              DeleteStoreFails, DeleteRecordFails, NewRequest, BeginCreate, BeginDelete, QueryUsage,
              dbvars
<1>3. CASE HandlerStep \/ WatchersStep \/ KernelStep
  BY <1>3 DEF HandlerStep, HandleAddFile, InsertFileRow, HandleDeleted, HandlerDeleteFiles,
              HandleOverflow, HandleError, WatchersStep, KernelStep, dbvars
<1>4. CASE StartStep \/ CleanStorageFails \/ AttachFails \/ Crash \/ Reboot \/ UNCHANGED vars
  BY <1>4 DEF StartStep, OpenDB, CleanStorage, AttachWatchers, CleanStorageFails, AttachFails,
              Crash, dbvars, vars
<1>5. QED
  BY <1>1, <1>2, <1>3, <1>4 DEF Next

LEMMA RowPerDiskStep == RowPerDisk /\ [Next]_vars => RowPerDisk'
<1>. SUFFICES ASSUME RowPerDisk, [Next]_vars PROVE RowPerDisk'
  OBVIOUS
<1>1. ASSUME NEW d \in Disks, InsertStoreRow(d) PROVE RowPerDisk'
  BY <1>1 DEF InsertStoreRow, StoresOfDisk, RowPerDisk
<1>2. CASE storeRow' \subseteq storeRow
  BY <1>2 DEF RowPerDisk
<1>3. QED
  BY <1>1, <1>2, StoreRowView DEF InitiateFails, DeleteStoreRow, HandlerDeleteStore, Crash, Reboot,
                                       LoseDB

\* The row of a store goes when the store is gone already, or, in
\* DeleteSnapshot, when a snapshot that is not recorded still uses it.
LEMMA RowsGone ==
    ASSUME EndInv, TypeInv, DiskInv, [Next]_vars, NEW s \in storeRow \ storeRow', s \in kStores
    PROVE  \/ Crash /\ ~KeepsDB
           \/ Reboot
           \/ /\ DeleteStoreRow
              /\ s = cur /\ mpc = "delrow"
              /\ \E j \in SnapIds : StoreDisk[s] \in kSnap[j] /\ ~Recorded(j)
<1>0. s \in StoreIds
  BY DEF TypeInv, DBTypeOK
<1>1. CASE InitiateFails
  BY <1>1 DEF InitiateFails, EndInv
<1>2. CASE HandlerDeleteStore
  BY <1>0, <1>2 DEF HandlerDeleteStore, EndInv, EndReported
<1>3. CASE DeleteStoreRow
  <2>1. s = cur /\ mpc = "delrow"
    BY <1>3 DEF DeleteStoreRow
  <2>2. cur \in got /\ InUse(cur)
    BY <2>1 DEF DiskInv
  <2>3. PICK j \in SnapIds : StoreDisk[s] \in kSnap[j]
    BY <2>1, <2>2 DEF InUse
  <2>4. ~Recorded(j)
    BY <2>1, <2>2, <2>3 DEF DiskInv, DeleteStates, Existing
  <2>5. QED
    BY <1>3, <2>1, <2>3, <2>4
<1>4. QED
  BY <1>1, <1>2, <1>3, StoreRowView DEF InsertStoreRow

-----------------------------------------------------------------------------
(* Snapshots that are left behind *)

\* A snapshot in the kernel that the database does not know of, and that no
\* request is about to record or to undo.
Leaked(j) == kSnap[j] # {} /\ ~Recorded(j) /\ ~(mpc \in Creating /\ sid = j)

\* It is the only thing that keeps a store that has lost its row.
LeakInv ==
    KeepsDB \/ stops = 0 =>
        \A t \in kStores \ storeRow :
            \E j \in SnapIds : Leaked(j) /\ StoreDisk[t] \in kSnap[j]

\* Nothing but a reboot removes one.
LEMMA LeakStays ==
    ASSUME TypeInv, RegInv, DiskInv, [Next]_vars, ~Reboot, NEW j \in SnapIds, Leaked(j)
    PROVE  Leaked(j)' /\ kSnap'[j] = kSnap[j]
<1>0. kSnap \in [SnapIds -> SUBSET Disks] /\ j \in kIssued
  BY DEF TypeInv, KernelTypeOK, DiskInv, Leaked
<1>1. kSnap'[j] = kSnap[j]
  <2>1. CASE TakeSnapshot
    BY <1>0, <2>1 DEF TakeSnapshot, KCreateSnapshot
  <2>2. CASE UndoSnapshot
    BY <1>0, <2>2 DEF UndoSnapshot, KDeleteSnapshot, Leaked, Creating, kvars
  <2>3. CASE \E i \in SnapIds : BeginDelete(i)
    BY <1>0, <2>3 DEF BeginDelete, KDeleteSnapshot, Leaked
  <2>4. QED
    BY <2>1, <2>2, <2>3, SnapshotView
<1>2. ~Recorded(j)'
  <2>1. CASE RecordSnapshot
    BY <2>1, RecordedAtOnce DEF RecordSnapshot, Leaked, Creating
  <2>2. QED
    BY <2>1, RecordView, RecordGone, NothingListed DEF Leaked, DeleteVolume, Recorded
<1>3. ~(mpc' \in Creating /\ sid' = j)
  <2>1. CASE TakeSnapshot
    BY <1>0, <2>1 DEF TakeSnapshot, KCreateSnapshot
  <2>2. CASE ~TakeSnapshot
    BY <2>2, CreatingStays DEF Leaked
  <2>3. QED
    BY <2>1, <2>2
<1>4. QED
  BY <1>1, <1>2, <1>3 DEF Leaked

\* Only going down counts, and the count never returns to zero.
LEMMA StopsCount ==
    ASSUME TypeInv, [Next]_vars
    PROVE  \/ stops' = stops /\ ~Crash /\ ~Reboot
           \/ stops' # 0 /\ (Crash \/ Reboot)
<1>0. stops \in Nat
  BY DEF TypeInv
<1>1. CASE Crash \/ Reboot
  BY <1>0, <1>1 DEF Crash, Reboot
<1>2. ASSUME RequestStep PROVE stops' = stops
  BY <1>2 DEF RequestStep, ReuseStore, InsertStoreRow, NoMapping, InitiateStore, InitialAllocation,
              RecordInitialFile, TakeSnapshot, CollectInfo, FetchBitmap, RecordSnapshot,
              UndoSnapshot, UndoDone, DeleteFileRows, DeleteStoreRow, DeleteRecord, InsertRows,
              UndoStore, DeleteStore, DeleteVolume
<1>3. ASSUME RequestFails \/ NewRequest PROVE stops' = stops
  BY <1>3 DEF RequestFails, InitiateFails, TakeSnapshotFails, RowsFail, RecordSnapshotFails,
              DeleteStoreFails, DeleteRecordFails, NewRequest, BeginCreate, BeginDelete, QueryUsage
<1>4. ASSUME HandlerStep \/ WatchersStep \/ KernelStep PROVE stops' = stops
  BY <1>4 DEF HandlerStep, HandleAddFile, InsertFileRow, HandleDeleted, HandlerDeleteFiles,
              HandlerDeleteStore, HandleOverflow, HandleError, WatchersStep, KernelStep
<1>5. ASSUME StartStep \/ CleanStorageFails \/ AttachFails \/ UNCHANGED vars PROVE stops' = stops
  BY <1>5 DEF StartStep, OpenDB, CleanStorage, AttachWatchers, CleanStorageFails, AttachFails, vars
<1>6. CASE ~Crash /\ ~Reboot
  BY <1>2, <1>3, <1>4, <1>5, <1>6 DEF Next
<1>7. QED
  BY <1>1, <1>6

LEMMA LeakStep ==
    ASSUME TypeInv, RegInv, EndInv, DiskInv, LeakInv, [Next]_vars
    PROVE  LeakInv'
<1>1. SUFFICES ASSUME KeepsDB \/ stops' = 0, NEW t \in kStores' \ storeRow'
               PROVE  \E j \in SnapIds : Leaked(j)' /\ StoreDisk[t] \in kSnap'[j]
  BY DEF LeakInv
<1>2. ~Reboot /\ (Crash => KeepsDB) /\ (KeepsDB \/ stops = 0)
  <2>1. ~Reboot
    BY <1>1 DEF Reboot, KReboot
  <2>2. QED
    BY <1>1, <2>1, StopsCount
<1>3. t \in kStores
  <2>1. CASE InitiateStore
    BY <1>1, <2>1 DEF InitiateStore, KInitiate, EndInv, dbvars
  <2>2. CASE AttachWatchers \/ AttachFails
    BY <1>1, <2>2 DEF AttachWatchers, AttachFails, KInitiate, dbvars
  <2>3. QED
    BY <1>1, <1>2, <2>1, <2>2, StoreView DEF KCleanup
<1>4. \E j \in SnapIds : Leaked(j) /\ StoreDisk[t] \in kSnap[j]
  <2>1. CASE t \notin storeRow
    BY <1>2, <1>3, <2>1 DEF LeakInv
  <2>2. CASE t \in storeRow
    <3>1. PICK j \in SnapIds : StoreDisk[t] \in kSnap[j] /\ ~Recorded(j) /\ mpc = "delrow"
      BY <1>1, <1>2, <1>3, <2>2, RowsGone
    <3>2. QED
      BY <3>1 DEF Leaked, Creating
  <2>3. QED
    BY <2>1, <2>2
<1>5. QED
  BY <1>2, <1>4, LeakStays

\* Without errors that CreateSnapshot and DeleteSnapshot do not undo, and as
\* long as the process runs, no snapshot is left behind.
NoLeaks == stops = 0 /\ Faults \cap {"bookkeeping", "delete"} = {}

NoLeaksInv == NoLeaks => \A j \in SnapIds : ~Leaked(j)

LEMMA NoLeaksStep ==
    ASSUME TypeInv, RegInv, DiskInv, NoLeaksInv, [Next]_vars
    PROVE  NoLeaksInv'
<1>1. SUFFICES ASSUME NoLeaks', NEW j \in SnapIds, kSnap'[j] # {}, ~Recorded(j)',
                      ~(mpc' \in Creating /\ sid' = j)
               PROVE  FALSE
  BY DEF NoLeaksInv, Leaked
<1>2. /\ stops = 0 /\ ~Crash /\ ~Reboot
      /\ "bookkeeping" \notin Faults /\ "delete" \notin Faults
  BY <1>1, StopsCount DEF NoLeaks
<1>3. kSnap \in [SnapIds -> SUBSET Disks]
  BY DEF TypeInv, KernelTypeOK
<1>4. ~TakeSnapshot
  <2>1. ASSUME TakeSnapshot PROVE FALSE
    <3>1. PICK i \in SnapIds : KCreateSnapshot(i, req) /\ sid' = i /\ mpc' = "collect"
      BY <2>1 DEF TakeSnapshot
    <3>2. i # j /\ kSnap'[j] = kSnap[j] /\ snapRow' = snapRow /\ mpc = "ensure"
      BY <1>1, <1>3, <2>1, <3>1 DEF KCreateSnapshot, Creating, TakeSnapshot, dbvars
    <3>3. QED
      BY <1>1, <1>2, <3>2 DEF NoLeaksInv, NoLeaks, Leaked, Creating, Recorded
  <2>2. QED
    BY <2>1
<1>5. kSnap'[j] = kSnap[j]
  <2>1. kSnap' = kSnap \/ \E i \in SnapIds : kSnap' = [kSnap EXCEPT ![i] = {}]
    <3>1. CASE UndoSnapshot
      BY <1>2, <3>1 DEF UndoSnapshot, KDeleteSnapshot, TypeInv, ManagerOK
    <3>2. CASE \E i \in SnapIds : BeginDelete(i)
      BY <3>2 DEF BeginDelete, KDeleteSnapshot
    <3>3. QED
      BY <1>2, <1>4, <3>1, <3>2, SnapshotView
  <2>2. QED
    BY <1>1, <1>3, <2>1
<1>6. ~Recorded(j)
  <2>1. CASE DeleteRecord
    BY <1>1, <1>5, <2>1, RecordGone DEF DeleteRecord, DiskInv, DeleteStates
  <2>2. QED
    BY <1>1, <1>2, <2>1, RecordView, RecordedAtOnce DEF DeleteVolume, Recorded
<1>7. mpc \in Creating /\ sid = j
  BY <1>1, <1>2, <1>5, <1>6 DEF NoLeaksInv, NoLeaks, Leaked
<1>8. mpc' \notin Creating
  BY <1>1, <1>4, <1>7, CreatingStays
<1>9. RecordSnapshot \/ UndoSnapshot
  BY <1>2, <1>7, <1>8, CreatingEnds
<1>10. CASE RecordSnapshot
  BY <1>1, <1>7, <1>10, RecordedAtOnce
<1>11. CASE UndoSnapshot
  BY <1>1, <1>2, <1>3, <1>7, <1>11 DEF UndoSnapshot, KDeleteSnapshot
<1>12. QED
  BY <1>9, <1>10, <1>11

-----------------------------------------------------------------------------
(* A snapshot keeps its stores *)

\* No snapshot is left behind that holds a store nobody knows of, or every row
\* of a store that is inserted gets its store, or goes.
Tidy == NoLeaks \/ (KeepsDB /\ "store" \notin Faults)

\* The store that the row of a disk names is the only one the disk can have.
SoleInv ==
    Tidy /\ mpc \notin StartStates =>
        \A s \in storeRow, t \in kStores :
            StoreDisk[s] = StoreDisk[t] => s \in kStores \/ (mpc = "initiate" /\ cur = s)

\* The stores a request has collected exist, unless their disks have none: then
\* the kernel refuses to take the snapshot.
GotInv ==
    Tidy =>
        /\ mpc \in EnsureStates =>
              \A s \in got : s \in kStores \cap storeRow \/ StoreDisk[s] \notin DisksOf(kStores)
        /\ mpc \in {"collect", "rows", "bitmap"} => got \subseteq kStores \cap storeRow

LEMMA TidyStays ==
    ASSUME TypeInv, [Next]_vars, Tidy'
    PROVE  Tidy /\ (KeepsDB \/ stops = 0)
BY StopsCount DEF Tidy, NoLeaks

LEMMA SoleStep ==
    ASSUME TypeInv, EndInv, RowPerDisk, LeakInv, NoLeaksInv, SoleInv, [Next]_vars
    PROVE  SoleInv'
<1>1. SUFFICES ASSUME Tidy', mpc' \notin StartStates,
                      NEW s \in storeRow', NEW t \in kStores', StoreDisk[s] = StoreDisk[t]
               PROVE  s \in kStores' \/ (mpc' = "initiate" /\ cur' = s)
  BY DEF SoleInv
<1>2. Tidy /\ (KeepsDB \/ stops = 0) /\ ~Crash /\ ~Reboot
  BY <1>1, TidyStays DEF Crash, Reboot, GoTo, StartStates
<1>3. CASE AttachWatchers
  BY <1>1, <1>3 DEF AttachWatchers, KInitiate, dbvars
<1>4. CASE mpc \in StartStates
  <2>1. ~RequestStep /\ ~RequestFails /\ ~NewRequest
    BY <1>4, RequestsRunLate
  <2>2. mpc' = mpc \/ AttachWatchers
    BY <1>1, <1>2, <2>1
       DEF Next, HandlerStep, HandleAddFile, InsertFileRow, HandleDeleted, HandlerDeleteFiles,
           HandlerDeleteStore, HandleOverflow, HandleError, WatchersStep, KernelStep, StartStep,
           OpenDB, CleanStorage, CleanStorageFails, AttachFails, StartStates, vars, mvars
  <2>3. QED
    BY <1>1, <1>3, <1>4, <2>2
<1>5. ASSUME mpc \notin StartStates, NEW d \in Disks, InsertStoreRow(d)
      PROVE  s \in kStores' \/ (mpc' = "initiate" /\ cur' = s)
  BY <1>1, <1>2, <1>5 DEF InsertStoreRow, SoleInv, kvars
<1>6. CASE InitiateStore
  BY <1>1, <1>2, <1>6 DEF InitiateStore, KInitiate, EndInv, SoleInv, RowPerDisk, StartStates, dbvars
<1>7. CASE InitiateFails
  <2>1. mpc = "initiate" /\ kStores' = kStores /\ storeRow' \subseteq storeRow
    BY <1>7 DEF InitiateFails, kvars
  <2>2. ASSUME s \notin kStores PROVE FALSE
    <3>1. s \in storeRow /\ t \in kStores /\ NoLeaks
      BY <1>1, <1>2, <1>7, <2>1 DEF InitiateFails, Tidy
    <3>2. t \notin storeRow
      BY <1>1, <2>2, <3>1 DEF RowPerDisk
    <3>3. QED
      BY <1>2, <3>1, <3>2 DEF LeakInv, NoLeaksInv
  <2>3. QED
    BY <2>1, <2>2
<1>8. ASSUME NEW u \in StoreIds, KCleanup(u, Listening(u)),
             UndoStore(u) \/ DeleteStore(u) \/ QueryUsage(u)
      PROVE  s \in kStores'
  <2>1. mpc # "initiate" /\ mpc \notin StartStates /\ storeRow' = storeRow
    BY <1>8 DEF UndoStore, DeleteStore, QueryUsage, StartStates, dbvars
  <2>2. kStores' = kStores \/ (kStores' = kStores \ {u} /\ ~InUse(u))
    BY <1>8 DEF KCleanup
  <2>3. s \in kStores /\ t \in kStores
    BY <1>1, <1>2, <2>1, <2>2 DEF SoleInv
  <2>4. CASE t \in storeRow
    BY <1>1, <2>1, <2>4 DEF RowPerDisk
  <2>5. CASE t \notin storeRow
    <3>1. InUse(s)
      BY <1>1, <1>2, <2>3, <2>5 DEF LeakInv, InUse
    <3>2. QED
      BY <2>2, <2>3, <3>1
  <2>6. QED
    BY <2>4, <2>5
<1>9. CASE UNCHANGED kStores /\ storeRow' \subseteq storeRow /\ mpc \notin StartStates /\ ~InitiateFails /\ ~InitiateStore
  <2>1. mpc = "initiate" => mpc' = mpc /\ cur' = cur
    BY <1>2, <1>9, InitiateStays DEF mvars
  <2>2. QED
    BY <1>1, <1>2, <1>9, <2>1 DEF SoleInv
<1>10. CASE mpc \notin StartStates /\ ~InitiateStore /\ ~InitiateFails /\ UNCHANGED kStores
  <2>1. storeRow' \subseteq storeRow \/ \E d \in Disks : InsertStoreRow(d)
    BY <1>2, <1>10, StoreRowView DEF DeleteStoreRow, HandlerDeleteStore
  <2>2. QED
    BY <1>5, <1>9, <1>10, <2>1
<1>11. QED
  <2>1. ~AttachFails
    BY <1>1 DEF AttachFails, StartStates
  <2>2. QED
    BY <1>2, <1>3, <1>4, <1>6, <1>7, <1>8, <1>10, <2>1, StoreView

\* Where a request that collects stores comes from.
LEMMA EnsureView ==
    ASSUME [Next]_vars, mpc' \in EnsureStates
    PROVE  \/ UNCHANGED mvars
           \/ \E d \in Disks : ReuseStore(d)
           \/ RecordInitialFile
           \/ mpc \in EnsureStates /\ got' = got
           \/ \E D \in (SUBSET Disks) \ {{}} : BeginCreate(D)
<1>1. CASE RequestStep
  BY <1>1 DEF RequestStep, InsertStoreRow, NoMapping, InitiateStore,
              InitialAllocation, TakeSnapshot, CollectInfo, FetchBitmap,
              RecordSnapshot, UndoSnapshot, UndoDone, DeleteFileRows, DeleteStoreRow, DeleteRecord,
              InsertRows, UndoStore, DeleteStore, DeleteVolume, Return, GoTo, EnsureStates
<1>2. CASE RequestFails \/ NewRequest
  BY <1>2 DEF RequestFails, InitiateFails, TakeSnapshotFails, RowsFail, RecordSnapshotFails,
              DeleteStoreFails, DeleteRecordFails, NewRequest, BeginDelete, QueryUsage,
              Return, GoTo, EnsureStates
<1>3. QED
  BY <1>1, <1>2, ControlView DEF EnsureStates, StartStates

\* The snapshot is taken only if every store collected exists.
LEMMA StoresExist ==
    ASSUME TypeInv, RegInv, GotInv, Tidy, TakeSnapshot
    PROVE  got \subseteq kStores \cap storeRow
<1>1. mpc = "ensure" /\ todo = {} /\ req \subseteq DisksOf(kStores)
  BY DEF TakeSnapshot, KCreateSnapshot, CanSnapshot
<1>2. DisksOf(got) = req
  BY <1>1 DEF RegInv, RequestInv, EnsureStates
<1>3. \A s \in got : StoreDisk[s] \in DisksOf(kStores)
  BY <1>1, <1>2 DEF DisksOf
<1>4. QED
  BY <1>1, <1>3 DEF GotInv, EnsureStates

\* Stores a request has collected are not deleted while it goes on.
LEMMA CollectedStay ==
    ASSUME TypeInv, EndInv, RegInv, DiskInv, [Next]_vars, NEW s \in got, s \in kStores \cap storeRow,
           mpc \in EnsureStates \cup {"collect", "rows", "bitmap"},
           mpc' \notin StartStates
    PROVE  s \in kStores' \cap storeRow'
<1>1. ~Crash /\ ~Reboot
  BY DEF Crash, Reboot, GoTo, StartStates
<1>2. s \in kStores'
  <2>1. ~\E u \in StoreIds : UndoStore(u) \/ DeleteStore(u) \/ QueryUsage(u)
    BY DEF UndoStore, DeleteStore, QueryUsage, EnsureStates
  <2>2. QED
    BY <1>1, <2>1, StoreView DEF InitiateStore, AttachWatchers, AttachFails, KInitiate
<1>3. s \in storeRow'
  <2>1. ~DeleteStoreRow
    BY DEF DeleteStoreRow, EnsureStates
  <2>2. QED
    BY <1>1, <2>1, RowsGone
<1>4. QED
  BY <1>2, <1>3

LEMMA GotStep ==
    ASSUME TypeInv, RegInv, EndInv, DiskInv, SoleInv, GotInv, [Next]_vars
    PROVE  GotInv'
<1>1. SUFFICES ASSUME Tidy' PROVE GotInv'
  BY DEF GotInv
<1>2. Tidy
  BY <1>1, TidyStays
<1>3. mpc' \in EnsureStates => 
          \A s \in got' : s \in kStores' \cap storeRow' \/ StoreDisk[s] \notin DisksOf(kStores')
  <2>1. SUFFICES ASSUME mpc' \in EnsureStates, NEW s \in got'
                 PROVE  s \in kStores' \cap storeRow' \/ StoreDisk[s] \notin DisksOf(kStores')
    OBVIOUS
  <2>2. ASSUME NEW u \in storeRow, u \in StoreIds, mpc \in {"ensure", "record"},
               UNCHANGED <<kStores, storeRow>>, s = u
        PROVE  s \in kStores' \cap storeRow' \/ StoreDisk[s] \notin DisksOf(kStores')
    BY <1>2, <2>2 DEF SoleInv, DisksOf, StartStates
  <2>3. CASE mpc \in EnsureStates /\ s \in got
    <3>1. mpc' \notin StartStates
      BY <2>1 DEF EnsureStates, StartStates
    <3>2. CASE s \in kStores \cap storeRow
      BY <2>3, <3>1, <3>2, CollectedStay
    <3>3. CASE StoreDisk[s] \notin DisksOf(kStores)
      <4>1. CASE InitiateStore
        <5>1. StoreDisk[s] # StoreDisk[cur]
          BY <2>3, <4>1 DEF InitiateStore, RegInv, RequestInv, DisksOf
        <5>2. QED
          BY <3>3, <4>1, <5>1 DEF InitiateStore, KInitiate, DisksOf
      <4>2. CASE ~InitiateStore
        <5>1. ~AttachWatchers /\ ~AttachFails
          BY <2>3 DEF AttachWatchers, AttachFails, EnsureStates
        <5>2. kStores' \subseteq kStores
          BY <3>1, <4>2, <5>1, StoreView DEF Reboot, KReboot, KCleanup
        <5>3. QED
          BY <3>3, <5>2 DEF DisksOf
      <4>3. QED
        BY <4>1, <4>2
    <3>4. QED
      BY <1>2, <2>3, <3>2, <3>3 DEF GotInv
  <2>4. ASSUME NEW d \in Disks, ReuseStore(d)
        PROVE  s \in kStores' \cap storeRow' \/ StoreDisk[s] \notin DisksOf(kStores')
    <3>1. s \in got \/ s \in storeRow
      BY <2>4 DEF ReuseStore, StoresOfDisk
    <3>2. mpc = "ensure" /\ UNCHANGED <<kStores, storeRow>>
      BY <2>4 DEF ReuseStore, kvars, dbvars
    <3>3. QED
      BY <2>2, <2>3, <3>1, <3>2 DEF TypeInv, DBTypeOK, EnsureStates
  <2>5. CASE RecordInitialFile
    <3>1. s \in got \/ s \in storeRow
      BY <2>1, <2>5 DEF RecordInitialFile, Return, GoTo
    <3>2. mpc = "record" /\ UNCHANGED <<kStores, storeRow>>
      BY <2>5 DEF RecordInitialFile, kvars
    <3>3. QED
      BY <2>2, <2>3, <3>1, <3>2 DEF TypeInv, DBTypeOK, EnsureStates
  <2>6. ASSUME NEW D, BeginCreate(D) PROVE FALSE
    BY <2>1, <2>6 DEF BeginCreate, RegInv, RequestInv
  <2>7. CASE UNCHANGED mvars
    BY <2>1, <2>3, <2>7 DEF mvars
  <2>8. QED
    BY <2>1, <2>3, <2>4, <2>5, <2>6, <2>7, EnsureView
<1>4. mpc' \in {"collect", "rows", "bitmap"} => got' \subseteq kStores' \cap storeRow'
  <2>1. CASE TakeSnapshot
    <3>1. UNCHANGED <<got, kStores, storeRow>>
      BY <2>1 DEF TakeSnapshot, KCreateSnapshot, dbvars
    <3>2. QED
      BY <1>2, <2>1, <3>1, StoresExist
  <2>2. CASE ~TakeSnapshot /\ mpc' \in {"collect", "rows", "bitmap"}
    <3>1. mpc \in {"collect", "rows", "bitmap"} /\ got' = got
      BY <2>2, CreatingStays DEF Creating
    <3>2. \A s \in got : s \in kStores' \cap storeRow'
      BY <1>2, <2>2, <3>1, CollectedStay DEF GotInv, StartStates
    <3>3. QED
      BY <3>1, <3>2
  <2>3. QED
    BY <2>1, <2>2
<1>5. QED
  BY <1>3, <1>4 DEF GotInv

KeepInv == Tidy => SnapshotKeepsItsStores

LEMMA KeepStep ==
    ASSUME TypeInv, RegInv, EndInv, DiskInv, GotInv, KeepInv, [Next]_vars
    PROVE  KeepInv'
<1>1. SUFFICES ASSUME Tidy', NEW i \in SnapIds, Existing(i)', NEW s \in snapRow'[i]
               PROVE  s \in kStores' \cap storeRow'
  BY DEF KeepInv, SnapshotKeepsItsStores, Existing
<1>2. Tidy /\ ~Reboot /\ ~(Crash /\ ~KeepsDB)
  <2>1. ~Reboot
    BY <1>1 DEF Reboot, KReboot, Existing
  <2>2. QED
    BY <1>1, <2>1, TidyStays, StopsCount DEF Tidy, NoLeaks
<1>3. kSnap \in [SnapIds -> SUBSET Disks] /\ snapRow \in [SnapIds -> SUBSET StoreIds]
  BY DEF TypeInv, KernelTypeOK, DBTypeOK
\* The step that records the snapshot.
<1>4. CASE RecordSnapshot
  <2>1. UNCHANGED <<kSnap, kStores, storeRow>> /\ snapRow' = [snapRow EXCEPT ![sid] = got]
        /\ got \subseteq kStores \cap storeRow
    BY <1>2, <1>4 DEF RecordSnapshot, kvars, GotInv
  <2>2. QED
    BY <1>1, <1>2, <1>3, <2>1 DEF KeepInv, SnapshotKeepsItsStores, Existing, Recorded
\* Any other leaves its row alone.
<1>5. CASE ~RecordSnapshot
  <2>1. Recorded(i) /\ snapRow'[i] = snapRow[i] /\ i \in kIssued
    BY <1>1, <1>2, <1>3, <1>5, RecordKept DEF Existing
  <2>2. kSnap[i] # {}
    BY <1>1, <1>2, <1>3, <2>1, SnapshotView
       DEF TakeSnapshot, KCreateSnapshot, UndoSnapshot, BeginDelete, KDeleteSnapshot, kvars, Existing
  <2>3. s \in kStores \cap storeRow
    BY <1>1, <1>2, <2>1, <2>2 DEF KeepInv, SnapshotKeepsItsStores
  <2>4. StoreDisk[s] \in kSnap[i] /\ Existing(i)
    BY <1>1, <2>1, <2>2 DEF DiskInv, Existing, DisksOf
  <2>5. s \in kStores'
    <3>1. InUse(s)
      BY <2>4 DEF InUse
    <3>2. QED
      BY <1>2, <2>3, <3>1, StoreView
         DEF InitiateStore, AttachWatchers, AttachFails, KInitiate, KCleanup
  <2>6. s \in storeRow'
    <3>1. ASSUME mpc = "delrow", s = cur PROVE FALSE
      BY <2>4, <3>1 DEF DiskInv, DeleteStates
    <3>2. QED
      BY <1>2, <2>3, <3>1, RowsGone
  <2>7. QED
    BY <2>5, <2>6
<1>6. QED
  BY <1>4, <1>5

-----------------------------------------------------------------------------
(* The database lists what exists *)

\* A disk that is listed as part of a snapshot is part of one, except that
\* DeleteSnapshot removes the snapshot first.
ListedInv ==
    stops = 0 /\ "delete" \notin Faults =>
        \A i \in SnapIds :
            ActiveDisks(i) \subseteq kSnap[i] \/ (mpc \in DeleteStates /\ i = sid)

LEMMA ListedStep ==
    ASSUME TypeInv, RegInv, DiskInv, ListedInv, [Next]_vars
    PROVE  ListedInv'
<1>1. SUFFICES ASSUME stops' = 0, "delete" \notin Faults, NEW i \in SnapIds,
                      ~(mpc' \in DeleteStates /\ i = sid')
               PROVE  ActiveDisks(i)' \subseteq kSnap'[i]
  BY DEF ListedInv
<1>2. stops = 0 /\ ~Crash /\ ~Reboot
  BY <1>1, StopsCount
<1>3. kSnap \in [SnapIds -> SUBSET Disks]
  BY DEF TypeInv, KernelTypeOK
<1>4. CASE RecordSnapshot
  <2>1. kSnap[sid] = req /\ kSnap' = kSnap /\ mpc = "rows"
    BY <1>4 DEF RecordSnapshot, DiskInv, kvars
  <2>2. ActiveDisks(i)' = IF i = sid THEN req ELSE ActiveDisks(i)
    BY <1>4, RecordedAtOnce
  <2>3. QED
    BY <1>1, <1>2, <2>1, <2>2 DEF ListedInv, DeleteStates
<1>5. CASE ~RecordSnapshot
  <2>1. ActiveDisks(i)' \subseteq ActiveDisks(i)
    BY <1>2, <1>5, RecordView, ReleasedDisk, RecordGone
  <2>2. CASE mpc \in DeleteStates /\ i = sid
    <3>1. DeleteRecord
      BY <1>1, <1>2, <2>2, DeletingEnds
    <3>2. ActiveDisks(i)' = {}
      BY <2>2, <3>1, RecordGone DEF ActiveDisks
    <3>3. QED
      BY <3>2
  <2>3. CASE ~(mpc \in DeleteStates /\ i = sid)
    <3>1. ActiveDisks(i) \subseteq kSnap[i]
      BY <1>1, <1>2, <2>3 DEF ListedInv
    <3>2. CASE TakeSnapshot \/ UndoSnapshot
      <4>1. kSnap'[i] = kSnap[i] \/ ~Recorded(i)
        BY <1>3, <3>2 DEF TakeSnapshot, KCreateSnapshot, UndoSnapshot, KDeleteSnapshot, kvars,
                          RegInv, IssuedInv, DiskInv
      <4>2. QED
        BY <2>1, <3>1, <4>1 DEF ActiveDisks
    <3>3. ASSUME NEW j \in SnapIds, BeginDelete(j) PROVE ActiveDisks(i)' \subseteq kSnap'[i]
      BY <1>1, <1>3, <2>1, <3>1, <3>3 DEF BeginDelete, KDeleteSnapshot, DeleteStates
    <3>4. QED
      BY <1>2, <2>1, <3>1, <3>2, <3>3, SnapshotView
  <2>4. QED
    BY <2>2, <2>3
<1>6. QED
  BY <1>4, <1>5

-----------------------------------------------------------------------------
(* The theorems these invariants are for *)

CoreInv ==
    /\ TypeInv /\ RegInv
    /\ QuietStart /\ EndInv
    /\ DisjointInv /\ DiskInv
    /\ RowPerDisk /\ LeakInv /\ NoLeaksInv
    /\ SoleInv /\ GotInv /\ KeepInv
    /\ ListedInv

LEMMA CoreInit == Init => CoreInv
<1>. SUFFICES ASSUME Init PROVE CoreInv
  OBVIOUS
<1>1. TypeInv /\ RegInv
  BY InitTypes, RegInit
<1>2. QuietStart /\ EndInv
  BY DEF Init, KernelInit, DBInit, WatcherInit, QuietStart, EndInv, EndReported, Range
<1>3. \A i \in SnapIds : ~Recorded(i) /\ kSnap[i] = {} /\ ActiveDisks(i) = {}
  BY DEF Init, KernelInit, DBInit, Recorded, ActiveDisks
<1>4. mpc = "down" /\ kStores = {} /\ storeRow = {}
  BY DEF Init, KernelInit, DBInit
<1>5. DisjointInv /\ DiskInv /\ NoLeaksInv /\ KeepInv /\ ListedInv
  BY <1>3, <1>4 DEF DisjointInv, DiskInv, Existing, NoLeaksInv, Leaked, KeepInv,
                    SnapshotKeepsItsStores, ListedInv, DeleteStates
<1>6. RowPerDisk /\ LeakInv /\ SoleInv /\ GotInv
  BY <1>4 DEF RowPerDisk, LeakInv, SoleInv, GotInv, EnsureStates
<1>7. QED
  BY <1>1, <1>2, <1>5, <1>6 DEF CoreInv

LEMMA CoreStep == CoreInv /\ [Next]_vars => CoreInv'
BY TypeStep, RegStep, QuietStartStep, EndStepInv, DisjointStep, DiskStep, RowPerDiskStep, LeakStep,
   NoLeaksStep, SoleStep, GotStep, KeepStep, ListedStep DEF CoreInv

LEMMA CoreCorrect == Spec => []CoreInv
BY CoreInit, CoreStep, PTL DEF Spec

\* As long as the database outlives the process and new stores can be made,
\* neither the clean-up of another request nor a late Deleted message takes a
\* store or its row from a recorded snapshot that exists, whatever else fails
\* and however often the agent is started again (manager.go:520, 699-740,
\* worker.go:65-78).
THEOREM StoresAreKept == KeepsDB /\ "store" \notin Faults => (Spec => []SnapshotKeepsItsStores)
<1>1. SUFFICES ASSUME KeepsDB, "store" \notin Faults PROVE Spec => []SnapshotKeepsItsStores
  OBVIOUS
<1>2. CoreInv => SnapshotKeepsItsStores
  BY <1>1 DEF CoreInv, KeepInv, Tidy
<1>3. QED
  BY <1>2, CoreCorrect, PTL

\* A store that cannot be made does no harm either as long as the process runs
\* and no error path leaves a snapshot behind (snapstores.go:138-176).
THEOREM StoresAreKeptByOneProcess ==
    Faults \cap {"bookkeeping", "delete"} = {} => (Spec => [](stops = 0 => SnapshotKeepsItsStores))
<1>1. SUFFICES ASSUME Faults \cap {"bookkeeping", "delete"} = {}
               PROVE  Spec => [](stops = 0 => SnapshotKeepsItsStores)
  OBVIOUS
<1>2. CoreInv => (stops = 0 => SnapshotKeepsItsStores)
  BY <1>1 DEF CoreInv, KeepInv, Tidy, NoLeaks
<1>3. QED
  BY <1>2, CoreCorrect, PTL

\* In a process that runs without errors it does not undo, the database lists
\* between requests exactly the snapshots that exist, each with its disks:
\* failed allocations, ioctls, database calls and watchers do not change that
\* (manager.go:517-550, 699-740).
THEOREM RegistryIsExact ==
    Faults \cap {"bookkeeping", "delete"} = {} => (Spec => [](stops = 0 => RegistryMatchesKernel))
<1>1. SUFFICES ASSUME Faults \cap {"bookkeeping", "delete"} = {}
               PROVE  Spec => [](stops = 0 => RegistryMatchesKernel)
  OBVIOUS
<1>2. CoreInv => (stops = 0 => RegistryMatchesKernel)
  <2>1. SUFFICES ASSUME CoreInv, stops = 0, mpc = "idle", NEW i \in SnapIds
                 PROVE  ActiveDisks(i) = kSnap[i]
    BY DEF RegistryMatchesKernel
  <2>2. CASE kSnap[i] = {}
    BY <1>1, <2>1, <2>2 DEF CoreInv, ListedInv, DeleteStates
  <2>3. CASE kSnap[i] # {}
    <3>1. Recorded(i)
      BY <1>1, <2>1, <2>3 DEF CoreInv, NoLeaksInv, NoLeaks, Leaked, Creating
    <3>2. QED
      BY <2>1, <2>3, <3>1 DEF CoreInv, DiskInv, Existing
  <2>4. QED
    BY <2>2, <2>3
<1>3. QED
  BY <1>2, CoreCorrect, PTL

\* snapstores.go:64-70: the ioctl that deletes unused stores is used to ask how
\* full a store is; a store it is asked about is in use, in any process that
\* neither stops nor fails to finish a deletion it began.
THEOREM QueriesDeleteNothing ==
    MaxStops = 0 /\ "delete" \notin Faults => (Spec => QueryDeletesNothing)
<1>1. SUFFICES ASSUME MaxStops = 0, "delete" \notin Faults PROVE Spec => QueryDeletesNothing
  OBVIOUS
<1>2. Init => stops = 0
  BY DEF Init
<1>3. CoreInv /\ stops = 0 /\ [Next]_vars => (stops = 0)'
  BY <1>1, StopsCount DEF CoreInv, Crash, Reboot
<1>4. CoreInv /\ stops = 0 /\ [Next]_vars
      => [\A s \in StoreIds : QueryUsage(s) /\ s \in kStores => s \in kStores']_vars
  <2>1. SUFFICES ASSUME CoreInv, stops = 0, NEW s \in StoreIds, QueryUsage(s), s \in kStores
                 PROVE  s \in kStores'
    OBVIOUS
  <2>2. PICK i \in SnapIds : StoreDisk[s] \in ActiveDisks(i)
    BY <2>1 DEF QueryUsage, HasSnapshot
  <2>3. StoreDisk[s] \in kSnap[i]
    BY <1>1, <2>1, <2>2 DEF CoreInv, ListedInv, QueryUsage, DeleteStates
  <2>4. QED
    BY <2>1, <2>3 DEF QueryUsage, KCleanup, InUse
<1>5. QED
  BY <1>2, <1>3, <1>4, CoreCorrect, PTL DEF Spec, QueryDeletesNothing

-----------------------------------------------------------------------------
(* Rows of stores that are gone *)

\* A watcher that listens has nothing left to send.
OutInv == \A s \in StoreIds : watch[s] = "reading" => out[s] = <<>>

\* The handler has been told, or will be, that the rows of a store must go.
Awaited(s) ==
    \/ DeletionPending(s)
    \/ hcur = s /\ hpc \in {"delfiles", "delrow"}

\* Errors that neither undo nor report what they leave half-done do not occur.
NoLeftovers ==
    stops = 0 /\ Faults \cap {"bookkeeping", "db", "delete", "store", "watch"} = {}

NewStore(s) == mpc = "initiate" /\ cur = s

\* Every row is that of a store that exists, or someone is about to delete it;
\* the handler inserts no file row that nobody would delete.
RowsInv ==
    NoLeftovers =>
        /\ mpc \in StartStates => fileRow = {}
        /\ mpc \notin StartStates =>
              /\ \A s \in storeRow : s \in kStores \/ Awaited(s) \/ NewStore(s)
              /\ \A s \in fileRow : s \in storeRow \/ Awaited(s)
        /\ hpc = "insert" =>
              hcur \in storeRow \cap kStores \/ DeletionPending(hcur) \/ NewStore(hcur)
        /\ hpc = "delrow" => hcur \notin fileRow
        /\ mpc \in {"allocate", "record"} => cur \in storeRow \cap kStores

\* Most steps only add to the queues.
LEMMA QueuesGrow ==
    ASSUME TypeInv, [Next]_vars, ~Crash, ~Reboot, ~InitiateStore, ~AttachWatchers, ~AttachFails,
           ~WatchersStep
    PROVE  /\ UNCHANGED <<watch, out>>
           /\ UNCHANGED msgChan \/ HandlerStep
           /\ \/ pipe' = pipe
              \/ \E s \in StoreIds, e \in EventKinds : pipe' = [pipe EXCEPT ![s] = Append(@, e)]
<1>1. CASE RequestStep
  <2>1. CASE \E s \in StoreIds : UndoStore(s) \/ DeleteStore(s)
    BY <2>1 DEF UndoStore, DeleteStore, KCleanup, EventKinds, kvars, wvars
  <2>2. QED
    BY <1>1, <2>1
       DEF RequestStep, ReuseStore, InsertStoreRow, NoMapping, InitialAllocation,
           RecordInitialFile, TakeSnapshot, CollectInfo, FetchBitmap, RecordSnapshot,
           UndoSnapshot, UndoDone, DeleteFileRows, DeleteStoreRow, DeleteRecord, InsertRows,
           DeleteVolume, KCreateSnapshot, KDeleteSnapshot, kvars, wvars
<1>2. CASE RequestFails \/ NewRequest
  BY <1>2 DEF RequestFails, InitiateFails, TakeSnapshotFails, RowsFail, RecordSnapshotFails,
              DeleteStoreFails, DeleteRecordFails, NewRequest, BeginCreate, BeginDelete, QueryUsage,
              KDeleteSnapshot, KCleanup, EventKinds, kvars, wvars
<1>3. CASE HandlerStep
  BY <1>3 DEF HandlerStep, HandleAddFile, InsertFileRow, HandleDeleted, HandlerDeleteFiles,
              HandlerDeleteStore, HandleOverflow, HandleError, kvars, wvars
<1>4. CASE KernelStep
  BY <1>4 DEF KernelStep, KEvent, wvars
<1>5. CASE OpenDB \/ CleanStorage \/ CleanStorageFails \/ UNCHANGED vars
  BY <1>5 DEF OpenDB, CleanStorage, CleanStorageFails, kvars, wvars, vars
<1>6. QED
  BY <1>1, <1>2, <1>3, <1>4, <1>5 DEF Next, StartStep

LEMMA OutStep == TypeInv /\ OutInv /\ [Next]_vars => OutInv'
<1>. SUFFICES ASSUME TypeInv, OutInv, [Next]_vars PROVE OutInv'
  OBVIOUS
<1>0. watch \in [StoreIds -> WatcherStates] /\ out \in [StoreIds -> Seq(Messages)]
  BY DEF TypeInv, WatcherTypeOK
<1>1. CASE InitiateStore \/ AttachWatchers
  BY <1>0, <1>1 DEF InitiateStore, AttachWatchers, StartWatchers, OutInv
<1>2. CASE Crash \/ Reboot
  BY <1>2 DEF Crash, Reboot, StopWatchers, OutInv
<1>3. ASSUME NEW s \in StoreIds, WatcherStep(s) PROVE OutInv'
  <2>1. CASE ReadHalfFill(s) \/ ReadOverflow(s) \/ ReadTerminate(s) \/ ReadError(s)
    BY <1>0, <2>1 DEF ReadHalfFill, ReadOverflow, ReadTerminate, ReadError, Report, OutInv
  <2>2. CASE Send(s)
    BY <1>0, <2>2 DEF Send, OutInv
  <2>3. QED
    BY <1>3, <2>1, <2>2 DEF WatcherStep
<1>4. CASE UNCHANGED <<watch, out>>
  BY <1>4 DEF OutInv
<1>5. QED
  BY <1>1, <1>2, <1>3, <1>4, QueuesGrow DEF WatchersStep, AttachFails, wvars

-----------------------------------------------------------------------------
(* A deletion that is pending stays so until the handler takes the message *)

LEMMA PendingIsReported ==
    ASSUME NEW s \in StoreIds, Awaited(s)
    PROVE  EndReported(s)
BY DEF Awaited, DeletionPending, EndReported

LEMMA PendingKept ==
    ASSUME NEW s, DeletionPending(s), watch'[s] = watch[s], out'[s] = out[s],
           Range(pipe[s]) \subseteq Range(pipe'[s]),
           Msg("Deleted", s) \in Range(msgChan) => Msg("Deleted", s) \in Range(msgChan')
    PROVE  DeletionPending(s)'
BY DEF DeletionPending

LEMMA WatcherKeepsPending ==
    ASSUME TypeInv, OutInv, "watch" \notin Faults, NEW u \in StoreIds, WatcherStep(u),
           NEW s \in StoreIds, DeletionPending(s)
    PROVE  DeletionPending(s)'
<1>0. /\ watch \in [StoreIds -> WatcherStates] /\ out \in [StoreIds -> Seq(Messages)]
      /\ pipe \in [StoreIds -> Seq(EventKinds)] /\ msgChan \in Seq(Messages)
  BY DEF TypeInv, WatcherTypeOK, KernelTypeOK
<1>1. ASSUME NEW e, NextEvent(u, e), NEW state, NEW msgs, Report(u, state, msgs),
             \/ e # "terminate" /\ state = "sending"
             \/ e = "terminate" /\ Msg("Deleted", u) \in Range(msgs)
      PROVE  DeletionPending(s)'
  <2>1. CASE s # u
    BY <1>0, <1>1, <2>1, PendingKept DEF NextEvent, Report
  <2>2. CASE s = u
    <3>1. watch[u] = "reading" /\ out[u] = <<>> /\ out'[u] = msgs /\ watch'[u] = state
          /\ msgChan' = msgChan /\ pipe[u] # <<>> /\ Head(pipe[u]) = e /\ pipe'[u] = Tail(pipe[u])
      BY <1>0, <1>1 DEF NextEvent, Report, OutInv
    <3>2. CASE e = "terminate"
      BY <1>1, <2>2, <3>1, <3>2 DEF DeletionPending
    <3>3. CASE e # "terminate"
      <4>1. Range(pipe[u]) = Range(Tail(pipe[u])) \cup {Head(pipe[u])}
        BY <1>0, <3>1, HeadAndTail
      <4>2. Range(<<>>) = {}
        BY DEF Range
      <4>3. QED
        BY <1>1, <2>2, <3>1, <3>3, <4>1, <4>2 DEF DeletionPending
    <3>4. QED
      BY <3>2, <3>3
  <2>3. QED
    BY <2>1, <2>2
<1>2. CASE ReadHalfFill(u)
  BY <1>1, <1>2 DEF ReadHalfFill
<1>3. CASE ReadOverflow(u)
  BY <1>1, <1>3 DEF ReadOverflow
<1>4. CASE ReadTerminate(u)
  BY <1>1, <1>4, ShortRanges DEF ReadTerminate
<1>5. CASE Send(u)
  <2>1. out[u] \in Seq(Messages) /\ out[u] # <<>> /\ Head(out[u]) \in Messages
    BY <1>0, <1>5 DEF Send
  <2>2. Range(msgChan') = Range(msgChan) \cup {Head(out[u])}
    BY <1>0, <1>5, <2>1, RangeFacts DEF Send
  <2>3. CASE s # u
    BY <1>0, <1>5, <2>2, <2>3, PendingKept DEF Send
  <2>4. CASE s = u
    <3>1. Range(out[u]) = Range(Tail(out[u])) \cup {Head(out[u])} /\ out'[u] = Tail(out[u])
      BY <1>0, <1>5, <2>1, HeadAndTail DEF Send
    <3>2. watch[u] \in {"reading", "sending"} =>
             watch'[u] \in {"reading", "sending"} /\ pipe'[u] = pipe[u]
      BY <1>0, <1>5 DEF Send
    <3>3. QED
      BY <2>2, <2>4, <3>1, <3>2 DEF DeletionPending
  <2>5. QED
    BY <2>3, <2>4
<1>6. QED
  BY <1>2, <1>3, <1>4, <1>5 DEF WatcherStep, ReadError

\* Only the handler takes a Deleted message off the channel.
LEMMA TakenKeepsPending ==
    ASSUME TypeInv, HandlerStep, NEW s \in StoreIds, DeletionPending(s)
    PROVE  DeletionPending(s)' \/ (HandleDeleted /\ hcur' = s /\ hpc' = "delfiles")
<1>0. UNCHANGED <<watch, out, pipe>>
  BY DEF HandlerStep, HandleAddFile, InsertFileRow, HandleDeleted, HandlerDeleteFiles,
         HandlerDeleteStore, HandleOverflow, HandleError, wvars, kvars
<1>1. ASSUME NEW type, TakeMessage(type), type # "Deleted" PROVE DeletionPending(s)'
  <2>1. Msg("Deleted", s) # Head(msgChan)
    BY <1>1, TakenMessage DEF Msg
  <2>2. QED
    BY <1>0, <1>1, <2>1, TakenMessage, PendingKept
<1>2. CASE HandleAddFile \/ HandleOverflow \/ HandleError
  BY <1>1, <1>2 DEF HandleAddFile, HandleOverflow, HandleError
<1>3. CASE HandleDeleted
  <2>1. CASE Msg("Deleted", s) = Head(msgChan)
    BY <1>3, <2>1 DEF HandleDeleted, Msg
  <2>2. CASE Msg("Deleted", s) # Head(msgChan)
    BY <1>0, <1>3, <2>2, TakenMessage, PendingKept DEF HandleDeleted
  <2>3. QED
    BY <2>1, <2>2
<1>4. CASE InsertFileRow \/ HandlerDeleteFiles \/ HandlerDeleteStore
  BY <1>0, <1>4, PendingKept DEF InsertFileRow, HandlerDeleteFiles, HandlerDeleteStore, wvars
<1>5. QED
  BY <1>2, <1>3, <1>4 DEF HandlerStep

LEMMA PendingStays ==
    ASSUME TypeInv, EndInv, OutInv, "watch" \notin Faults, [Next]_vars, ~Crash, ~Reboot,
           mpc \notin StartStates, NEW s \in StoreIds, DeletionPending(s)
    PROVE  DeletionPending(s)' \/ (HandleDeleted /\ hcur' = s /\ hpc' = "delfiles")
<1>0. pipe \in [StoreIds -> Seq(EventKinds)]
  BY DEF TypeInv, KernelTypeOK
<1>1. CASE InitiateStore
  <2>1. s # cur
    BY <1>1, PendingIsReported DEF InitiateStore, EndInv, Awaited
  <2>2. QED
    BY <1>0, <1>1, <2>1, PendingKept
       DEF InitiateStore, KInitiate, StartWatchers, TypeInv, WatcherTypeOK
<1>2. CASE WatchersStep
  BY <1>2, WatcherKeepsPending DEF WatchersStep
<1>3. CASE HandlerStep
  BY <1>3, TakenKeepsPending
<1>4. CASE ~InitiateStore /\ ~WatchersStep /\ ~HandlerStep
  <2>1. ~AttachWatchers /\ ~AttachFails
    BY DEF AttachWatchers, AttachFails, StartStates
  <2>2. UNCHANGED <<watch, out, msgChan>>
    BY <1>4, <2>1, QueuesGrow
  <2>3. Range(pipe[s]) \subseteq Range(pipe'[s])
    <3>1. CASE pipe' = pipe
      BY <3>1
    <3>2. ASSUME NEW u \in StoreIds, NEW e \in EventKinds, pipe' = [pipe EXCEPT ![u] = Append(@, e)]
          PROVE  Range(pipe[s]) \subseteq Range(pipe'[s])
      BY <1>0, <3>2, RangeFacts
    <3>3. QED
      BY <1>4, <2>1, <3>1, <3>2, QueuesGrow
  <2>4. QED
    BY <2>2, <2>3, PendingKept
<1>5. QED
  BY <1>1, <1>2, <1>3, <1>4

\* A store is deleted while its watcher listens, and the watcher is told.
LEMMA DeletedIsPending ==
    ASSUME TypeInv, EndInv, WatchInv, [Next]_vars, mpc \notin StartStates, ~Reboot,
           NEW s \in storeRow \cap kStores, s \notin kStores'
    PROVE  DeletionPending(s)'
<1>0. pipe \in [StoreIds -> Seq(EventKinds)] /\ s \in StoreIds
  BY DEF TypeInv, KernelTypeOK, DBTypeOK
<1>1. PICK u \in StoreIds : KCleanup(u, Listening(u)) /\ (UndoStore(u) \/ DeleteStore(u) \/ QueryUsage(u))
  BY StoreView DEF InitiateStore, AttachWatchers, AttachFails, KInitiate
<1>2. s = u
  BY <1>1 DEF KCleanup
<1>3. Listening(u) /\ watch' = watch
  BY <1>1, <1>2 DEF WatchInv, Listening, UndoStore, DeleteStore, QueryUsage, wvars
<1>4. pipe' = [pipe EXCEPT ![u] = Append(@, "terminate")]
  BY <1>1, <1>2, <1>3 DEF KCleanup
<1>5. "terminate" \in Range(pipe'[s])
  BY <1>0, <1>2, <1>4, RangeFacts DEF EventKinds
<1>6. QED
  BY <1>2, <1>3, <1>5 DEF DeletionPending, Listening

\* As no snapshot is left behind, DeleteSnapshot removes no row of a store
\* that exists.
LEMMA RowStays ==
    ASSUME CoreInv, NoLeaks, ~Crash, ~Reboot, [Next]_vars, NEW s \in storeRow \cap kStores
    PROVE  s \in storeRow'
<1>1. SUFFICES ASSUME s \notin storeRow' PROVE FALSE
  OBVIOUS
<1>2. PICK j \in SnapIds : StoreDisk[s] \in kSnap[j] /\ ~Recorded(j) /\ mpc = "delrow"
  BY <1>1, RowsGone DEF CoreInv
<1>3. Leaked(j)
  BY <1>2 DEF Leaked, Creating
<1>4. QED
  BY <1>3 DEF CoreInv, NoLeaksInv

\* A store whose row DeleteSnapshot is about to remove is gone.
LEMMA CleanedIsGone ==
    ASSUME CoreInv, NoLeaks, mpc \in {"delfiles", "delrow"}
    PROVE  cur \notin kStores
<1>1. SUFFICES ASSUME cur \in kStores PROVE FALSE
  OBVIOUS
<1>2. cur \in got /\ InUse(cur)
  BY <1>1 DEF CoreInv, DiskInv
<1>3. PICK j \in SnapIds : StoreDisk[cur] \in kSnap[j]
  BY <1>2 DEF InUse
<1>4. ~Recorded(j)
  BY <1>2, <1>3 DEF CoreInv, DiskInv, Existing, DeleteStates
<1>5. Leaked(j)
  BY <1>3, <1>4 DEF Leaked, Creating
<1>6. QED
  BY <1>5 DEF CoreInv, NoLeaksInv

\* Where file rows come from and where they go.
LEMMA FileRowView ==
    ASSUME [Next]_vars
    PROVE  \/ UNCHANGED fileRow
           \/ RecordInitialFile
           \/ DeleteFileRows
           \/ InsertFileRow
           \/ HandlerDeleteFiles
           \/ Crash
           \/ Reboot
<1>1. CASE RequestStep
  BY <1>1 DEF RequestStep, ReuseStore, InsertStoreRow, NoMapping, InitiateStore,
              InitialAllocation, TakeSnapshot, CollectInfo, FetchBitmap, RecordSnapshot,
              UndoSnapshot, UndoDone, DeleteStoreRow, DeleteRecord, InsertRows,
              UndoStore, DeleteStore, DeleteVolume, dbvars
<1>2. CASE RequestFails \/ NewRequest
  BY <1>2 DEF RequestFails, InitiateFails, TakeSnapshotFails, RowsFail, RecordSnapshotFails,
              DeleteStoreFails, DeleteRecordFails, NewRequest, BeginCreate, BeginDelete, QueryUsage,
              dbvars
<1>3. CASE HandlerStep \/ WatchersStep \/ KernelStep
  BY <1>3 DEF HandlerStep, HandleAddFile, HandleDeleted, HandlerDeleteStore,
              HandleOverflow, HandleError, WatchersStep, KernelStep, dbvars
<1>4. CASE StartStep \/ CleanStorageFails \/ AttachFails \/ UNCHANGED vars
  BY <1>4 DEF StartStep, OpenDB, CleanStorage, AttachWatchers, CleanStorageFails, AttachFails,
              dbvars, vars
<1>5. QED
  BY <1>1, <1>2, <1>3, <1>4 DEF Next

\* Only the handler's own steps move it while the process runs.
LEMMA HandlerView ==
    ASSUME [Next]_vars
    PROVE  HandlerStep \/ UNCHANGED hvars \/ Crash \/ Reboot
<1>1. CASE RequestStep
  BY <1>1 DEF RequestStep, ReuseStore, InsertStoreRow, NoMapping, InitiateStore, InitialAllocation,
              RecordInitialFile, TakeSnapshot, CollectInfo, FetchBitmap, RecordSnapshot,
              UndoSnapshot, UndoDone, DeleteFileRows, DeleteStoreRow, DeleteRecord, InsertRows,
              UndoStore, DeleteStore, DeleteVolume
<1>2. CASE RequestFails \/ NewRequest
  BY <1>2 DEF RequestFails, InitiateFails, TakeSnapshotFails, RowsFail, RecordSnapshotFails,
              DeleteStoreFails, DeleteRecordFails, NewRequest, BeginCreate, BeginDelete, QueryUsage
<1>3. CASE WatchersStep \/ KernelStep \/ StartStep \/ CleanStorageFails \/ AttachFails
           \/ UNCHANGED vars
  BY <1>3 DEF WatchersStep, KernelStep, StartStep, OpenDB, CleanStorage, AttachWatchers,
              CleanStorageFails, AttachFails, vars
<1>4. QED
  BY <1>1, <1>2, <1>3 DEF Next

\* Start-up ends when the watchers are attached.
LEMMA StartView ==
    ASSUME [Next]_vars, ~Crash, ~Reboot, ~AttachWatchers
    PROVE  mpc \in StartStates <=> mpc' \in StartStates
<1>1. CASE RequestStep \/ RequestFails \/ NewRequest
  BY <1>1, RequestsRunLate
<1>2. QED
  BY <1>1
     DEF Next, HandlerStep, HandleAddFile, InsertFileRow, HandleDeleted, HandlerDeleteFiles,
         HandlerDeleteStore, HandleOverflow, HandleError, WatchersStep, KernelStep, StartStep,
         OpenDB, CleanStorage, CleanStorageFails, AttachFails, StartStates, vars, mvars

LEMMA AwaitedStays ==
    ASSUME TypeInv, EndInv, OutInv, "watch" \notin Faults, [Next]_vars, ~Crash, ~Reboot,
           mpc \notin StartStates, NEW s \in StoreIds, Awaited(s)
    PROVE  Awaited(s)' \/ (HandlerDeleteStore /\ hcur = s)
<1>1. CASE DeletionPending(s)
  BY <1>1, PendingStays DEF Awaited
<1>2. CASE hcur = s /\ hpc \in {"delfiles", "delrow"}
  <2>1. CASE HandlerStep
    BY <1>2, <2>1 DEF HandlerStep, HandleAddFile, InsertFileRow, HandleDeleted, HandlerDeleteFiles,
                      HandleOverflow, HandleError, TakeMessage, Awaited
  <2>2. CASE UNCHANGED hvars
    BY <1>2, <2>2 DEF hvars, Awaited
  <2>3. QED
    BY <2>1, <2>2, HandlerView
<1>3. QED
  BY <1>1, <1>2 DEF Awaited

LEMMA NewStoreStays ==
    ASSUME EndInv', [Next]_vars, ~Crash, ~Reboot, "store" \notin Faults,
           NEW s, NewStore(s), s \in storeRow
    PROVE  s \in storeRow' /\ (NewStore(s)' \/ s \in kStores')
<1>1. CASE InitiateStore
  BY <1>1 DEF InitiateStore, KInitiate, NewStore, dbvars
<1>2. CASE ~InitiateStore
  BY <1>2, InitiateStays DEF NewStore, InitiateFails, EndInv, mvars
<1>3. QED
  BY <1>1, <1>2

LEMMA AllocationView ==
    ASSUME [Next]_vars, mpc' \in {"allocate", "record"}
    PROVE  InitiateStore \/ (mpc \in {"allocate", "record"} /\ cur' = cur)
<1>1. CASE RequestStep
  BY <1>1 DEF RequestStep, ReuseStore, InsertStoreRow, NoMapping,
              InitialAllocation, RecordInitialFile, TakeSnapshot, CollectInfo, FetchBitmap,
              RecordSnapshot, UndoSnapshot, UndoDone, DeleteFileRows, DeleteStoreRow, DeleteRecord,
              InsertRows, UndoStore, DeleteStore, DeleteVolume, Return, GoTo
<1>2. CASE RequestFails \/ NewRequest
  BY <1>2 DEF RequestFails, InitiateFails, TakeSnapshotFails, RowsFail, RecordSnapshotFails,
              DeleteStoreFails, DeleteRecordFails, NewRequest, BeginCreate, BeginDelete, QueryUsage,
              Return, GoTo, mvars
<1>3. QED
  BY <1>1, <1>2, ControlView DEF StartStates, mvars

\* What the steps of an orderly process can rely on.
OrderlyStep ==
    /\ CoreInv /\ CoreInv' /\ OutInv /\ WatchInv /\ RowsInv
    /\ [Next]_vars
    /\ NoLeftovers' /\ NoLeftovers /\ NoLeaks /\ ~Crash /\ ~Reboot
    /\ Faults \cap {"bookkeeping", "db", "delete", "store", "watch"} = {}

LEMMA OrderlyIs ==
    ASSUME CoreInv, OutInv, "watch" \notin Faults => WatchInv, RowsInv, [Next]_vars, NoLeftovers'
    PROVE  OrderlyStep
<1>1. stops = 0 /\ ~Crash /\ ~Reboot
  BY StopsCount DEF CoreInv, NoLeftovers
<1>2. CoreInv'
  BY CoreStep
<1>3. QED
  BY <1>1, <1>2 DEF OrderlyStep, NoLeftovers, NoLeaks

LEMMA StoreRowsAwait ==
    ASSUME OrderlyStep, mpc' \notin StartStates, NEW s \in storeRow'
    PROVE  s \in kStores' \/ Awaited(s)' \/ NewStore(s)'
<1>. USE DEF OrderlyStep
<1>0. storeRow' \subseteq StoreIds
  BY DEF CoreInv, TypeInv, DBTypeOK
<1>1. CASE AttachWatchers
  BY <1>1 DEF AttachWatchers, KInitiate, dbvars
<1>2. ASSUME NEW d \in Disks, InsertStoreRow(d), s \notin storeRow PROVE NewStore(s)'
  BY <1>2 DEF InsertStoreRow, NewStore
<1>3. CASE s \in storeRow /\ ~AttachWatchers
  <2>1. mpc \notin StartStates
    BY <1>3, StartView
  <2>2. CASE s \in kStores
    BY <1>3, <2>1, <2>2, DeletedIsPending DEF CoreInv, Awaited
  <2>3. CASE Awaited(s)
    BY <1>0, <2>1, <2>3, AwaitedStays DEF CoreInv, HandlerDeleteStore
  <2>4. CASE NewStore(s)
    BY <1>3, <2>4, NewStoreStays DEF CoreInv
  <2>5. QED
    BY <1>3, <2>1, <2>2, <2>3, <2>4 DEF RowsInv
<1>4. QED
  BY <1>1, <1>2, <1>3, StoreRowView DEF InitiateFails, DeleteStoreRow, HandlerDeleteStore

LEMMA NewFileRows ==
    ASSUME OrderlyStep, mpc \notin StartStates, NEW s \in fileRow' \ fileRow
    PROVE  s \in storeRow' \/ Awaited(s)'
<1>. USE DEF OrderlyStep
<1>1. CASE RecordInitialFile
  BY <1>1 DEF RecordInitialFile
<1>2. CASE InsertFileRow
  <2>1. s = hcur /\ hpc = "insert" /\ UNCHANGED <<storeRow, pipe, watch, out, msgChan>>
    BY <1>2 DEF InsertFileRow, kvars, wvars
  <2>2. CASE DeletionPending(s)
    BY <2>1, <2>2, PendingKept DEF Awaited
  <2>3. CASE s \in storeRow \/ NewStore(s)
    BY <2>1, <2>3 DEF CoreInv, EndInv, NewStore
  <2>4. QED
    BY <2>1, <2>2, <2>3 DEF RowsInv
<1>3. QED
  BY <1>1, <1>2, FileRowView DEF DeleteFileRows, HandlerDeleteFiles

LEMMA FileRowsAwait ==
    ASSUME OrderlyStep, mpc' \notin StartStates, NEW s \in fileRow'
    PROVE  s \in storeRow' \/ Awaited(s)'
<1>. USE DEF OrderlyStep
<1>0. fileRow \subseteq StoreIds
  BY DEF CoreInv, TypeInv, DBTypeOK
<1>1. CASE mpc \in StartStates
  BY <1>1, StartView DEF AttachWatchers, RowsInv, dbvars
<1>2. CASE mpc \notin StartStates /\ s \notin fileRow
  BY <1>2, NewFileRows
<1>3. CASE mpc \notin StartStates /\ s \in fileRow
  <2>1. CASE s \in storeRow \cap kStores
    BY <2>1, RowStays
  <2>2. CASE Awaited(s)
    <3>1. CASE HandlerDeleteStore /\ hcur = s
      BY <1>3, <3>1 DEF HandlerDeleteStore, RowsInv
    <3>2. CASE ~(HandlerDeleteStore /\ hcur = s)
      BY <1>0, <1>3, <2>2, <3>2, AwaitedStays DEF CoreInv
    <3>3. QED
      BY <3>1, <3>2
  <2>3. CASE NewStore(s) /\ s \in storeRow
    BY <2>3, NewStoreStays DEF CoreInv
  <2>4. QED
    BY <1>3, <2>1, <2>2, <2>3 DEF RowsInv
<1>4. QED
  BY <1>1, <1>2, <1>3

\* The handler is about to insert a file row.
LEMMA InsertIsCovered ==
    ASSUME OrderlyStep, hpc' = "insert"
    PROVE  hcur' \in storeRow' \cap kStores' \/ DeletionPending(hcur)' \/ NewStore(hcur)'
<1>. USE DEF OrderlyStep
<1>0. storeRow \subseteq StoreIds
  BY DEF CoreInv, TypeInv, DBTypeOK
<1>1. mpc \notin StartStates /\ ~AttachWatchers
  <2>1. CASE HandlerStep
    BY <2>1 DEF HandlerStep, HandleAddFile, InsertFileRow, HandleDeleted, HandlerDeleteFiles,
                HandlerDeleteStore, HandleOverflow, HandleError, TakeMessage, HandlerDone, hvars,
                CoreInv, QuietStart, AttachWatchers, StartStates
  <2>2. CASE UNCHANGED hvars
    BY <2>2 DEF hvars, CoreInv, QuietStart, AttachWatchers, StartStates
  <2>3. QED
    BY <2>1, <2>2, HandlerView
<1>2. \/ HandleAddFile /\ hcur' \in storeRow /\ hpc = "idle"
      \/ hpc = "insert" /\ hcur' = hcur
  <2>1. CASE HandlerStep
    BY <2>1 DEF HandlerStep, HandleAddFile, InsertFileRow, HandleDeleted, HandlerDeleteFiles,
                HandlerDeleteStore, HandleOverflow, HandleError, TakeMessage, HandlerDone, hvars
  <2>2. QED
    BY <2>1, HandlerView DEF hvars
<1>3. hcur' \in storeRow \cap kStores \/ DeletionPending(hcur') \/ NewStore(hcur')
  BY <1>1, <1>2 DEF RowsInv, Awaited
<1>4. hcur' \in StoreIds
  BY DEF CoreInv, TypeInv, HandlerOK
<1>5. CASE hcur' \in storeRow \cap kStores
  BY <1>1, <1>5, RowStays, DeletedIsPending DEF CoreInv
<1>6. CASE DeletionPending(hcur')
  BY <1>1, <1>4, <1>6, PendingStays DEF CoreInv
<1>7. CASE NewStore(hcur')
  BY <1>7, NewStoreStays DEF CoreInv, EndInv, NewStore
<1>8. QED
  BY <1>3, <1>5, <1>6, <1>7

\* The handler has deleted the file rows, and nobody inserts one again.
LEMMA FilesAreGone ==
    ASSUME OrderlyStep, hpc' = "delrow"
    PROVE  hcur' \notin fileRow'
<1>. USE DEF OrderlyStep
<1>1. CASE HandlerDeleteFiles
  BY <1>1 DEF HandlerDeleteFiles
<1>2. CASE ~HandlerDeleteFiles
  <2>1. hpc = "delrow" /\ hcur' = hcur
    BY <1>2, HandlerView
       DEF HandlerStep, HandleAddFile, InsertFileRow, HandleDeleted, HandlerDeleteStore,
           HandleOverflow, HandleError, TakeMessage, HandlerDone, hvars
  <2>2. hcur \notin fileRow /\ ~InsertFileRow
    BY <2>1 DEF RowsInv, InsertFileRow
  <2>3. CASE RecordInitialFile
    <3>1. cur \in kStores /\ fileRow' \subseteq fileRow \cup {cur}
      BY <2>3 DEF RecordInitialFile, RowsInv
    <3>2. hcur \notin kStores
      BY <2>1 DEF CoreInv, TypeInv, HandlerOK, EndInv, EndReported
    <3>3. QED
      BY <2>1, <2>2, <3>1, <3>2
  <2>4. CASE ~RecordInitialFile
    BY <1>2, <2>1, <2>2, <2>4, FileRowView DEF DeleteFileRows
  <2>5. QED
    BY <2>3, <2>4
<1>3. QED
  BY <1>1, <1>2

LEMMA AllocationHasStore ==
    ASSUME OrderlyStep, mpc' \in {"allocate", "record"}
    PROVE  cur' \in storeRow' \cap kStores'
<1>. USE DEF OrderlyStep
<1>1. CASE InitiateStore
  BY <1>1 DEF InitiateStore, KInitiate, CoreInv, EndInv, dbvars
<1>2. CASE ~InitiateStore
  <2>1. mpc \in {"allocate", "record"} /\ cur' = cur
    BY <1>2, AllocationView
  <2>2. cur \in storeRow \cap kStores
    BY <2>1 DEF RowsInv
  <2>3. kStores' = kStores
    BY <1>2, <2>1, StoreView
       DEF AttachWatchers, AttachFails, UndoStore, DeleteStore, QueryUsage
  <2>4. QED
    BY <2>1, <2>2, <2>3, RowStays
<1>3. QED
  BY <1>1, <1>2

LEMMA RowsStep ==
    ASSUME CoreInv, OutInv, "watch" \notin Faults => WatchInv, RowsInv, [Next]_vars
    PROVE  RowsInv'
<1>1. SUFFICES ASSUME NoLeftovers' PROVE RowsInv'
  BY DEF RowsInv
<1>2. OrderlyStep
  BY <1>1, OrderlyIs
<1>3. ASSUME mpc' \in StartStates PROVE fileRow' = {}
  <2>1. mpc \in StartStates /\ ~AttachWatchers
    BY <1>2, <1>3, StartView DEF OrderlyStep, AttachWatchers, StartStates
  <2>2. hpc = "idle" /\ fileRow = {}
    BY <1>2, <2>1 DEF OrderlyStep, CoreInv, QuietStart, RowsInv
  <2>3. QED
    BY <1>2, <2>1, <2>2, FileRowView
       DEF OrderlyStep, RecordInitialFile, DeleteFileRows, InsertFileRow, HandlerDeleteFiles,
           StartStates
<1>4. QED
  BY <1>2, <1>3, StoreRowsAwait, FileRowsAwait, InsertIsCovered, FilesAreGone, AllocationHasStore
     DEF RowsInv

\* worker.go:60-78, manager.go:717-730: when every clean-up is reported and no
\* database call fails, the rows of a store that is gone are on their way out,
\* in whatever order DeleteSnapshot, a failing CreateSnapshot, the watchers and
\* the message handler get there; a process that goes down may leave some.
THEOREM RowsAreCollected ==
    Faults \cap {"bookkeeping", "db", "delete", "store", "watch"} = {}
        => (Spec => [](stops = 0 => RowsAwaitDeletion))
<1>1. SUFFICES ASSUME Faults \cap {"bookkeeping", "db", "delete", "store", "watch"} = {}
               PROVE  Spec => [](stops = 0 => RowsAwaitDeletion)
  OBVIOUS
<1>. DEFINE Inv == PipeInv /\ IssuedStores /\ WatchInv /\ OutInv /\ RowsInv
<1>2. Init => Inv
  <2>1. Init => OutInv /\ RowsInv
    BY DEF Init, DBInit, WatcherInit, OutInv, RowsInv, StartStates
  <2>2. QED
    BY <2>1, WatchInit
<1>3. CoreInv /\ Inv /\ [Next]_vars => Inv'
  <2>. SUFFICES ASSUME CoreInv, Inv, [Next]_vars PROVE Inv'
    OBVIOUS
  <2>1. PipeInv' /\ IssuedStores' /\ WatchInv'
    BY <1>1, PipeStep, WatchStep DEF CoreInv
  <2>2. OutInv' /\ RowsInv'
    BY OutStep, RowsStep DEF CoreInv
  <2>3. QED
    BY <2>1, <2>2
<1>4. CoreInv /\ Inv => (stops = 0 => RowsAwaitDeletion)
  BY <1>1 DEF RowsInv, NoLeftovers, Awaited, NewStore, RowsAwaitDeletion
<1>5. QED
  BY <1>2, <1>3, <1>4, CoreCorrect, PTL DEF Spec

-----------------------------------------------------------------------------
(* Files of stores that are gone *)

\* In the first process, every store has a watcher that listens, until it has
\* read that the store is gone.
FilesInv ==
    stops = 0 /\ "watch" \notin Faults =>
        /\ mpc \in StartStates => dir = {} /\ kStores = {} /\ storeRow = {}
        /\ \A s \in kStores : Listening(s)
        /\ FilesAwaitRemoval

\* Where directories come from and where they go.
LEMMA DirView ==
    ASSUME [Next]_vars
    PROVE  \/ UNCHANGED dir
           \/ InitiateStore
           \/ CleanStorage
           \/ CleanStorageFails
           \/ WatchersStep /\ \E s \in StoreIds : ReadTerminate(s)
<1>1. CASE RequestStep
  BY <1>1 DEF RequestStep, ReuseStore, InsertStoreRow, NoMapping, InitialAllocation,
              RecordInitialFile, TakeSnapshot, CollectInfo, FetchBitmap, RecordSnapshot,
              UndoSnapshot, UndoDone, DeleteFileRows, DeleteStoreRow, DeleteRecord, InsertRows,
              UndoStore, DeleteStore, DeleteVolume, wvars
<1>2. CASE RequestFails \/ NewRequest
  BY <1>2 DEF RequestFails, InitiateFails, TakeSnapshotFails, RowsFail, RecordSnapshotFails,
              DeleteStoreFails, DeleteRecordFails, NewRequest, BeginCreate, BeginDelete, QueryUsage,
              wvars
<1>3. CASE HandlerStep \/ WatchersStep \/ KernelStep
  BY <1>3 DEF HandlerStep, HandleAddFile, InsertFileRow, HandleDeleted, HandlerDeleteFiles,
              HandlerDeleteStore, HandleOverflow, HandleError, WatchersStep, WatcherStep,
              ReadHalfFill, ReadOverflow, ReadError, Send, KernelStep, KEvent, wvars
<1>4. CASE StartStep \/ AttachFails \/ Crash \/ Reboot \/ UNCHANGED vars
  BY <1>4 DEF StartStep, OpenDB, AttachWatchers, AttachFails, Crash, Reboot, StopWatchers, wvars,
              vars
<1>5. QED
  BY <1>1, <1>2, <1>3, <1>4 DEF Next

\* A watcher goes on listening whatever it reads, a termination excepted, and
\* leaves what it has not read in the queue.
LEMMA WatcherGoesOn ==
    ASSUME TypeInv, PipeInv, "watch" \notin Faults, NEW u \in StoreIds, WatcherStep(u),
           NEW s \in StoreIds, Listening(s)
    PROVE  /\ s \in kStores => Listening(s)'
           /\ s \in dir' \ kStores /\ "terminate" \in Range(pipe[s]) =>
                 Listening(s)' /\ "terminate" \in Range(pipe'[s])
<1>0. /\ watch \in [StoreIds -> WatcherStates] /\ pipe \in [StoreIds -> Seq(EventKinds)]
      /\ pipe[s] \in Seq(EventKinds)
  BY DEF TypeInv, WatcherTypeOK, KernelTypeOK
<1>1. CASE ReadTerminate(u)
  <2>1. u \notin kStores /\ dir' = dir \ {u}
    BY <1>1, NextEventRange DEF ReadTerminate, PipeInv
  <2>2. s # u => watch'[s] = watch[s] /\ pipe'[s] = pipe[s]
    BY <1>0, <1>1 DEF ReadTerminate, NextEvent, Report
  <2>3. QED
    BY <2>1, <2>2 DEF Listening
<1>2. CASE ReadHalfFill(u) \/ ReadOverflow(u)
  <2>1. PICK e \in {"halffill", "overflow"} : NextEvent(u, e)
    BY <1>2 DEF ReadHalfFill, ReadOverflow
  <2>2. \E msgs : Report(u, "sending", msgs)
    BY <1>2 DEF ReadHalfFill, ReadOverflow
  <2>3. Listening(s)'
    BY <1>0, <2>2 DEF Report, Listening
  <2>4. CASE s = u
    <3>1. Head(pipe[s]) = e /\ pipe[s] # <<>> /\ pipe'[s] = Tail(pipe[s])
      BY <1>0, <2>1, <2>4 DEF NextEvent
    <3>2. Range(pipe[s]) = Range(pipe'[s]) \cup {e}
      BY <1>0, <3>1, HeadAndTail
    <3>3. QED
      BY <2>3, <3>2
  <2>5. CASE s # u
    BY <1>0, <2>1, <2>3, <2>5 DEF NextEvent
  <2>6. QED
    BY <2>4, <2>5
<1>3. CASE Send(u)
  BY <1>0, <1>3 DEF Send, Listening
<1>4. QED
  BY <1>1, <1>2, <1>3 DEF WatcherStep, ReadError

LEMMA FilesStep ==
    ASSUME TypeInv, PipeInv, FilesInv, [Next]_vars
    PROVE  FilesInv'
<1>1. SUFFICES ASSUME stops' = 0, "watch" \notin Faults
               PROVE  /\ mpc' \in StartStates => dir' = {} /\ kStores' = {} /\ storeRow' = {}
                      /\ \A s \in kStores' : Listening(s)'
                      /\ FilesAwaitRemoval'
  BY DEF FilesInv
<1>2. stops = 0 /\ ~Crash /\ ~Reboot
  BY <1>1, StopsCount DEF TypeInv, Crash, Reboot
<1>3. /\ mpc \in StartStates => dir = {} /\ kStores = {} /\ storeRow = {}
      /\ \A s \in kStores : Listening(s)
      /\ \A s \in dir \ kStores : Listening(s) /\ "terminate" \in Range(pipe[s])
      /\ watch \in [StoreIds -> WatcherStates] /\ pipe \in [StoreIds -> Seq(EventKinds)]
      /\ kStores \subseteq StoreIds /\ dir \subseteq StoreIds /\ storeRow \subseteq StoreIds
  BY <1>1, <1>2 DEF FilesInv, FilesAwaitRemoval, TypeInv, WatcherTypeOK, KernelTypeOK, DBTypeOK
<1>4. CASE mpc' \in StartStates
  <2>1. mpc \in StartStates
    <3>1. ~AttachWatchers
      BY <1>4 DEF AttachWatchers, StartStates
    <3>2. QED
      BY <1>2, <1>4, <3>1, StartView
  <2>2. ~InitiateStore /\ ~(\E s \in StoreIds : UndoStore(s) \/ DeleteStore(s) \/ QueryUsage(s))
        /\ ~(\E d \in Disks : InsertStoreRow(d)) /\ ~AttachFails
    BY <1>3, <2>1 DEF InitiateStore, UndoStore, DeleteStore, QueryUsage, InsertStoreRow, AttachFails,
                      StartStates
  <2>3. kStores' = {} /\ storeRow' = {}
    BY <1>2, <1>3, <2>1, <2>2, StoreView, StoreRowView
       DEF AttachWatchers, KInitiate, InitiateFails, DeleteStoreRow, HandlerDeleteStore
  <2>4. dir' = {}
    BY <1>3, <2>1, <2>2, DirView DEF CleanStorage, CleanStorageFails, ReadTerminate
  <2>5. QED
    BY <2>3, <2>4 DEF FilesAwaitRemoval
<1>5. CASE mpc' \notin StartStates
  <2>1. CASE AttachWatchers
    BY <1>3, <2>1 DEF AttachWatchers, KInitiate, StartStates, FilesAwaitRemoval
  <2>2. CASE InitiateStore
    BY <1>3, <1>5, <2>2
       DEF InitiateStore, KInitiate, StartWatchers, FilesAwaitRemoval, Listening, TypeInv, ManagerOK
  <2>3. CASE WatchersStep
    <3>1. PICK u \in StoreIds : WatcherStep(u)
      BY <2>3 DEF WatchersStep
    <3>2. kStores' = kStores /\ dir' \subseteq dir
      BY <3>1 DEF WatcherStep, ReadHalfFill, ReadOverflow, ReadTerminate, ReadError, Send, kvars
    <3>3. QED
      BY <1>1, <1>3, <1>5, <3>1, <3>2, WatcherGoesOn DEF FilesAwaitRemoval
  <2>4. CASE ~AttachWatchers /\ ~InitiateStore /\ ~WatchersStep
    <3>1. mpc \notin StartStates
      BY <1>2, <1>5, <2>4, StartView
    <3>2. ~AttachFails /\ ~CleanStorage /\ ~CleanStorageFails
      BY <3>1 DEF AttachFails, CleanStorage, CleanStorageFails, StartStates
    <3>3. dir' = dir
      BY <2>4, <3>2, DirView
    <3>4. watch' = watch
      BY <1>2, <2>4, <3>2, QueuesGrow
    <3>5. \A s \in StoreIds : Range(pipe[s]) \subseteq Range(pipe'[s])
      <4>1. ASSUME NEW u \in StoreIds, NEW e \in EventKinds, pipe' = [pipe EXCEPT ![u] = Append(@, e)],
                   NEW s \in StoreIds
            PROVE  Range(pipe[s]) \subseteq Range(pipe'[s])
        BY <1>3, <4>1, RangeFacts
      <4>2. QED
        BY <1>2, <2>4, <3>2, <4>1, QueuesGrow
    <3>6. kStores' \subseteq kStores
      BY <1>2, <2>4, <3>2, StoreView DEF KCleanup
    <3>7. \A s \in kStores \ kStores' : "terminate" \in Range(pipe'[s])
      <4>1. SUFFICES ASSUME NEW s \in kStores \ kStores' PROVE "terminate" \in Range(pipe'[s])
        OBVIOUS
      <4>2. PICK u \in StoreIds : KCleanup(u, Listening(u))
        BY <1>2, <2>4, <3>2, StoreView
      <4>3. s = u /\ Listening(s) /\ s \in StoreIds
        BY <1>3, <4>2 DEF KCleanup
      <4>4. pipe' = [pipe EXCEPT ![s] = Append(@, "terminate")]
        BY <4>2, <4>3 DEF KCleanup
      <4>5. QED
        BY <1>3, <4>3, <4>4, RangeFacts DEF EventKinds
    <3>8. QED
      BY <1>3, <1>5, <3>3, <3>4, <3>5, <3>6, <3>7 DEF FilesAwaitRemoval, Listening
  <2>5. QED
    BY <2>1, <2>2, <2>3, <2>4
<1>6. QED
  BY <1>4, <1>5

\* As long as character devices can be read and directories removed, no step
\* of a process, failing or not, leaves the files of a store that is gone
\* without a watcher that will remove them (character_device_watcher.go:208-291).
THEOREM FilesAreCollected ==
    "watch" \notin Faults => (Spec => [](stops = 0 => FilesAwaitRemoval))
<1>1. SUFFICES ASSUME "watch" \notin Faults PROVE Spec => [](stops = 0 => FilesAwaitRemoval)
  OBVIOUS
<1>2. Init => PipeInv /\ FilesInv
  BY WatchInit DEF Init, KernelInit, DBInit, WatcherInit, FilesInv, FilesAwaitRemoval
<1>3. FilesInv => (stops = 0 => FilesAwaitRemoval)
  BY <1>1 DEF FilesInv
<1>4. QED
  BY <1>2, <1>3, InitTypes, TypeStep, PipeStep, FilesStep, PTL DEF Spec
=============================================================================

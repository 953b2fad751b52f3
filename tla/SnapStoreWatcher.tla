--------------------------- MODULE SnapStoreWatcher ---------------------------
(***************************************************************************)
(* worker/snapstore/character_device_watcher.go: one goroutine per snap    *)
(* store reads the events of the store's character device, adds storage,   *)
(* removes the store's directory when the store is gone, and reports to    *)
(* the manager over a buffered channel.                                    *)
(***************************************************************************)
EXTENDS AgentDB, Functions

CONSTANTS
    MsgCap,  \* capacity of Snapshot.msgChan (50 in manager.go:74)
    Faults   \* the operations that may fail in this model

FaultKinds == {"alloc", "bookkeeping", "db", "delete", "ioctl", "start", "store", "watch"}

ASSUME MsgCapAssumption == MsgCap \in Nat \ {0}
ASSUME FaultsAssumption == Faults \subseteq FaultKinds

VARIABLES
    watch,    \* what the watcher of each store is doing
    out,      \* messages the watcher has yet to put on the channel
    msgChan,  \* Snapshot.msgChan
    dir       \* stores whose directory, with the files in it, exists

wvars == <<watch, out, msgChan, dir>>

WatcherStates == {"none", "reading", "sending", "closing"}
Messages == [type : {"AddFile", "Deleted", "Overflow", "Error"}, store : StoreIds]

Msg(type, s) == [type |-> type, store |-> s]

WatcherTypeOK ==
    /\ watch \in [StoreIds -> WatcherStates]
    /\ out \in [StoreIds -> Seq(Messages)]
    /\ msgChan \in Seq(Messages)
    /\ dir \subseteq StoreIds

WatcherInit ==
    /\ watch = [s \in StoreIds |-> "none"]
    /\ out = [s \in StoreIds |-> <<>>]
    /\ msgChan = <<>>
    /\ dir = {}

\* The process ends: goroutines and channel are gone, the files are not.
StopWatchers ==
    /\ watch' = [s \in StoreIds |-> "none"]
    /\ out' = [s \in StoreIds |-> <<>>]
    /\ msgChan' = <<>>
    /\ UNCHANGED dir

\* Start: charDeviceReader goroutines for the stores in S.
StartWatchers(S) ==
    /\ watch' = [s \in StoreIds |-> IF s \in S THEN "reading" ELSE watch[s]]
    /\ out' = [s \in StoreIds |-> IF s \in S THEN <<>> ELSE out[s]]
    /\ UNCHANGED msgChan

-----------------------------------------------------------------------------
\* How an AllocateStorage call can leave the extents of the store.  It needs
\* the directory (a missing one is an error, line 147-150) and a store to give
\* the ranges to; it may also fail after the ranges were handed over.
AllocateSucceeds(s) ==
    /\ s \in dir
    /\ s \in kStores
    /\ kExtents' = kExtents \cup {s}

AllocateFails(s) ==
    \/ /\ "alloc" \in Faults \/ s \notin dir \/ s \notin kStores
       /\ UNCHANGED kExtents
    \/ /\ "alloc" \in Faults
       /\ s \in dir
       /\ s \in kStores
       /\ kExtents' = kExtents \cup {s}

NextEvent(s, e) ==
    /\ watch[s] = "reading"
    /\ pipe[s] # <<>>
    /\ Head(pipe[s]) = e
    /\ pipe' = [pipe EXCEPT ![s] = Tail(@)]

Report(s, state, msgs) ==
    /\ watch' = [watch EXCEPT ![s] = state]
    /\ out' = [out EXCEPT ![s] = msgs]
    /\ UNCHANGED msgChan

\* halfFillHandler
ReadHalfFill(s) ==
    /\ NextEvent(s, "halffill")
    /\ \/ AllocateSucceeds(s) /\ Report(s, "sending", <<Msg("AddFile", s)>>)
       \/ AllocateFails(s) /\ Report(s, "sending", <<Msg("Error", s)>>)
    /\ UNCHANGED <<kSnap, kIssued, kStores, events, dir>>

\* Mutation: an overflow, being reported as an error, ends the watcher.
OverflowEndsWatcher(s) ==
    /\ NextEvent(s, "overflow")
    /\ Report(s, "closing", <<Msg("Overflow", s), Msg("Error", s)>>)
    /\ UNCHANGED <<kSnap, kIssued, kStores, kExtents, events, dir>>

\* overflowHandler sends the overflow and returns an error, which is sent too.
ReadOverflow(s) ==
    /\ NextEvent(s, "overflow")
    /\ Report(s, "sending", <<Msg("Overflow", s), Msg("Error", s)>>)
    /\ UNCHANGED <<kSnap, kIssued, kStores, kExtents, events, dir>>

\* CHARCMD_TERMINATE: removeSnapStoreFiles, then the watcher is done.
ReadTerminate(s) ==
    /\ NextEvent(s, "terminate")
    /\ \/ /\ dir' = dir \ {s}
          /\ Report(s, "closing", <<Msg("Deleted", s)>>)
       \/ /\ "watch" \in Faults
          /\ dir' = dir
          /\ Report(s, "closing", <<Msg("Error", s)>>)
    /\ UNCHANGED <<kSnap, kIssued, kStores, kExtents, events>>

\* Reading the character device fails: report it and give up.
ReadError(s) ==
    /\ "watch" \in Faults
    /\ watch[s] = "reading"
    /\ Report(s, "closing", <<Msg("Error", s)>>)
    /\ UNCHANGED <<kvars, dir>>

\* Mutation: a message that does not fit in the channel is dropped.
SendOrDrop(s) ==
    /\ out[s] # <<>>
    /\ msgChan' = IF Len(msgChan) < MsgCap THEN Append(msgChan, Head(out[s])) ELSE msgChan
    /\ out' = [out EXCEPT ![s] = Tail(@)]
    /\ watch' = [watch EXCEPT ![s] =
                    IF Tail(out[s]) # <<>> THEN @
                    ELSE IF @ = "closing" THEN "none" ELSE "reading"]
    /\ pipe' = IF watch'[s] = "none" THEN [pipe EXCEPT ![s] = <<>>] ELSE pipe
    /\ UNCHANGED <<kSnap, kIssued, kStores, kExtents, events, dir>>

\* messageChan <- msg: blocks while the channel is full.
Send(s) ==
    /\ out[s] # <<>>
    /\ Len(msgChan) < MsgCap
    /\ msgChan' = Append(msgChan, Head(out[s]))
    /\ out' = [out EXCEPT ![s] = Tail(@)]
    /\ watch' = [watch EXCEPT ![s] =
                    IF Tail(out[s]) # <<>> THEN @
                    ELSE IF @ = "closing" THEN "none" ELSE "reading"]
    /\ pipe' = IF watch'[s] = "none" THEN [pipe EXCEPT ![s] = <<>>] ELSE pipe
    /\ UNCHANGED <<kSnap, kIssued, kStores, kExtents, events, dir>>

WatcherStep(s) ==
    \/ ReadHalfFill(s)
    \/ ReadOverflow(s)
    \/ ReadTerminate(s)
    \/ ReadError(s)
    \/ Send(s)

\* The manager will still be told that the store was deleted.
DeletionPending(s) ==
    \/ watch[s] \in {"reading", "sending"} /\ "terminate" \in Range(pipe[s])
    \/ Msg("Deleted", s) \in Range(out[s])
    \/ Msg("Deleted", s) \in Range(msgChan)
=============================================================================

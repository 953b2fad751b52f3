------------------------------ MODULE VeeamSnap ------------------------------
(***************************************************************************)
(* The veeamsnap kernel module, as the agent sees it through the ioctls of *)
(* internal/ioctl/ioctl.go and through the character device each snap      *)
(* store watcher keeps open.  The module itself is not part of the         *)
(* repository: what is said here is what the agent's calls, comments and   *)
(* error handling rely on.                                                 *)
(*                                                                         *)
(* A snap store serves one disk (db/models.go:35-39: one store per         *)
(* device), so its identifier, a fresh UUID in the code, stands for its    *)
(* disk as well: StoreDisk.  Snapshot identifiers are never handed out     *)
(* twice: the agent uses them as database keys.                            *)
(***************************************************************************)
EXTENDS Naturals, Sequences, FiniteSets

CONSTANTS
    Disks,       \* tracked disks
    StoreIds,    \* identifiers of snap stores
    SnapIds,     \* identifiers of snapshots
    StoreDisk,   \* the disk a snap store serves
    MaxEvents    \* bound of the model on half-fill and overflow events

ASSUME StoreDiskAssumption == StoreDisk \in [StoreIds -> Disks]
ASSUME MaxEventsAssumption == MaxEvents \in Nat

VARIABLES
    kSnap,      \* the disks of each snapshot; {} for one that does not exist
    kIssued,    \* the snapshot identifiers handed out so far
    kStores,    \* the snap stores that exist
    kExtents,   \* the snap stores that were given disk ranges to write to
    pipe,       \* events queued on the character device of each snap store
    events      \* half-fill and overflow events so far (bounded by MaxEvents)

kvars == <<kSnap, kIssued, kStores, kExtents, pipe, events>>

EventKinds == {"halffill", "overflow", "terminate"}

KernelTypeOK ==
    /\ kSnap \in [SnapIds -> SUBSET Disks]
    /\ kIssued \subseteq SnapIds
    /\ kStores \subseteq StoreIds
    /\ kExtents \subseteq StoreIds
    /\ pipe \in [StoreIds -> Seq(EventKinds)]
    /\ events \in Nat

\* A freshly loaded module.
KernelInit ==
    /\ kSnap = [i \in SnapIds |-> {}]
    /\ kIssued = {}
    /\ kStores = {}
    /\ kExtents = {}
    /\ pipe = [s \in StoreIds |-> <<>>]
    /\ events = 0

DisksOf(S) == {StoreDisk[s] : s \in S}

\* A snap store is in use while its disk is part of a snapshot: cleaning it
\* up then only reports how much of it is filled (snapstores.go:65-68).
InUse(s) == \E i \in SnapIds : StoreDisk[s] \in kSnap[i]

-----------------------------------------------------------------------------
\* IOCTL_SNAPSHOT_CREATE.  Every disk needs a snap store (ioctl.go:544-547).
CanSnapshot(D) == D \subseteq DisksOf(kStores) /\ kIssued # SnapIds

KCreateSnapshot(i, D) ==
    /\ CanSnapshot(D)
    /\ i \notin kIssued
    /\ kSnap' = [kSnap EXCEPT ![i] = D]
    /\ kIssued' = kIssued \cup {i}
    /\ UNCHANGED <<kStores, kExtents, pipe, events>>

\* IOCTL_SNAPSHOT_DESTROY of an existing snapshot.
KDeleteSnapshot(i) ==
    /\ kSnap' = [kSnap EXCEPT ![i] = {}]
    /\ UNCHANGED <<kIssued, kStores, kExtents, pipe, events>>

\* IOCTL_SNAPSTORE_CLEANUP.  A store that exists and is not in use is deleted,
\* and the listener on its character device, if it has one, is told so.
KCleanup(s, hasListener) ==
    /\ IF s \in kStores /\ ~InUse(s)
         THEN /\ kStores' = kStores \ {s}
              /\ kExtents' = kExtents \ {s}
              /\ pipe' = IF hasListener
                           THEN [pipe EXCEPT ![s] = Append(@, "terminate")]
                           ELSE pipe
         ELSE UNCHANGED <<kStores, kExtents, pipe>>
    /\ UNCHANGED <<kSnap, kIssued, events>>

\* The INITIATE command written on freshly opened character devices: stores
\* that do not exist are created, empty, the others keep what they have.
KInitiate(S) ==
    /\ kStores' = kStores \cup S
    /\ pipe' = [s \in StoreIds |-> IF s \in S THEN <<>> ELSE pipe[s]]
    /\ UNCHANGED <<kSnap, kIssued, kExtents, events>>

\* Copy-on-write fills a store: the module asks for another portion, or, when
\* the store is full, reports that the snapshot has lost data.
KEvent(s, e) ==
    /\ e \in {"halffill", "overflow"}
    /\ s \in kStores
    /\ InUse(s)
    /\ events < MaxEvents
    /\ events' = events + 1
    /\ pipe' = [pipe EXCEPT ![s] = Append(@, e)]
    /\ UNCHANGED <<kSnap, kIssued, kStores, kExtents>>

\* The process that held the character devices is gone: unread events with it.
KCloseAll ==
    /\ pipe' = [s \in StoreIds |-> <<>>]
    /\ UNCHANGED <<kSnap, kIssued, kStores, kExtents, events>>

\* The machine reboots: nothing the module held survives (README.md:35).
KReboot ==
    /\ kSnap' = [i \in SnapIds |-> {}]
    /\ kStores' = {}
    /\ kExtents' = {}
    /\ pipe' = [s \in StoreIds |-> <<>>]
    /\ UNCHANGED <<kIssued, events>>
=============================================================================

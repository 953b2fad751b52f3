# coriolis-snapshot-agent in TLA+

The agent takes copy-on-write snapshots of block devices. It drives the
`veeamsnap` kernel module with ioctls, gives the module room on local file
systems (*snap stores*), watches each store's character device for events, keeps
a bolt database of what it made, and serves all that over HTTP. A snapshot is
therefore spread over four places (the kernel, the database, a directory of
preallocated files, a watcher goroutine) that no transaction covers. These
modules are about how the four stay in step.

Line numbers refer to files of this repository; `manager.go` is
`worker/manager/manager.go` unless said otherwise.

## 1. Inventory

| Component | State | Operations | Interacts through |
|---|---|---|---|
| Snapshot manager (`worker/manager/manager.go`, `snapstores.go`) | `Snapshot.mux`, local variables of the request that holds it, the map of watchers | `CreateSnapshot`, `DeleteSnapshot`, `ListSnapStores`/`GetSnapStore`, mappings, tracked disks, `GetChangedSectors` | ioctls, database, starts watchers |
| Watcher message handler (`worker/manager/worker.go`) | none but the channel it reads | `handleWatcherMessages`: AddFile, Deleted, Overflow, Error | `msgChan` (50 messages), database; takes no lock |
| Snap store watcher (`worker/snapstore/character_device_watcher.go`) | the character device, the store's directory | INITIATE, initial allocation, half-fill, overflow, terminate | kernel queue in, `msgChan` out, file system |
| Start-up (`initialization.go`, `cmd/.../main.go`, the systemd unit) | is the database new? | open database, clean storage, attach to every recorded store | all of the above |
| Database (`db/db.go`, `db/models.go`) | bolt tables | one bolt transaction per call | called by manager and handler |
| Kernel module (external), `internal/ioctl` | snapshots, stores, extents, CBT maps | create/destroy snapshot, clean up a store, events | ioctls, character devices |
| Changed block tracking (`fetchIncrements`, `GetChangedSectors`) | CBT map, generation, number | full and incremental ranges | kernel bitmap, database |
| Tracked disks, mappings and locations (`AddTrackedDisk`, `CreateSnapStoreMapping`, `snapstore_locations.go`, `initialization.go`) | three tables, the kernel's tracked devices | set up at every start, add a mapping, list | database; mappings take no lock |
| Udev monitor, image download (`internal/storage/udev_monitor.go`, `ConsumeSnapshot`) | map of devices | follow uevents, poll for a device, open the image | polled under the lock; the download locks after its look-up |
| Block device discovery (`internal/storage`, `internal/util`, `config`) | the devices under the destinations | list disks, find what is under a directory, exclude disks that hold CoW files | /sys, /proc |
| HTTP layer, system information | none | routing, encoding, reading /etc and /proc | calls the manager |

What makes the system hard:

* **Concurrency.** Requests exclude each other by `Snapshot.mux`; the message
  handler, a watcher per store, the kernel's events and some requests (mappings,
  listings) do not take that lock.
* **Ordering.** `DeleteSnapshot` deletes a store's rows itself, and the watcher's
  Deleted message has them deleted again, whenever it is handled: possibly after
  the same disk has a new store.
* **Failure.** `CreateSnapshot` undoes what it did with deferred functions that
  test `err`; `DeleteSnapshot` removes the kernel's snapshot first and the rows
  after it; most errors on the way out are logged and forgotten.
* **Names.** A disk, a partition, a device mapper on either, and an image device are
  known by path or by number; numbers are given out again, paths are compared as they are.
* **Restart.** The kernel keeps snapshots, stores and extents when the agent goes
  down; queued events and messages are lost; a store is attached to again by the
  command that would also create it; storage is cleaned iff the database is new. Tracked
  disks, locations and mappings are set up again over what is there.

What makes each part correct:

* the database lists exactly the snapshots that exist (`RegistryMatchesKernel`);
  seen from the API they appear at once, on disks that have none
  (`ImplementsRegistry`);
* nobody removes the store of a live snapshot (`SnapshotKeepsItsStores`,
  `QueryDeletesNothing`), or the files under it (`ExtentsAreBacked`);
* every store has its watcher (`RecordedStoresAreWatched`), and when a store goes
  its directory and rows go too (`RowsAwaitDeletion`, `FilesAwaitRemoval`,
  `DeletedStoresAreForgotten`);
* CoW files and tracked disks keep apart (`LocationsAreNotTracked`), and tables, kernel
  and configuration agree once the agent serves (`TrackedRowsAreTracked`,
  `ConfiguredDisksAreMapped`), and only overlapping requests ever map a disk twice
  (`OneMappingUnlessRaced`);
* a snapshot's image is found among those of others, and waited for, but not for ever
  (`ImageIsOwn`, `AnnouncementsArrive`, `LockIsReleased`);
* the ranges of an incremental backup are the blocks that changed (`RangesAreExact`),
  and a client that chains backups has the disk (`CopyMatchesSnapshot`,
  `FirstBlockMatchesSnapshot`), as if it had copied a whole snapshot each time (`ImplementsBackups`).

The hazards behind these, line by line, are the list `hazards` of `PROJECT.json`.

## 2. Modules

`VeeamSnap` <- `AgentDB` <- `SnapStoreWatcher` <- `SnapshotAgent` (each EXTENDS the
one before) is one system; `SnapshotRegistry` is its abstract specification;
`MCSnapshotAgent` instantiates it for TLC; `SnapshotAgent_proofs`,
`SnapshotAgent_registry`, `SnapshotAgent_storage` and, on top of these,
`SnapshotAgent_stores` hold the proofs.
`ChangeTracking` is a second system, the same requests seen from the data: it has
its own abstract specification, `BackupService`, `MCChangeTracking` and `ChangeTracking_proofs`. The third is the machine's devices:
`BlockDevices` is what they are and what the code finds out about them; `StorageSetup` and
`UdevMonitor` extend it, each a component; `AgentDevices` composes the two with the part of
`CreateSnapshot` that needs both. `MCAgentDevices` instantiates it; `BlockDevices_proofs`,
`StorageSetup_proofs` and `AgentDevices_proofs` hold the proofs.

**VeeamSnap** is the part of the kernel module the agent relies on. It is not in
the repository, so this is an assumption, kept as weak as the agent's calls,
comments and error handling allow:
snapshot identifiers are fresh (they are database keys); a snapshot needs a store
for every disk (`ioctl.go:544-547`); `IOCTL_SNAPSTORE_CLEANUP` deletes a store that no
snapshot's disk uses and reports the usage of one in use (`snapstores.go:64-71`
calls it a delete), telling the listener on the store's device; INITIATE makes a
store that does not exist and attaches to one that does, which is what
`PopulateSnapStoreWatcher` needs; a reboot leaves nothing (`README.md:35`).

**AgentDB** has the tables a snapshot touches, an operator per transaction. A
store's identifier fixes its disk; its file rows count as one (`fileRow`); image rows,
which nothing reads, are left out. The Snapshot row *embeds* copies of the
VolumeSnapshots, as the code's does: `snapRow[i]` is the set of their stores.

**SnapStoreWatcher**: `watch[s]` is the state of the goroutine, `out[s]` the messages
it is blocked on, `msgChan` the bounded channel, `dir` the directories that exist.

**SnapshotAgent** has everything else. As only the holder of `Snapshot.mux` can be
inside `CreateSnapshot` or `DeleteSnapshot`, one program counter `mpc` stands for
requests and start-up, with the locals that survive a step: `req` (the disks),
`todo` (the rest of the loop), `got` (`snapStores`), `sid`, `cur`. `hpc`, `hcur` are the
handler's. A step ends wherever another actor could come in between: before
every ioctl, device write and transaction.

| `mpc` | code | leaves by |
|---|---|---|
| `down`, `clean`, `attach` | `NewManager`, `cleanStorage`, `PopulateSnapStoreWatcher` | `OpenDB`, `CleanStorage`, `AttachWatchers` and their failures |
| `ensure`, `initiate`, `allocate`, `record` | `ensureSnapStoreForDisk`, `CreateSnapStore`, `AllocateInitialStorage`, `RecordSnapStoreFileInDB` | `ReuseStore` ... `RecordInitialFile`, `NoMapping`, `InitiateFails` |
| `ensure` with nothing to do | CBT info, `ioctl.CreateSnapshot` | `TakeSnapshot`, `TakeSnapshotFails` |
| `collect`, `rows`, `bitmap` | the loop of `CreateSnapshot`, `db.CreateSnapshot` | `InsertRows`, `RowsFail`, `FetchBitmap`, `RecordSnapshot`, `RecordSnapshotFails` |
| `undo`, `undostores` | the deferred functions, last first | `UndoSnapshot`, `UndoStore`, `UndoDone` |
| `delstores`, `delfiles`, `delrow`, `delvols` | `DeleteSnapshot`, `db.DeleteSnapshot` | `DeleteStore`, `DeleteFileRows`, `DeleteStoreRow`, `DeleteVolume`, `DeleteRecord` and their failures |

Errors are part of the model where the code lets them through: the constant
`Faults` says which operations may fail.

| `Faults` | what fails |
|---|---|
| `alloc` | creating or mapping a CoW file, or handing its ranges over |
| `bookkeeping` | CBT info, device node, bitmap or database inside the loop of `CreateSnapshot` |
| `db` | a transaction elsewhere in `CreateSnapshot` or in the handler |
| `delete` | a step of `DeleteSnapshot` or of a clean-up |
| `ioctl` | `ioctl.CreateSnapshot` or reading CBT info around it |
| `start` | `cleanStorage`, or INITIATE at start-up |
| `store` | the directory, the character device or INITIATE of a new store |
| `watch` | reading the character device, removing the directory |

**SnapshotRegistry** is what a client of `/snapshots` may rely on: a snapshot covers a
set of disks from one step on, and no disk twice. `ActiveDisks` is the mapping: the
volume rows of a recorded snapshot, as `ListSnapshotsForDisk` joins them.

**ChangeTracking** is one disk, its CBT bitmap, what `CreateSnapshot` stores of it, the
loop of `fetchIncrements`, and a client that asks for changes since its last copy and
downloads the ranges (`README.md:671-821` is its manual). The request under the lock
is at `apc`: `take`, `info` (after the ioctl, `manager.go:552`), `bitmap` (before line 664); the
client's at `cpc`: `scan` (one step per turn of the loop), `lookup` (`controllers.go:229`),
`open` (after line 234). A block in the model is a CBT block; `start` and `length` count
them (`tmpStartSector` is one too). `content`, in rows and in the client's `base`, is history.
Whatever lies behind the kernel module is assumed:

* a block written after snapshot `n` is marked with the next number. The filter
  `bitmap[i] <= prevNumber` (line 791) is only right if so; the example of
  `README.md:25-31` can also be read as marking it with `n`;
* the bitmap that can be read is the latest snapshot's, and the one being written
  starts anew after number 255 (`MaxNumber`), with a new generation (`README.md:36-38`,
  `ioctl.go:103-111`). The generation read with a snapshot is that of its bitmap. This matters:
  were the new generation shown with number 255 already, `previousNumber = 255`
  would hide all later changes of that generation (TLC violates `CopyMatchesSnapshot` when
  the kernel is changed so);
* a snapshot's image appears on a device that shows none, also on one that an earlier
  snapshot has given back (only finding 6 depends on that);
* a reboot starts tracking over with another generation, and the database, in
  `/var/run` (`config.go:40-45`), is gone. The client keeps its copy.

`ForeignSnapshot` is another user of the kernel module, the case of the comments at
`manager.go:590` and `615`. At most `MaxForeign < MaxNumber` of them fall into one request, or its
check for "the next number" proves nothing. Foreign image devices are left out: whenever
one appears, so does a number. `Races` opens two windows of the code: `"bitmap"`, a foreign
snapshot between the CBT info and the bitmap, and `"consume"`, the deletion of a snapshot
between look-up and lock. A client downloads all its ranges in one request; deleting a
snapshot is one step here, since `SnapshotAgent` cuts it.

**BackupService** is what the client may rely on: `Backup` replaces its copy by the content of the
listed snapshot, all at once; a snapshot's content is the disk at one moment of the request
that made it (`Freeze`), and is listed later (`List`) or never (`Abandon`). As there is no snapshot
listed when a new one is frozen, copies never go back. The mapping uses no history: a
listed snapshot is what the image of its row shows. Block 0 is left out (finding 5).

**BlockDevices** has no variables: a machine is a record of what /sys and the mount table
say, and every function is an operator on it. `BlockDeviceList`, `FindAllInvolvedDevices`
and `listDisks` are the code's, the `break` after the first partition included
(`FirstPartition`, `util.go:84-90`). `Below` is the reference: the smallest set that holds a
device and is closed under "partition of" and "slave of"; `PhysicalDisks` are the real disks
in it. While the machine is up a path and a number determine each other, so a device stands
for both; plugging disks in and out while the agent runs is not modelled.

**StorageSetup** is `NewManager` up to the watchers, one step per ioctl and transaction:

| `spc` | code | leaves by |
|---|---|---|
| `down` | `ParseConfig`, `NewManager` to line 76 | `Start`, if `IsAccepted` |
| `locations` | `addSnapStoreFilesLocations`, `AddSnapStoreLocation` | `AddSnapStoreLocation`, then `BeginDisks` |
| `disks` | `initTrackedDisks`, `AddTrackedDisk` | `TrackDisk` (the ioctl), `RecordDisk` (the row), then `BeginMappings` |
| `mappings` | `initStorageMappings`, `CreateSnapStoreMapping` | `MapConfigured`, then `Serve` |
| `running` | requests | `CheckMapping`, `InsertMapping`: look-ups, then the insertion, with no lock over both |

`StartFails` is any error on the way, which removes the database if it was new (`manager.go:78-85`).
The configuration may be another one at every start, but drops no destination while the
database lives, unless `MayDrop`: the database is in /var/run so that it does not have to be
kept consistent with what is configured (`config.go:40-45`). What it would mean is in section 4.

**UdevMonitor** is the map of `udev_monitor.go`, the queue of uevents, and the kernel's image
devices under numbers that are reused. An entry records which image's node it is: the code
only has the node. A removed device stays in the map, as in the code (line 67).

**AgentDevices** follows one disk through `CreateSnapshot`: `upc` is `collect` (after the first
`GetCBTInfo`), `take` (after the images are collected, line 533), `count` (after the ioctl), `find`
(after the second `GetCBTInfo`), `poll` (in `GetUdevDevice`). `taken` is the CBT number before, then
the difference the code tests at line 587. `ForeignSnapshot` and `ForeignDelete` are another user
of the kernel module. Snap stores, volume rows and the undoing of a request are those of
`SnapshotAgent`; here a failed request just ends, with or without its snapshot.

Operators whose comment starts with "Mutation" are not part of the specification: each is
a plausible bug of the definition that follows it, and breaks the property it is
meant for.

## 3. Runs

Two snapshot identifiers in every `Agent` run (a leaked one and a good one, or a deleted
one and its successor), `MsgCap = 1` (a full channel is reached at once; with 50
it is only reached later), at most one kernel event in addition to terminations.

| Run | Instance | Shows |
|---|---|---|
| `AgentConcurrent` | 2 disks, 3 stores (one disk's can be replaced); alloc, ioctl, start | every order of requests, handler, watchers, kernel: `TypeOK`, `RegistryMatchesKernel`, `RowsAwaitDeletion`, `FilesAwaitRemoval`, `QueryDeletesNothing` |
| `AgentFaults` | 2 disks, 2 stores; alloc, db, ioctl, store, watch | `RegistryMatchesKernel`, `SnapshotKeepsItsStores` however a request is undone |
| `AgentRestarts` | 1 disk, 2 stores, every failure but `store` and `watch`, 2 crashes or reboots | `ImplementsRegistry`, `SnapshotKeepsItsStores`, `ExtentsAreBacked`, `RecordedStoresAreWatched` |
| `AgentLiveness` | 1 disk, 2 stores, ioctl failures, fair | `DeletedStoresAreForgotten` |
| `TrackChanges` | 4 blocks, 2 writes, numbers up to 3, 2 generations, 2 foreign snapshots per request | `TrackingTypeOK`, `RangesAreExact`, `CopyMatchesSnapshot` over any chain of backups, `ImplementsBackups` |
| `DevicesSetup` | 2 machines of 8 devices, 3 configurations, 2 mapping requests, 2 images, 2 numbers, 1 attempt, 1 change event, 1 crash or reboot, every failure | `DevicesTypeOK`, `LocationsAreNotTracked`, `TrackedRowsAreTracked`, `ConfiguredDisksAreMapped`, `OneMappingUnlessRaced`, `ImageIsOwn`, `AnnouncementsArrive`, `LockIsReleased` |
| `AgentLeak`, `AgentOverflow`, `AgentUnit`, `AgentStuck`, `TrackFirstBlock`, `TrackConsume` | smallest that shows it | the findings below |

Two disks matter for partial progress (one disk's store made, the next one's not;
half the rows deleted), a second store of a disk for stale messages about the
first; crashes are combined with one disk because the steps they separate are
those of one disk. Two crashes let the second hit the recovery from the first.
`CHECK_DEADLOCK FALSE` is set where a recorded snapshot can outlive the kernel's:
then no request is left that the agent would not refuse.

In `TrackChanges`, four blocks are the fewest with a gap after a block other than the
first, so that `fetchIncrements` takes each of its branches, and two writes the fewest
that make such ranges; three numbers allow two incremental backups on a full one and
then a reset, two generations are one reset or one reboot. `MCSpec` starts with the
same content everywhere and does not interrupt `fetchIncrements`, which reads nothing
that another step writes; `Spec`, and the proofs, have neither restriction.

In `DevicesSetup`, each machine has two disks with partitions, a device mapper, a disk used for
swap and a CD-ROM drive; one has the first location on a partition of the second disk, the
other on a volume group of that disk. Both have the second location on the first disk, which the
first two configurations track: started with the third afterwards, the agent must refuse it.
Two images are the agent's and another user's, or one and its successor under the same
number; two numbers let the images of one disk differ by two, or by the wrong one. One attempt
makes `GetUdevDevice` both find and give up; the stop may hit any step of a start, so the next
start, over whatever is left, is complete. `CHECK_DEADLOCK FALSE`: a machine may have used
up its images. Two requests for a mapping are the fewest that overlap: `OneMappingPerDisk` itself is
false there, and `OneMappingUnlessRaced` says in which behaviours it holds. `MCSpec` leaves out
what cannot matter: other users act only while a request looks for its image, no snapshot is
taken during requests for a mapping or after a second one was made (it needs one, whichever),
images are made in order.

*Fairness* (`FairSpec`): the request in progress, start-up, the handler and each
watcher are scheduled when they can step (goroutines of one Go process, none of
which waits for anything but the channel). Nobody must send requests, the kernel
need not raise events, nothing must fail or crash. In `AgentDevices` only the steps of the request that
holds the lock are fair, none of them a failure: udev owes nothing, and `LockIsReleased` must
hold without it.

Properties that hold only without some failures are run without these on purpose:
`RegistryMatchesKernel` fails with `bookkeeping` and `delete` faults and with crashes
(findings 1 and 4), `RecordedStoresAreWatched` with `watch`. `SnapshotKeepsItsStores` fails
where a store that could not be made (`store`) meets a snapshot that was left behind
(`bookkeeping`, `delete`, a crash), as section 4 describes; that takes three snapshot
identifiers, so with two the bound would hide it. No run combines the two: `AgentFaults` has
`store`, `AgentRestarts` the rest.

## 4. Findings

Each is a run that TLC must find violated.

1. `AgentLeak`. The loop over the devices declares its own `err` (`manager.go:578`): an error
   in it returns without the deferred deletion of the snapshot and its stores
   ("cleanup func in case of error", line 545). The kernel keeps a snapshot that no
   API call can delete.
2. `AgentOverflow`. Volume rows are inserted before their `SnapStore` is set (lines 651,
   669), so the handler never finds the rows of an overflown store to "mark them as
   invalid in the DB" (`worker.go:80`).
3. `AgentUnit`. The sample unit keeps the database in a `RuntimeDirectory` that systemd
   removes when the service stops. The restarted agent takes storage for unused and
   removes files under live extents, against `README.md:148` and `db/models.go:104-107`.
4. `AgentStuck`. A crash inside `DeleteSnapshot`, after the ioctl, leaves a snapshot in the
   database that can no longer be deleted and whose disk is refused for new ones
   (`README.md:148`).
5. `TrackFirstBlock`. `fetchIncrements` takes start 0 for "no range yet" (`manager.go:794`): if block
   0 and a later one have changed, block 0 is not in the ranges, and the backup keeps
   its old content (`README.md:671` promises "a list of changes").
6. `TrackConsume`. `ConsumeSnapshotHandler` looks the image up before it locks
   (`controllers.go:229`): if the snapshot is deleted and another one made in between, the same
   path is the new one's image, served as "a particular snapshot"'s (`README.md:804`).

Seen on the way and not kept as runs: a store whose first allocation failed keeps
its row and is used as it is by the next request (`README.md:597` promises 20% of the
disk); the usage query deletes a store when a deletion stopped half-way
(`snapstores.go:65-68`); a crash between the deletion of a store's row and its watcher's
clean-up leaves the directory for good (`README.md:144`); a crash between the
creation of the database and `cleanStorage` skips the cleaning for good; a foreign
snapshot between CBT info and bitmap (`Races = {"bitmap"}`) pairs a number with a later
bitmap, and the copy misses changes; the snapshot after number 255 is always refused,
since its number is not one higher (`manager.go:587`), and leaks as in finding 1;
a directory that cannot be made leaves the row of its store, since the deferred clean-up
tests `err` and the error is in `mkdirErr` (`snapstores.go:143, 158`). The next request
reuses the row. The kernel refuses it then, unless it still has another store of the disk,
held by a leaked snapshot whose store row a later deletion removed: the new snapshot is recorded
with a store that was never made. Whether the real module takes a second snapshot of a disk
is not for this repository to say.

About devices:

* a location on the second or a later partition of a disk does not keep that disk from being
  tracked, against `config.go:128-134`: the search stops after the first (`util.go:89`). The theorem
  `LaterPartitionsMissed` says so for every machine; `LocationsAreNotTracked` is therefore
  stated for locations the code can judge (`LocationsVisible`);
* a destination dropped from the configuration while the database lives leaves its location
  row: its disk may then be tracked, mappings still lead there, and the listing of locations
  has more rows than places and panics (`snapstore_locations.go:157, 179`). `MayDrop` allows it;
* two requests for a mapping of the same disk can both pass the check (`manager.go:358`) and
  insert; `GetSnapStoreMappingByDeviceID` then takes either. `OneMappingUnlessRaced` and the theorem
  `MappingsUnique` say that nothing else gives a disk two;
* the entry `GetUdevDevice` finds may be an earlier image's under the same number, while the
  new one's announcement is still to come; the code logs a warning at most;
* if, between the two collections of images, another user deletes an image, the request's
  own gets its number, and a third image appears after the second `GetCBTInfo`, the request
  takes the third (the exception in `ImageIsOwn`).

## 5. Proofs

The first ten for any sets of disks, stores and snapshots and any bounds, with `Faults` as
stated, the next four for any number of blocks, contents, generations and bounds, the last ten
for any machines, configurations, requests, images and bounds.

* `TypeCorrect` (`SnapshotAgent_proofs`): `Spec => []TypeOK`. `TypeOK` is not inductive: a step
  uses `sid`, `cur` or `hcur` only where the program counter says they are set. `ManagerOK`
  and `HandlerOK` add that; there is a lemma per group of actions, on lemmas per component
  (`KernelTypes`, `WatcherTypes`).
* `RefinesRegistry` (`SnapshotAgent_registry`): `Spec => ImplementsRegistry`. `RegInv` follows the
  disks of a request from the check under the lock (`~HasSnapshot`) to the row that
  makes them visible: stores collected, then volume rows, are those of the disks
  visited (`RequestInv`), rows only exist for identifiers already issued, so that a new
  snapshot starts with none (`IssuedInv`), and a deletion still has the store of every
  remaining row in its list (`RecordInv`). `RecordSnapshot` is then the abstract `Create`,
  `DeleteVolume` a `Release` or a stutter, losing the database `Forget`, all else a stutter. No
  assumption on failures or crashes.
* `ExtentsStayBacked` (`SnapshotAgent_storage`): `KeepsDB => (Spec => []ExtentsAreBacked)`. A
  termination is queued only for a store that is gone (`PipeInv`), and a start that
  finds no database finds no extents (`StartInv`). `AgentUnit` shows that the assumption
  is needed.
* `StoresAreWatched` (`SnapshotAgent_storage`): `"watch" \notin Faults => (Spec => []RecordedStoresAreWatched)`.
  Stores are only made for identifiers issued before (`IssuedStores`), by a step that
  starts the watcher.

The other six are in `SnapshotAgent_stores`, on one inductive invariant, `CoreInv`, that holds
whatever fails and whenever the process goes down:

| Conjunct | Says |
|---|---|
| `TypeInv`, `RegInv` | the invariants of the first two theorems |
| `QuietStart` | start-up finds no goroutine at work and nothing queued |
| `EndInv` | a store of whose deletion anyone has been told is gone for good: late messages never name a store that exists |
| `DisjointInv`, `DiskInv` | recorded snapshots have no disk in common; kernel, `Snapshot` row and volume rows agree on the disks, as far as a deletion has not got to them |
| `RowPerDisk`, `SoleInv` | a disk has one store row; if `Tidy`, a row whose store is missing does not meet another store of the disk in the kernel |
| `LeakInv`, `NoLeaksInv` | a store without its row is held by a snapshot no row knows of; without the failures that leave snapshots behind there is none |
| `GotInv`, `KeepInv` | the stores a request has collected, and those of a recorded snapshot, exist and have their rows (both if `Tidy`) |
| `ListedInv` | until the process goes down, and if deletions do not fail, a listed disk is in the kernel's snapshot too, but for the one being deleted |

* `StoresAreKept`: `KeepsDB /\ "store" \notin Faults => (Spec => []SnapshotKeepsItsStores)`, with every
  other failure, any number of crashes and reboots. Without `KeepsDB` a store can be left in the
  kernel with no row, so that the kernel takes a snapshot whose own store has gone; with
  `store` failures the same happens by the path of section 4.
* `StoresAreKeptByOneProcess`: `Faults \cap {"bookkeeping", "delete"} = {} => (Spec => [](stops = 0 =>
  SnapshotKeepsItsStores))`. The complement: with nothing leaked, `store` failures do no harm,
  wherever the database is. `stops = 0` says that the process has not gone down yet.
* `RegistryIsExact`: under the same premise, `[](stops = 0 => RegistryMatchesKernel)`. Findings 1 and 4
  show what happens without it.
* `QueriesDeleteNothing`: `MaxStops = 0 /\ "delete" \notin Faults => (Spec => QueryDeletesNothing)`, an action
  property: a query needs a listed snapshot of the store's disk, which by `ListedInv` the kernel
  has as well, so the store is in use and the ioctl only reports.
* `RowsAreCollected`: `Faults \cap {"bookkeeping", "db", "delete", "store", "watch"} = {} => (Spec => [](stops = 0
  => RowsAwaitDeletion))`. `PipeInv`, `WatchInv`, `OutInv` and `RowsInv` follow a deletion from the kernel's
  queue through the watcher and its channel to the handler: at each place the next one is
  still to come.
* `FilesAreCollected`: `"watch" \notin Faults => (Spec => [](stops = 0 => FilesAwaitRemoval))`. `FilesInv`: in the
  first process every store in the kernel has a listening watcher, so the clean-up that
  deletes it has somebody to tell; a handler that fails does not end the watcher, and what it
  has not read stays queued. It does not rest on `CoreInv`.

* `TrackingTypeCorrect` (`ChangeTracking_proofs`): `Spec => []TrackingTypeOK`, with what the program
  counters say of the locals (`LocalsOK`).
* `RangesExact`: `Spec => []RangesAreExact`. `ScanInv` is the loop's invariant: a full backup is
  one range that has grown to `pos`; an incremental one has collected the changed
  blocks below `pos`, but for block 0, which it can only have as a lone first range.
* `CopyFaithful`: `Races = {} => (Spec => []CopyMatchesSnapshot)`. `HistoryInv` says that a block which
  differs between a snapshot somebody still refers to and the disk, or a later
  snapshot of the generation, is marked with a number above the first one's;
  `RequestInv` counts the snapshots since the request began modulo 255, so that a number one
  higher means that nobody else took any; `ImageInv` that a row's image shows its
  content, `ClientInv` that the image looked up is still the row's. `DownloadFaithful` puts them
  together: what was not downloaded has not changed. `TrackConsume` shows why the
  assumption is needed.
* `RefinesBackups`: `Races = {} => (Spec => ImplementsBackups)`, from the same invariants. `TakeSnapshot` is
  the abstract `Freeze`, `ReadBitmap` `List`, a failed request `Abandon`, `Download` a whole `Backup`:
  the blocks downloaded come from the image, and the others equal it already.

* `ExclusionSound`, `ExclusionTight`, `LaterPartitionsMissed` (`BlockDevices_proofs`): on every machine, the
  disks `listDisks` leaves over hold nothing of a device the code sees through (`Shallow`); it
  leaves none out without a reason; it misses later partitions. They rest on lemmas about
  `Below`, which is defined by the sets it is contained in, so a closed set is all they exhibit.
* `RowsTracked`, `DisksMapped` (`AgentDevices_proofs`): `RowsInv` says that rows are of tracked disks, that
  without a database file there are none, that every configured mapping not in `todo` any more
  has its row, and that a mapping row leads to a disk row and a location row.
* `MappingsUnique`: `Spec => ([]WindowsDisjoint => []OneMappingPerDisk)`, for any number of requests and
  with no assumption on the constants. `WindowsDisjoint` is about the behaviour: no two requests are
  between look-up and insertion for the same disk. `MappingsInv`: as long as that is so, a disk
  has no mapping between a request's look-up and its insertion. `Spec` has no fairness, so any
  finite behaviour can stutter for ever: the theorem says that two mappings never come before
  an overlap for some disk.
* `CowFilesOffTrackedDisks`: `LocationsVisible` and `~MayDrop`. `LocationsInv` needs both directions: a
  disk about to be tracked holds no destination (`ExclusionSound`), and every location row is a
  destination of the configuration the disks were listed for.
* `DevicesTypeCorrect`, `OwnImageFound`, `ImageIsAnnounced`: `DevicesInv` says which locals are set
  where, and that the request's image is of its disk. `OwnInv`: the image is there, under a number
  that is among the new ones unless it was among the old; whatever the queue still says of earlier
  images under that number is followed by the announcement of the request's (`Overtaken`), so
  the entry in the map is its own in the end.
* `StorageSetup_proofs` holds the lemmas on set-up alone.

Only model-checked: `DeletedStoresAreForgotten` and `LockIsReleased`, since fairness is outside of
what the prover does, and the findings.

## 6. Plan

Done: the life cycle of snapshots and snap stores and its abstract specification;
changed block tracking from kernel to client and its abstract specification; devices, set-up, mappings, udev and the search for
an image; twenty-four theorems, which state every safety property the passing runs check. What
is left, in this order:

1. Weaker premises: `RowsAreCollected` excludes `db`, `store` and `watch` failures because rows then do
   stay; say which rows, and that nothing else does.
2. What start-up recovers: after a crash with the database kept, which stores, directories and
   rows the next process takes over, as an invariant of `AttachWatchers` and a theorem.

## 7. Not modelled

HTTP routing, parameters and encodings; system information and /sys parsing (pure
input); disks that come and go while the machine is up; a request for several disks that polls
for each in turn (`SnapshotAgent` has its partial failures); the byte layout of ioctl structures; sizes in sectors (stores hold storage or
not; `TotalAllocatedSize` is left out: a request
records the only file of a store before the handler can hear of it); in `SnapshotAgent`, a disk without a mapping is
one for which `NoMapping` happens; `AddCapacityToSnapStore`, which nothing calls, and the
acknowledgement of INITIATE, which ends the watcher only where INITIATE has failed; the order of disks in a request, since they are
visited in any order.

--------------------------- MODULE ChangeTracking ---------------------------
(***************************************************************************)
(* Incremental backups of one disk: changed block tracking in the kernel,  *)
(* the numbers and bitmaps CreateSnapshot stores with a snapshot, the      *)
(* ranges GetChangedSectors makes of them, and a client that keeps a copy  *)
(* of the disk with the ranges it is given, as README.md:671-821 has it.   *)
(* The life cycle of snapshots and their stores is SnapshotAgent's; here   *)
(* creating one is cut where another user of the kernel module could come  *)
(* in, deleting one is a single step.                                      *)
(*                                                                         *)
(* The kernel is an assumption: a block written after snapshot n carries   *)
(* the number of the next one (this is what the filter of manager.go:791   *)
(* needs), the bitmap that can be read is the one of the latest snapshot,  *)
(* and after number MaxNumber (255) bitmap, number and generation start    *)
(* anew (README.md:35-38, ioctl.go:103-111).                               *)
(***************************************************************************)
EXTENDS Naturals, FiniteSets

CONSTANTS
    N,            \* number of tracked blocks of the disk
    Contents,     \* what a block can hold
    Images,       \* image devices of the disk (/dev/veeamimage*)
    Generations,  \* generation identifiers
    MaxNumber,    \* snapshots a generation of the bitmap can tell apart
    Blank,        \* no content: a device that does not exist, no copy yet
    MaxForeign,   \* others' snapshots while a request runs (bound)
    MaxWrites,    \* bound of the model on block writes
    Races         \* windows of the code in which others step in

Blocks == 0 .. N - 1

Disk == [Blocks -> Contents]

ASSUME SizeAssumption == N \in Nat \ {0} /\ MaxNumber \in Nat \ {0}
ASSUME BlankAssumption ==
    /\ Blank \notin Contents
    /\ Blank \notin Disk
    /\ Blank \notin Generations
ASSUME BoundAssumption == MaxForeign \in Nat /\ MaxWrites \in Nat /\ MaxForeign < MaxNumber
ASSUME RacesAssumption == Races \subseteq {"bitmap", "consume"}

VARIABLES
    disk,        \* the tracked disk
    generation,  \* generation of the latest snapshot's bitmap
    used,        \* generations so far
    number,      \* number of the latest snapshot
    marks,       \* the bitmap being written
    frozen,      \* the bitmap as of the latest snapshot
    images,      \* what each image device shows
    writes,      \* block writes so far
    apc,         \* where the holder of Snapshot.mux is
    pre,         \* the number before the snapshot (cbtInfoPreSnap)
    new,         \* the volume snapshot being put together
    foreign,     \* others' snapshots since the request began
    rows,        \* the volume snapshot embedded in a Snapshot row, if any
    cpc,         \* where the client's request is
    base,        \* the snapshot the client copied last
    copy,        \* its copy of the disk
    target,      \* the volume snapshot it asks about
    pos,         \* fetchIncrements: i
    start,       \* tmpStartSector, a block number despite its name
    length,      \* tmpLength, in blocks
    ranges       \* ranges; their order does not matter to the client

kernelVars == <<disk, generation, used, number, marks, frozen, images, writes>>
agentVars == <<apc, pre, new, foreign, rows>>
scanVars == <<pos, start, length, ranges>>
clientVars == <<cpc, base, copy, target, scanVars>>
vars == <<kernelVars, agentVars, clientVars>>

Bitmaps == [Blocks -> 0 .. MaxNumber]

Taken == [image : Images, content : Disk]
Numbered == [image : Images, content : Disk, generation : Generations, number : 1 .. MaxNumber]

\* The column "content" is history: what the disk held at the snapshot.
VolumeSnapshots ==
    [image : Images, content : Disk, generation : Generations, number : 1 .. MaxNumber,
     bitmap : Bitmaps]

Ranges == [start : Blocks, length : 0 .. N]

NoBase == [generation |-> Blank, number |-> 0, content |-> Blank]
Bases == [generation : Generations, number : 1 .. MaxNumber, content : Disk] \cup {NoBase}

TrackingTypeOK ==
    /\ disk \in Disk
    /\ generation \in Generations
    /\ used \subseteq Generations
    /\ number \in 0 .. MaxNumber
    /\ marks \in Bitmaps
    /\ frozen \in Bitmaps
    /\ images \in [Images -> Disk \cup {Blank}]
    /\ writes \in Nat
    /\ apc \in {"idle", "take", "info", "bitmap"}
    /\ pre \in 0 .. MaxNumber
    /\ new \in Taken \cup Numbered \cup {Blank}
    /\ foreign \in Nat
    /\ rows \subseteq VolumeSnapshots
    /\ cpc \in {"idle", "scan", "lookup", "open"}
    /\ base \in Bases
    /\ copy \in [Blocks -> Contents \cup {Blank}]
    /\ target \in VolumeSnapshots \cup {Blank}
    /\ pos \in 0 .. N
    /\ start \in Blocks
    /\ length \in 0 .. N
    /\ ranges \subseteq Ranges

Init ==
    /\ disk \in Disk
    /\ generation \in Generations
    /\ used = {generation}
    /\ number = 0
    /\ marks = [b \in Blocks |-> 0]
    /\ frozen = [b \in Blocks |-> 0]
    /\ images = [m \in Images |-> Blank]
    /\ writes = 0
    /\ apc = "idle" /\ pre = 0 /\ new = Blank /\ foreign = 0
    /\ rows = {}
    /\ cpc = "idle" /\ base = NoBase /\ target = Blank
    /\ copy = [b \in Blocks |-> Blank]
    /\ pos = 0 /\ start = 0 /\ length = 0 /\ ranges = {}

-----------------------------------------------------------------------------
(* The kernel module *)

NextNumber == IF number = MaxNumber THEN 1 ELSE number + 1

NewGeneration ==
    /\ generation' \in Generations \ used
    /\ used' = used \cup {generation'}

\* Mutation: the number is not reset with the bitmap.
SwitchMapOnly ==
    /\ number' = number + 1
    /\ frozen' = marks
    /\ marks' = IF NextNumber = MaxNumber THEN [b \in Blocks |-> 0] ELSE marks
    /\ \/ number # MaxNumber /\ UNCHANGED <<generation, used>>
       \/ number = MaxNumber /\ NewGeneration

\* What any snapshot of the disk does to its bitmap.
SwitchMap ==
    /\ number' = NextNumber
    /\ frozen' = marks
    /\ marks' = IF NextNumber = MaxNumber THEN [b \in Blocks |-> 0] ELSE marks
    /\ \/ number # MaxNumber /\ UNCHANGED <<generation, used>>
       \/ number = MaxNumber /\ NewGeneration

Write(b, c) ==
    /\ writes < MaxWrites
    /\ disk' = [disk EXCEPT ![b] = c]
    /\ marks' = [marks EXCEPT ![b] = NextNumber]
    /\ writes' = writes + 1
    /\ UNCHANGED <<generation, used, number, frozen, images, agentVars, clientVars>>

\* Another user of the module takes a snapshot of the disk.
ForeignSnapshot ==
    /\ apc = "bitmap" => "bitmap" \in Races
    /\ IF apc = "idle" THEN UNCHANGED foreign
                       ELSE foreign < MaxForeign /\ foreign' = foreign + 1
    /\ SwitchMap
    /\ UNCHANGED <<disk, images, writes, apc, pre, new, rows, clientVars>>

\* Tracking starts over; the database is in /var/run (config.go:45) and gone.
Reboot ==
    /\ NewGeneration
    /\ number' = 0
    /\ marks' = [b \in Blocks |-> 0]
    /\ frozen' = [b \in Blocks |-> 0]
    /\ images' = [m \in Images |-> Blank]
    /\ apc' = "idle" /\ pre' = 0 /\ new' = Blank /\ foreign' = 0
    /\ rows' = {}
    /\ cpc' = "idle" /\ target' = Blank
    /\ pos' = 0 /\ start' = 0 /\ length' = 0 /\ ranges' = {}
    /\ UNCHANGED <<disk, writes, base, copy>>

-----------------------------------------------------------------------------
(* CreateSnapshot and DeleteSnapshot, as far as one disk's CBT goes *)

\* The lock is taken, the disk has no snapshot; CBT info before the new one.
BeginSnapshot ==
    /\ apc = "idle"
    /\ rows = {}
    /\ apc' = "take"
    /\ pre' = number
    /\ foreign' = 0
    /\ UNCHANGED <<kernelVars, new, rows, clientVars>>

\* ioctl.CreateSnapshot: the image appears on a device that is free.
TakeSnapshot(m) ==
    /\ apc = "take"
    /\ images[m] = Blank
    /\ SwitchMap
    /\ images' = [images EXCEPT ![m] = disk]
    /\ new' = [image |-> m, content |-> disk]
    /\ apc' = "info"
    /\ UNCHANGED <<disk, writes, pre, foreign, rows, clientVars>>

\* Mutation: whatever number the kernel is at is taken for the snapshot's.
TrustCBTInfo ==
    /\ apc = "info"
    /\ new' = [image |-> new.image, content |-> new.content,
               generation |-> generation, number |-> number]
    /\ apc' = "bitmap"
    /\ UNCHANGED <<kernelVars, pre, foreign, rows, clientVars>>

\* CBT info after the snapshot: the number must be the next one.
ReadCBTInfo ==
    /\ apc = "info"
    /\ number = pre + 1
    /\ new' = [image |-> new.image, content |-> new.content,
               generation |-> generation, number |-> number]
    /\ apc' = "bitmap"
    /\ UNCHANGED <<kernelVars, pre, foreign, rows, clientVars>>

\* GetCBTBitmap, and the row.
ReadBitmap ==
    /\ apc = "bitmap"
    /\ rows' = rows \cup {[image |-> new.image, content |-> new.content,
                           generation |-> new.generation, number |-> new.number,
                           bitmap |-> frozen]}
    /\ apc' = "idle"
    /\ pre' = 0 /\ new' = Blank /\ foreign' = 0
    /\ UNCHANGED <<kernelVars, clientVars>>

\* The number is not the next one, or something else fails; the kernel's
\* snapshot is deleted or, for errors of the loop, left behind.
SnapshotFails ==
    /\ apc # "idle"
    /\ \/ UNCHANGED images
       \/ apc # "take" /\ images' = [images EXCEPT ![new.image] = Blank]
    /\ apc' = "idle"
    /\ pre' = 0 /\ new' = Blank /\ foreign' = 0
    /\ UNCHANGED <<disk, generation, used, number, marks, frozen, writes, rows, clientVars>>

DeleteSnapshot(r) ==
    /\ apc = "idle"
    /\ r \in rows
    /\ cpc = "open" /\ target = r => "consume" \in Races
    /\ rows' = rows \ {r}
    /\ images' = [images EXCEPT ![r.image] = Blank]
    /\ UNCHANGED <<disk, generation, used, number, marks, frozen, writes,
                   apc, pre, new, foreign, clientVars>>

-----------------------------------------------------------------------------
(* GetChangedSectors, fetchIncrements *)

\* Mutation: the number is not reset if the generation is another one.
TrustBaseNumber == base.number

\* previousNumber, reset to 0 for a full backup.
PreviousNumber ==
    IF base.number = 0 \/ base.generation # target.generation THEN 0 ELSE base.number

\* What is new to the client, according to the bitmap.
Changed(b) == PreviousNumber < target.bitmap[b] /\ target.bitmap[b] <= target.number

\* The client asks for what changed since its last copy.
AskChanges(r) ==
    /\ cpc = "idle"
    /\ r \in rows
    /\ cpc' = "scan"
    /\ target' = r
    /\ pos' = 0 /\ start' = 0 /\ length' = 0 /\ ranges' = {}
    /\ UNCHANGED <<kernelVars, agentVars, base, copy>>

CurrentRange == [start |-> start, length |-> length]

SkipBlock ==
    /\ PreviousNumber # 0 /\ ~Changed(pos)
    /\ UNCHANGED <<start, length, ranges>>

\* tmpStartSector is still 0: taken for "no range yet".
FirstRange ==
    /\ PreviousNumber # 0 /\ Changed(pos) /\ start = 0
    /\ start' = pos
    /\ length' = 1
    /\ UNCHANGED ranges

\* Mutation: a gap ends the range without it being kept.
DropRange ==
    /\ PreviousNumber # 0 => Changed(pos) /\ start # 0
    /\ start + length # pos
    /\ start' = pos
    /\ length' = 1
    /\ UNCHANGED ranges

NextRange ==
    /\ PreviousNumber # 0 => Changed(pos) /\ start # 0
    /\ start + length # pos
    /\ ranges' = ranges \cup {CurrentRange}
    /\ start' = pos
    /\ length' = 1

ExtendRange ==
    /\ PreviousNumber # 0 => Changed(pos) /\ start # 0
    /\ start + length = pos
    /\ length' = length + 1
    /\ UNCHANGED <<start, ranges>>

\* One turn of the loop.
ScanBlock ==
    /\ cpc = "scan"
    /\ pos < N
    /\ SkipBlock \/ FirstRange \/ NextRange \/ ExtendRange
    /\ pos' = pos + 1
    /\ UNCHANGED <<kernelVars, agentVars, cpc, base, copy, target>>

ScanEnds ==
    /\ cpc = "scan"
    /\ pos = N
    /\ ranges' = ranges \cup {CurrentRange}
    /\ cpc' = "lookup"
    /\ UNCHANGED <<kernelVars, agentVars, base, copy, target, pos, start, length>>

-----------------------------------------------------------------------------
(* ConsumeSnapshotHandler *)

EndRequest ==
    /\ cpc' = "idle"
    /\ target' = Blank
    /\ pos' = 0 /\ start' = 0 /\ length' = 0 /\ ranges' = {}

\* FindVolumeSnapshotForDisk, before the lock is taken.
FindVolumeSnapshot ==
    /\ cpc = "lookup"
    /\ \/ /\ target \in rows
          /\ cpc' = "open"
          /\ UNCHANGED <<target, scanVars>>
       \/ target \notin rows /\ EndRequest
    /\ UNCHANGED <<kernelVars, agentVars, base, copy>>

Interval(r) == r.start .. (r.start + r.length - 1)

Covered == UNION {Interval(r) : r \in ranges}

\* With the lock: the image device that was looked up is opened and read.
Download ==
    /\ cpc = "open"
    /\ apc = "idle"
    /\ images[target.image] # Blank
    /\ copy' = [b \in Blocks |-> IF b \in Covered THEN images[target.image][b] ELSE copy[b]]
    /\ base' = [generation |-> target.generation, number |-> target.number,
                content |-> target.content]
    /\ EndRequest
    /\ UNCHANGED <<kernelVars, agentVars>>

DownloadFails ==
    /\ cpc = "open"
    /\ apc = "idle"
    /\ images[target.image] = Blank
    /\ EndRequest
    /\ UNCHANGED <<kernelVars, agentVars, base, copy>>

-----------------------------------------------------------------------------
KernelStep ==
    \/ \E b \in Blocks, c \in Contents : Write(b, c)
    \/ ForeignSnapshot
    \/ Reboot

AgentStep ==
    \/ BeginSnapshot
    \/ \E m \in Images : TakeSnapshot(m)
    \/ ReadCBTInfo
    \/ ReadBitmap
    \/ SnapshotFails
    \/ \E r \in rows : DeleteSnapshot(r)

ClientStep ==
    \/ \E r \in rows : AskChanges(r)
    \/ ScanBlock
    \/ ScanEnds
    \/ FindVolumeSnapshot
    \/ Download
    \/ DownloadFails

Next == KernelStep \/ AgentStep \/ ClientStep

Spec == Init /\ [][Next]_vars

-----------------------------------------------------------------------------
(* Properties *)

CopyMatches(B) ==
    base # NoBase => \A b \in B : copy[b] = base.content[b]

\* After every download, over any chain of full and incremental ones, the
\* client's copy is the disk as it was at the snapshot, the first block apart
\* (GetChangedSectors, fetchIncrements, the CBT part of CreateSnapshot).
CopyMatchesSnapshot == CopyMatches(Blocks \ {0})

\* The first block is copied as well ("fetch a list of changes from a
\* previous snapshot", README.md:671).
FirstBlockMatchesSnapshot == CopyMatches({0})

\* The ranges fetchIncrements returns are the blocks that changed, all but
\* possibly the first, and no other; or all blocks for a full backup.
RangesAreExact ==
    cpc \in {"lookup", "open"} =>
        IF PreviousNumber = 0
        THEN Covered = Blocks
        ELSE /\ {b \in Blocks \ {0} : Changed(b)} \subseteq Covered
             /\ Covered \subseteq {b \in Blocks : Changed(b)}

-----------------------------------------------------------------------------
(* What a client may rely on *)

\* The blocks fetchIncrements reports reliably.
LaterBlocks == Blocks \ {0}

Later(f) == [b \in LaterBlocks |-> f[b]]

\* What can be read of a snapshot is what its image device shows.
Backups == INSTANCE BackupService WITH
    Blocks <- LaterBlocks,
    Missing <- Blank,
    disk <- Later(disk),
    pending <- IF apc \in {"info", "bitmap"} THEN {Later(images[new.image])} ELSE {},
    snapshot <- {Later(images[r.image]) : r \in rows},
    copy <- Later(copy)

\* Asking for the changes since the last copy and downloading these is the
\* same as copying the listed snapshot, whatever was deleted, missed, reset or
\* rebooted in between (GetChangedSectors, ConsumeSnapshotHandler).
ImplementsBackups == Backups!Spec
=============================================================================

------------------------------ MODULE AgentDevices ------------------------------
(***************************************************************************)
(* The devices a snapshot is about, composed: the disk that is tracked and *)
(* the location its CoW files are mapped to (StorageSetup), and the image  *)
(* device on which it appears (UdevMonitor), for which CreateSnapshot      *)
(* looks, and waits, while it holds Snapshot.mux.                          *)
(***************************************************************************)
EXTENDS StorageSetup, UdevMonitor, Integers

CONSTANTS
    NoNumber,
    MaxAttempts,    \* the attempts of GetUdevDevice, 60 in the code
    MaxStops        \* bound of the model on how often the process goes down

ASSUME AttemptsAssumption == MaxAttempts \in Nat /\ MaxStops \in Nat
ASSUME NumbersAssumption == NoNumber \notin Numbers

VARIABLES
    upc,        \* where the request holding the lock is
    disk,       \* the disk of its snapshot
    taken,      \* cbtInfoPreSnap, then what cbtInfoPostSnap adds to it
    pre,        \* imgsPreSnap: the images of that disk before the snapshot
    own,        \* the image the kernel made for it
    number,     \* images[0]: the new image, as far as the request can tell
    attempts,   \* of GetUdevDevice
    imageRow,   \* the images in the database
    stops       \* how often the process went down (bounded by MaxStops)

reqvars == <<upc, disk, taken, pre, own, number, attempts>>
vars == <<setupvars, udevvars, reqvars, imageRow, stops>>

\* node is the image whose device node is recorded as DevicePath.
ImageRow == [disk : Devices, number : Numbers, image : Images, node : Images]

DevicesTypeOK ==
    /\ SetupTypeOK
    /\ UdevTypeOK
    /\ upc \in {"idle", "collect", "take", "count", "find", "poll"}
    /\ disk \in Devices \cup {NoDisk}
    /\ taken \in Int
    /\ pre \subseteq Numbers
    /\ own \in Images \cup {NoImage}
    /\ number \in Numbers \cup {NoNumber}
    /\ attempts \in 0 .. MaxAttempts
    /\ imageRow \subseteq ImageRow
    /\ stops \in Nat

RequestEnds ==
    /\ upc' = "idle"
    /\ disk' = NoDisk
    /\ taken' = 0
    /\ pre' = {}
    /\ own' = NoImage
    /\ number' = NoNumber
    /\ attempts' = 0

Init ==
    /\ SetupInit
    /\ UdevInit
    /\ upc = "idle" /\ disk = NoDisk /\ taken = 0 /\ pre = {}
    /\ own = NoImage /\ number = NoNumber /\ attempts = 0
    /\ imageRow = {}
    /\ stops = 0

-----------------------------------------------------------------------------
(* CreateSnapshot and DeleteSnapshot, as far as devices go *)

\* The number of the last snapshot in the CBT map of a disk.  It counts on for
\* as long as the disk is tracked; only differences are used.
SnapNumber(d) == Cardinality({i \in Images : diskOf[i] = d})

\* A tracked disk without a snapshot, and a mapping that leads to a location.
\* The CBT information before the snapshot is read ...
BeginSnapshot(d) ==
    /\ spc = "running"
    /\ upc = "idle"
    /\ d \in diskRow
    /\ \A row \in imageRow : row.disk # d
    /\ \E row \in mapRow : row.device = d /\ row.location \in locRow
    /\ upc' = "collect"
    /\ disk' = d
    /\ taken' = SnapNumber(d)
    /\ UNCHANGED <<setupvars, udevvars, pre, own, number, attempts, imageRow, stops>>

\* ... and the images that are there already are collected.
CollectImages ==
    /\ upc = "collect"
    /\ upc' = "take"
    /\ pre' = ImagesOf(disk)
    /\ UNCHANGED <<setupvars, udevvars, disk, taken, own, number, attempts, imageRow, stops>>

\* ioctl.CreateSnapshot
TakeSnapshot ==
    /\ upc = "take"
    /\ \E n \in Numbers, i \in Images : CreateImage(n, i, disk) /\ own' = i
    /\ upc' = "count"
    /\ UNCHANGED <<setupvars, disk, taken, pre, number, attempts, imageRow, stops>>

\* The kernel has no image to give (or the model has used up all of Images).
CannotTake ==
    /\ upc = "take"
    /\ (\A n \in Numbers : image[n] # NoImage) \/ (\A i \in Images : diskOf[i] # NoDisk)
    /\ RequestEnds
    /\ UNCHANGED <<setupvars, udevvars, imageRow, stops>>

\* The CBT information after it.
CountSnapshots ==
    /\ upc = "count"
    /\ upc' = "find"
    /\ taken' = SnapNumber(disk) - taken
    /\ UNCHANGED <<setupvars, udevvars, disk, pre, own, number, attempts, imageRow, stops>>

\* Mutation: any new image will do.
FindAnyImage ==
    /\ upc = "find"
    /\ number' \in ImagesOf(disk) \ pre
    /\ upc' = "poll"
    /\ UNCHANGED <<setupvars, udevvars, disk, taken, pre, own, attempts, imageRow, stops>>

\* The images are collected again.  The disk must have had one snapshot more,
\* and exactly one of the images must be new.
FindImage ==
    /\ upc = "find"
    /\ taken = 1
    /\ \E n \in Numbers : ImagesOf(disk) \ pre = {n} /\ number' = n
    /\ upc' = "poll"
    /\ UNCHANGED <<setupvars, udevvars, disk, taken, pre, own, attempts, imageRow, stops>>

\* Otherwise the request fails and leaves the snapshot behind: the err of the
\* loop over the devices is not the one the deferred functions look at.
CannotTell ==
    /\ upc = "find"
    /\ taken # 1 \/ \A n \in Numbers : ImagesOf(disk) \ pre # {n}
    /\ RequestEnds
    /\ UNCHANGED <<setupvars, udevvars, imageRow, stops>>

\* An ioctl or a transaction fails.  Up to the collection of the images, the
\* snapshot is deleted again, if that ioctl does not fail as well.
RequestFails ==
    /\ Failures
    /\ upc # "idle"
    /\ RequestEnds
    /\ \/ upc \in {"count", "find"} /\ \E n \in Numbers : image[n] = own /\ RemoveImage(n)
       \/ UNCHANGED udevvars
    /\ UNCHANGED <<setupvars, imageRow, stops>>

\* GetUdevDevice finds an entry, of whatever status, and the image is recorded.
DetectImage ==
    /\ upc = "poll"
    /\ attempts < MaxAttempts
    /\ IsDetected(number)
    /\ imageRow' = imageRow \cup
          {[disk |-> disk, number |-> number, image |-> own, node |-> devices[number].image]}
    /\ RequestEnds
    /\ UNCHANGED <<setupvars, udevvars, stops>>

\* Mutation: the attempts are counted, but not limited.
WaitLonger ==
    /\ upc = "poll"
    /\ ~IsDetected(number)
    /\ attempts' = attempts + 1
    /\ UNCHANGED <<setupvars, udevvars, upc, disk, taken, pre, own, number, imageRow, stops>>

\* Mutation: the attempts are not counted.
WaitForever ==
    /\ upc = "poll"
    /\ attempts < MaxAttempts
    /\ ~IsDetected(number)
    /\ UNCHANGED <<setupvars, udevvars, reqvars, imageRow, stops>>

\* It finds none and sleeps for a second, with the manager locked ...
WaitForImage ==
    /\ upc = "poll"
    /\ attempts < MaxAttempts
    /\ ~IsDetected(number)
    /\ attempts' = attempts + 1
    /\ UNCHANGED <<setupvars, udevvars, upc, disk, taken, pre, own, number, imageRow, stops>>

\* ... but not for ever.
GiveUp ==
    /\ upc = "poll"
    /\ attempts >= MaxAttempts
    /\ RequestEnds
    /\ UNCHANGED <<setupvars, udevvars, imageRow, stops>>

DeleteSnapshot(row) ==
    /\ spc = "running"
    /\ upc = "idle"
    /\ row \in imageRow
    /\ \E n \in Numbers : image[n] = row.image /\ RemoveImage(n)
    /\ imageRow' = imageRow \ {row}
    /\ UNCHANGED <<setupvars, reqvars, stops>>

\* The request that holds the lock, when nothing fails.
RequestStep ==
    \/ CollectImages
    \/ TakeSnapshot
    \/ CannotTake
    \/ CountSnapshots
    \/ FindImage
    \/ CannotTell
    \/ DetectImage
    \/ WaitForImage
    \/ GiveUp

-----------------------------------------------------------------------------
(* Everybody else *)

\* Another user of the kernel module, the case of manager.go:615, makes and
\* deletes snapshots of its own.
ForeignSnapshot ==
    /\ \E n \in Numbers, i \in Images, d \in kTracked : CreateImage(n, i, d)
    /\ UNCHANGED <<setupvars, reqvars, imageRow, stops>>

ForeignDelete(n) ==
    /\ image[n] # own
    /\ \A row \in imageRow : row.image # image[n]
    /\ RemoveImage(n)
    /\ UNCHANGED <<setupvars, reqvars, imageRow, stops>>

Change(n) ==
    /\ ChangeImage(n)
    /\ UNCHANGED <<setupvars, reqvars, imageRow, stops>>

Announce ==
    /\ IF spc = "down" THEN MissUevent ELSE HandleUevent
    /\ UNCHANGED <<setupvars, reqvars, imageRow, stops>>

\* The process goes down; the database may go with it, since systemd removes
\* the directory it is in.
Crash ==
    /\ stops < MaxStops
    /\ stops' = stops + 1
    /\ StopSetup
    /\ StopMonitor
    /\ RequestEnds
    /\ \/ LoseRows /\ imageRow' = {}
       \/ UNCHANGED <<dbFile, rows, imageRow>>

Reboot ==
    /\ stops < MaxStops
    /\ stops' = stops + 1
    /\ RebootSetup
    /\ RebootUdev
    /\ RequestEnds
    /\ imageRow' = {}

Next ==
    \/ (SetupStep \/ MappingStep) /\ UNCHANGED <<udevvars, reqvars, imageRow, stops>>
    \/ \E d \in Devices : BeginSnapshot(d)
    \/ RequestStep
    \/ RequestFails
    \/ \E row \in imageRow : DeleteSnapshot(row)
    \/ ForeignSnapshot
    \/ \E n \in Numbers : ForeignDelete(n) \/ Change(n)
    \/ Announce
    \/ Crash
    \/ Reboot

Spec == Init /\ [][Next]_vars

\* A request in progress is scheduled; udev owes it nothing.
FairSpec == Spec /\ WF_vars(RequestStep)

-----------------------------------------------------------------------------
(* Properties *)

\* CreateSnapshot waits for, and records, the image of its own snapshot, not
\* one somebody else made meanwhile, unless its image was given a number whose
\* image was deleted since it looked (manager.go:599-616).
ImageIsOwn ==
    upc = "poll" => image[number] = own \/ \E n \in pre : image[n] = own

\* What GetUdevDevice waits for is on its way: the entry under the number of
\* the new image is that of the image, or udev has yet to announce it.
AnnouncementsArrive ==
    upc \in {"count", "find", "poll"} =>
        \E n \in Numbers :
            /\ image[n] = own
            /\ \/ devices[n].image = own
               \/ \E k \in DOMAIN uevents : uevents[k] = Announcement("add", n, own)

\* The lock CreateSnapshot holds while it waits for udev is released, even if
\* udev never says a word (GetUdevDevice).
LockIsReleased == (upc # "idle") ~> (upc = "idle")
=============================================================================

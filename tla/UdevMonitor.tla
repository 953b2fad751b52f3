------------------------------ MODULE UdevMonitor ------------------------------
(***************************************************************************)
(* internal/storage/udev_monitor.go: the map from device numbers to the    *)
(* block devices udev has announced, and the image devices it is for.      *)
(*                                                                         *)
(* The kernel gives every snapshot of a disk an image device, under a      *)
(* number that is free, and takes it away with the snapshot; udev          *)
(* announces both, in order and some time later.  In the map, the device   *)
(* node of an entry is represented by the image it was the node of.        *)
(***************************************************************************)
EXTENDS BlockDevices, Naturals

CONSTANTS
    Numbers,    \* major and minor numbers of image devices
    Images,     \* the image devices that ever exist
    NoImage,
    NoDisk,
    MaxChanges  \* bound of the model on the change events that are pending

ASSUME ImagesAssumption ==
    IsFiniteSet(Images) /\ NoImage \notin Images /\ NoDisk \notin Devices
ASSUME ChangesAssumption == MaxChanges \in Nat

VARIABLES
    image,      \* the image device behind a number
    diskOf,     \* the disk an image is, or was, of
    uevents,    \* what udev has yet to announce
    devices     \* UdevMonitor.devices

udevvars == <<image, diskOf, uevents, devices>>

Uevent == [action : {"add", "remove", "change"}, number : Numbers, image : Images]

\* "none" stands for a number that is not in the map; a removed device has a
\* status that nothing sets.
Entry == [status : {"none", "active", "unknown", "unset"}, image : Images \cup {NoImage}]
NoEntry == [status |-> "none", image |-> NoImage]

UdevTypeOK ==
    /\ image \in [Numbers -> Images \cup {NoImage}]
    /\ diskOf \in [Images -> Devices \cup {NoDisk}]
    /\ uevents \in Seq(Uevent)
    /\ devices \in [Numbers -> Entry]

UdevInit ==
    /\ image = [n \in Numbers |-> NoImage]
    /\ diskOf = [i \in Images |-> NoDisk]
    /\ uevents = <<>>
    /\ devices = [n \in Numbers |-> NoEntry]

-----------------------------------------------------------------------------
(* The kernel and udev *)

Announcement(action, n, i) == [action |-> action, number |-> n, image |-> i]

\* What CollectSnapshotImages reports of a disk.
ImagesOf(d) == {n \in Numbers : image[n] # NoImage /\ diskOf[image[n]] = d}

CreateImage(n, i, d) ==
    /\ image[n] = NoImage
    /\ diskOf[i] = NoDisk
    /\ image' = [image EXCEPT ![n] = i]
    /\ diskOf' = [diskOf EXCEPT ![i] = d]
    /\ uevents' = Append(uevents, Announcement("add", n, i))
    /\ UNCHANGED devices

RemoveImage(n) ==
    /\ image[n] # NoImage
    /\ image' = [image EXCEPT ![n] = NoImage]
    /\ uevents' = Append(uevents, Announcement("remove", n, image[n]))
    /\ UNCHANGED <<diskOf, devices>>

ChangeImage(n) ==
    /\ image[n] # NoImage
    /\ Len(SelectSeq(uevents, LAMBDA e : e.action = "change")) < MaxChanges
    /\ uevents' = Append(uevents, Announcement("change", n, image[n]))
    /\ UNCHANGED <<image, diskOf, devices>>

-----------------------------------------------------------------------------
(* UdevMonitor *)

\* Mutation: an entry that is there already is kept.
StoreOnce(e) ==
    devices' = IF devices[e.number].status = "none"
               THEN [devices EXCEPT ![e.number] =
                        [status |-> CASE e.action = "add" -> "active"
                                      [] e.action = "remove" -> "unset"
                                      [] OTHER -> "unknown",
                         image |-> e.image]]
               ELSE devices

\* One turn of the loop of Start.  A removed device is deleted from the map,
\* and then stored like any other.
StoreEntry(e) ==
    devices' = [devices EXCEPT ![e.number] =
                   [status |-> CASE e.action = "add" -> "active"
                                 [] e.action = "remove" -> "unset"
                                 [] OTHER -> "unknown",
                    image |-> e.image]]

HandleUevent ==
    /\ uevents # <<>>
    /\ StoreEntry(Head(uevents))
    /\ uevents' = Tail(uevents)
    /\ UNCHANGED <<image, diskOf>>

\* Nobody listens while the process is down.
MissUevent ==
    /\ uevents # <<>>
    /\ uevents' = Tail(uevents)
    /\ UNCHANGED <<image, diskOf, devices>>

\* GetUdevDevice: whatever the map has.
IsDetected(n) == devices[n].status # "none"

StopMonitor ==
    /\ devices' = [n \in Numbers |-> NoEntry]
    /\ UNCHANGED <<image, diskOf, uevents>>

RebootUdev ==
    /\ image' = [n \in Numbers |-> NoImage]
    /\ devices' = [n \in Numbers |-> NoEntry]
    /\ uevents' = <<>>
    /\ UNCHANGED diskOf
=============================================================================

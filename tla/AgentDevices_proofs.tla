---------------------------- MODULE AgentDevices_proofs ----------------------------
(***************************************************************************)
(* Theorems about AgentDevices, for any machines, configurations, requests *)
(* and images, whatever fails and whenever the process or the machine goes *)
(* down.                                                                   *)
(***************************************************************************)
EXTENDS AgentDevices, StorageSetup_proofs, FiniteSetTheorems

\* A step of the composition is one of the set-up, or leaves it alone.
LEMMA SetupOrFrame == [Next]_vars => SetupNext \/ UNCHANGED setupvars
<1> SUFFICES ASSUME [Next]_vars
             PROVE  SetupNext \/ UNCHANGED setupvars
  OBVIOUS
<1>1. CASE Crash
  BY <1>1 DEF Crash, SetupNext, SetupEnds, LoseRows, rows
<1>2. CASE Reboot
  BY <1>2 DEF Reboot, SetupNext, SetupEnds
<1>3. CASE (SetupStep \/ MappingStep) /\ UNCHANGED <<udevvars, reqvars, imageRow, stops>>
  BY <1>3 DEF SetupNext
<1>4. CASE RequestStep
  BY <1>4 DEF RequestStep, CollectImages, TakeSnapshot, CannotTake, CountSnapshots,
              FindImage, CannotTell, DetectImage, WaitForImage, GiveUp
<1>5. CASE RequestFails \/ Announce \/ ForeignSnapshot
  BY <1>5 DEF RequestFails, Announce, ForeignSnapshot
<1>6. CASE \/ \E d \in Devices : BeginSnapshot(d)
           \/ \E row \in imageRow : DeleteSnapshot(row)
           \/ \E n \in Numbers : ForeignDelete(n) \/ Change(n)
  BY <1>6 DEF BeginSnapshot, DeleteSnapshot, ForeignDelete, Change
<1>7. CASE UNCHANGED vars
  BY <1>7 DEF vars
<1> QED
  BY <1>1, <1>2, <1>3, <1>4, <1>5, <1>6, <1>7 DEF Next

LEMMA SetupTypeStep == SetupTypeOK /\ [Next]_vars => SetupTypeOK'
BY SetupOrFrame, SetupNextType, SetupTypeFrame

LEMMA RowsStepNext == SetupTypeOK /\ RowsInv /\ [Next]_vars => RowsInv'
BY SetupOrFrame, RowsStep, RowsFrame

-----------------------------------------------------------------------------
(* What is recorded *)

LEMMA RowsAlways == Spec => [](SetupTypeOK /\ RowsInv)
<1>1. Init => SetupTypeOK /\ RowsInv
  BY SetupInitType, RowsInit DEF Init
<1>2. SetupTypeOK /\ RowsInv /\ [Next]_vars => (SetupTypeOK /\ RowsInv)'
  BY SetupTypeStep, RowsStepNext
<1> QED
  BY <1>1, <1>2, PTL DEF Spec

\* A disk with a row is tracked by the kernel module, across crashes, reboots
\* and failures (AddTrackedDisk makes the ioctl before the row; a reboot takes
\* the database along).
THEOREM RowsTracked == Spec => []TrackedRowsAreTracked
<1>1. SetupTypeOK /\ RowsInv => TrackedRowsAreTracked
  BY DEF RowsInv, TrackedRowsAreTracked
<1> QED
  BY <1>1, RowsAlways, PTL

\* Once the agent serves, the mappings of its configuration are there, and lead
\* to tracked disks and recorded locations (initStorageMappings).
THEOREM DisksMapped == Spec => []ConfiguredDisksAreMapped
<1>1. SetupTypeOK /\ RowsInv => ConfiguredDisksAreMapped
  BY DEF RowsInv, ConfiguredDisksAreMapped
<1> QED
  BY <1>1, RowsAlways, PTL

\* Any number of clients may ask for mappings at once: no disk gets a second one
\* before two requests have been between look-up and insertion for one disk at the
\* same time (CreateSnapStoreMapping, which takes no lock).  Start-up, restarts and
\* failures never give it one.
THEOREM MappingsUnique == Spec => OneMappingUnlessRaced
<1>1. Init => MappingsInv
  BY MappingsInit DEF Init
<1>2. SetupTypeOK /\ RowsInv /\ MappingsInv /\ WindowsDisjoint /\ [Next]_vars => MappingsInv'
  BY SetupOrFrame, MappingsStep, MappingsFrame DEF setupvars, rows
<1>3. MappingsInv => OneMappingPerDisk
  BY DEF MappingsInv
<1> QED
  BY <1>1, <1>2, <1>3, RowsAlways, PTL DEF Spec, OneMappingUnlessRaced

\* On machines the code can judge, and while no destination is dropped, CoW
\* files and tracked disks keep apart, whatever is added to the configuration
\* later (initTrackedDisks, AddSnapStoreLocation).
THEOREM CowFilesOffTrackedDisks ==
    ASSUME LocationsVisible, ~MayDrop
    PROVE  Spec => []LocationsAreNotTracked
<1>1. Init => LocationsInv
  BY LocationsInit DEF Init
<1>2. SetupTypeOK /\ RowsInv /\ LocationsInv /\ [Next]_vars => LocationsInv'
  BY SetupOrFrame, LocationsStep, LocationsFrame DEF setupvars, rows
<1>3. LocationsInv => LocationsAreNotTracked
  BY DEF LocationsInv
<1> QED
  BY <1>1, <1>2, <1>3, RowsAlways, PTL DEF Spec

-----------------------------------------------------------------------------
(* Typing *)

\* What the maps hold, and what the program counter says about the request.
DevicesInv ==
    /\ DevicesTypeOK
    /\ \A n \in Numbers : devices[n].status # "none" => devices[n].image \in Images
    /\ \A n \in Numbers : image[n] # NoImage => diskOf[image[n]] # NoDisk
    /\ upc # "idle" => disk \in Devices /\ spc = "running"
    /\ upc \in {"count", "find", "poll"} => own \in Images /\ diskOf[own] = disk
    /\ upc = "poll" => number \in Numbers

LEMMA InitDevices == Init => DevicesInv
BY SetupInitType, AttemptsAssumption DEF Init, UdevInit, NoEntry, Entry, DevicesInv,
   DevicesTypeOK, UdevTypeOK

LEMMA RequestEndsType ==
    ASSUME RequestEnds
    PROVE  /\ upc' = "idle"
           /\ disk' \in Devices \cup {NoDisk}
           /\ taken' \in Int
           /\ pre' \subseteq Numbers
           /\ own' \in Images \cup {NoImage}
           /\ number' \in Numbers \cup {NoNumber}
           /\ attempts' \in 0 .. MaxAttempts
BY AttemptsAssumption DEF RequestEnds

LEMMA SnapNumberType == ASSUME NEW d PROVE SnapNumber(d) \in Nat
<1>1. IsFiniteSet({i \in Images : diskOf[i] = d})
  BY ImagesAssumption, FS_Subset
<1> QED
  BY <1>1, FS_CardinalityType DEF SnapNumber

\* The steps of the kernel and of udev.
LEMMA CreateImageType ==
    ASSUME UdevTypeOK, NEW n \in Numbers, NEW i \in Images, NEW d \in Devices,
           CreateImage(n, i, d)
    PROVE  UdevTypeOK'
<1>1. Announcement("add", n, i) \in Uevent
  BY DEF Announcement, Uevent
<1> QED
  BY <1>1 DEF CreateImage, UdevTypeOK

LEMMA RemoveImageType ==
    ASSUME UdevTypeOK, NEW n \in Numbers, RemoveImage(n)
    PROVE  UdevTypeOK'
<1>1. Announcement("remove", n, image[n]) \in Uevent
  BY DEF Announcement, Uevent, RemoveImage, UdevTypeOK
<1> QED
  BY <1>1 DEF RemoveImage, UdevTypeOK

LEMMA ChangeImageType ==
    ASSUME UdevTypeOK, NEW n \in Numbers, ChangeImage(n)
    PROVE  UdevTypeOK'
<1>1. Announcement("change", n, image[n]) \in Uevent
  BY DEF Announcement, Uevent, ChangeImage, UdevTypeOK
<1> QED
  BY <1>1 DEF ChangeImage, UdevTypeOK

LEMMA HandleUeventType ==
    ASSUME UdevTypeOK, HandleUevent,
           \A n \in Numbers : devices[n].status # "none" => devices[n].image \in Images
    PROVE  /\ UdevTypeOK'
           /\ \A n \in Numbers : devices'[n].status # "none" => devices'[n].image \in Images
<1> DEFINE e == Head(uevents)
           entry == [status |-> CASE e.action = "add" -> "active"
                                  [] e.action = "remove" -> "unset"
                                  [] OTHER -> "unknown",
                     image |-> e.image]
<1>1. e \in Uevent
  BY DEF HandleUevent, UdevTypeOK
<1>2. e.number \in Numbers /\ e.image \in Images
  BY <1>1 DEF Uevent
<1>3. entry \in Entry /\ entry.image \in Images
  BY <1>2 DEF Entry
<1>4. devices' = [devices EXCEPT ![e.number] = entry]
  BY DEF HandleUevent, StoreEntry
<1>5. uevents' \in Seq(Uevent) /\ UNCHANGED <<image, diskOf>>
  BY DEF HandleUevent, UdevTypeOK
<1> HIDE DEF entry, e
<1> QED
  BY <1>2, <1>3, <1>4, <1>5 DEF UdevTypeOK

LEMMA DevicesStep ==
    ASSUME DevicesInv, [Next]_vars
    PROVE  DevicesInv'
<1>0. SetupTypeOK'
  BY SetupTypeStep DEF DevicesInv, DevicesTypeOK
<1> USE <1>0 DEF DevicesInv, DevicesTypeOK
<1>1. CASE (SetupStep \/ MappingStep) /\ UNCHANGED <<udevvars, reqvars, imageRow, stops>>
  <2>1. UNCHANGED <<udevvars, reqvars, imageRow, stops>>
    BY <1>1
  <2>2. spc = "running" => spc' = "running"
    BY <1>1 DEF SetupStep, MappingStep, Start, AddSnapStoreLocation, BeginDisks, TrackDisk,
       RecordDisk, BeginMappings, MapConfigured, Serve, StartFails, CheckMapping,
       InsertMapping, startvars
  <2> QED
    BY <2>1, <2>2 DEF udevvars, reqvars, UdevTypeOK
<1>2. ASSUME NEW d \in Devices, BeginSnapshot(d)
      PROVE  DevicesInv'
  BY <1>2, SnapNumberType DEF BeginSnapshot, setupvars, startvars, udevvars, UdevTypeOK
<1>3. CASE CollectImages
  BY <1>3 DEF CollectImages, setupvars, startvars, udevvars, UdevTypeOK, ImagesOf
<1>4. CASE TakeSnapshot
  <2>1. PICK n \in Numbers, i \in Images : CreateImage(n, i, disk) /\ own' = i
    BY <1>4 DEF TakeSnapshot
  <2>2. disk \in Devices
    BY <1>4 DEF TakeSnapshot
  <2>3. UdevTypeOK'
    BY <2>1, <2>2, CreateImageType
  <2> QED
    BY <1>4, <2>1, <2>2, <2>3, ImagesAssumption
       DEF TakeSnapshot, CreateImage, setupvars, startvars, UdevTypeOK
<1>5. CASE CannotTake \/ CannotTell \/ GiveUp
  BY <1>5, RequestEndsType
     DEF CannotTake, CannotTell, GiveUp, setupvars, startvars, udevvars, UdevTypeOK
<1>6. CASE CountSnapshots
  BY <1>6, SnapNumberType DEF CountSnapshots, setupvars, startvars, udevvars, UdevTypeOK
<1>7. CASE FindImage
  BY <1>7 DEF FindImage, setupvars, startvars, udevvars, UdevTypeOK
<1>8. CASE DetectImage
  <2>1. [disk |-> disk, number |-> number, image |-> own, node |-> devices[number].image]
            \in ImageRow
    BY <1>8 DEF DetectImage, IsDetected, ImageRow
  <2> QED
    BY <1>8, <2>1, RequestEndsType
       DEF DetectImage, setupvars, startvars, udevvars, UdevTypeOK
<1>9. CASE WaitForImage
  BY <1>9, AttemptsAssumption
     DEF WaitForImage, setupvars, startvars, udevvars, UdevTypeOK
<1>10. CASE RequestFails
  <2>1. CASE UNCHANGED udevvars
    BY <1>10, <2>1, RequestEndsType
       DEF RequestFails, setupvars, startvars, udevvars, UdevTypeOK
  <2>2. ASSUME NEW n \in Numbers, RemoveImage(n)
        PROVE  DevicesInv'
    <3>1. UdevTypeOK'
      BY <2>2, RemoveImageType
    <3> QED
      BY <1>10, <2>2, <3>1, RequestEndsType
         DEF RequestFails, RemoveImage, setupvars, startvars, UdevTypeOK
  <2> QED
    BY <1>10, <2>1, <2>2 DEF RequestFails
<1>11. ASSUME NEW row \in imageRow, DeleteSnapshot(row)
       PROVE  DevicesInv'
  <2>1. PICK n \in Numbers : RemoveImage(n)
    BY <1>11 DEF DeleteSnapshot
  <2>2. UdevTypeOK'
    BY <2>1, RemoveImageType
  <2> QED
    BY <1>11, <2>1, <2>2
       DEF DeleteSnapshot, RemoveImage, setupvars, startvars, reqvars, UdevTypeOK
<1>12. CASE ForeignSnapshot
  <2>1. PICK n \in Numbers, i \in Images, d \in kTracked : CreateImage(n, i, d)
    BY <1>12 DEF ForeignSnapshot
  <2>2. d \in Devices
    BY DEF SetupTypeOK
  <2>3. UdevTypeOK'
    BY <2>1, <2>2, CreateImageType
  <2>4. \A m \in Numbers : image'[m] # NoImage => diskOf'[image'[m]] # NoDisk
    BY <2>1, <2>2, ImagesAssumption DEF CreateImage, UdevTypeOK
  <2>5. own \in Images /\ diskOf[own] \in Devices => diskOf'[own] = diskOf[own]
    BY <2>1, ImagesAssumption DEF CreateImage, UdevTypeOK
  <2> QED
    BY <1>12, <2>1, <2>3, <2>4, <2>5
       DEF ForeignSnapshot, CreateImage, setupvars, startvars, reqvars
<1>13. ASSUME NEW n \in Numbers, ForeignDelete(n)
       PROVE  DevicesInv'
  <2>1. UdevTypeOK'
    BY <1>13, RemoveImageType DEF ForeignDelete
  <2> QED
    BY <1>13, <2>1
       DEF ForeignDelete, RemoveImage, setupvars, startvars, reqvars, UdevTypeOK
<1>14. ASSUME NEW n \in Numbers, Change(n)
       PROVE  DevicesInv'
  <2>1. UdevTypeOK'
    BY <1>14, ChangeImageType DEF Change
  <2> QED
    BY <1>14, <2>1
       DEF Change, ChangeImage, setupvars, startvars, reqvars, UdevTypeOK
<1>15. CASE Announce
  <2>1. CASE HandleUevent
    <3>1. /\ UdevTypeOK'
          /\ \A n \in Numbers : devices'[n].status # "none" => devices'[n].image \in Images
      BY <2>1, HandleUeventType
    <3> QED
      BY <1>15, <2>1, <3>1 DEF Announce, HandleUevent, setupvars, startvars, reqvars
  <2>2. CASE MissUevent
    <3>1. UdevTypeOK'
      BY <2>2 DEF MissUevent, UdevTypeOK
    <3> QED
      BY <1>15, <2>2, <3>1 DEF Announce, MissUevent, setupvars, startvars, reqvars
  <2> QED
    BY <1>15, <2>1, <2>2 DEF Announce
<1>16. CASE Crash
  BY <1>16, RequestEndsType
     DEF Crash, StopMonitor, StopSetup, LoseRows, rows, NoEntry, Entry, UdevTypeOK
<1>17. CASE Reboot
  BY <1>17, RequestEndsType DEF Reboot, RebootUdev, NoEntry, Entry, UdevTypeOK, Uevent
<1>18. CASE UNCHANGED vars
  BY <1>18 DEF vars, setupvars, startvars, udevvars, reqvars, UdevTypeOK
<1> HIDE DEF DevicesInv, DevicesTypeOK
<1> QED
  BY <1>1, <1>2, <1>3, <1>4, <1>5, <1>6, <1>7, <1>8, <1>9, <1>10, <1>11, <1>12, <1>13,
     <1>14, <1>15, <1>16, <1>17, <1>18
     DEF Next, RequestStep

\* Every variable keeps its type: the row of an image gets a device node that
\* udev has announced, and the attempts stay within their limit.
THEOREM DevicesTypeCorrect == Spec => []DevicesTypeOK
<1>1. DevicesInv => DevicesTypeOK
  BY DEF DevicesInv
<1> QED
  BY <1>1, InitDevices, DevicesStep, PTL DEF Spec

-----------------------------------------------------------------------------
(* The image of the request *)

InProgress == upc \in {"count", "find", "poll"}

OwnAdd(n) == Announcement("add", n, own)

\* Whatever udev has to say about a number before its own image is overtaken by
\* the announcement of that image.
Overtaken(n) ==
    \A k \in DOMAIN uevents : uevents[k].number = n /\ uevents[k].image # own =>
        \E j \in DOMAIN uevents : k < j /\ uevents[j] = OwnAdd(n)

IsAnnounced(n) ==
    /\ Overtaken(n)
    /\ devices[n].image = own \/ \E k \in DOMAIN uevents : uevents[k] = OwnAdd(n)

OwnInv ==
    InProgress =>
        /\ \E n \in Numbers : image[n] = own
        /\ \A n \in Numbers : image[n] = own => IsAnnounced(n)
        /\ ImageIsOwn

\* What is appended is about another number, or about the image itself.
LEMMA AnnouncedAppend ==
    ASSUME DevicesInv, NEW n \in Numbers, IsAnnounced(n), NEW e \in Uevent,
           uevents' = Append(uevents, e), UNCHANGED <<devices, own>>,
           e.number # n \/ e.image = own
    PROVE  IsAnnounced(n)'
<1>1. uevents \in Seq(Uevent)
  BY DEF DevicesInv, DevicesTypeOK, UdevTypeOK
<1>2. /\ DOMAIN uevents = 1 .. Len(uevents)
      /\ DOMAIN uevents' = 1 .. Len(uevents) + 1
      /\ Len(uevents) \in Nat
      /\ \A k \in DOMAIN uevents : uevents'[k] = uevents[k]
      /\ uevents'[Len(uevents) + 1] = e
  BY <1>1
<1>3. OwnAdd(n)' = OwnAdd(n)
  BY DEF OwnAdd, Announcement
<1>4. \A k \in DOMAIN uevents : k \in DOMAIN uevents'
  BY <1>2
<1>5. ASSUME NEW k \in DOMAIN uevents', uevents'[k].number = n, uevents'[k].image # own
      PROVE  \E j \in DOMAIN uevents' : k < j /\ uevents'[j] = OwnAdd(n)
  <2>1. k \in DOMAIN uevents
    BY <1>2, <1>5
  <2>2. PICK j \in DOMAIN uevents : k < j /\ uevents[j] = OwnAdd(n)
    BY <1>2, <1>5, <2>1 DEF IsAnnounced, Overtaken
  <2> QED
    BY <1>2, <1>4, <2>2
<1>6. Overtaken(n)'
  BY <1>3, <1>5 DEF Overtaken
<1>7. (devices[n].image = own \/ \E k \in DOMAIN uevents : uevents[k] = OwnAdd(n))'
  BY <1>2, <1>3, <1>4 DEF IsAnnounced
<1> QED
  BY <1>6, <1>7 DEF IsAnnounced

\* The entry that is stored is of the image, or the announcement is yet to come.
LEMMA AnnouncedHandle ==
    ASSUME DevicesInv, NEW n \in Numbers, IsAnnounced(n), HandleUevent, UNCHANGED own
    PROVE  IsAnnounced(n)'
<1> DEFINE e == Head(uevents)
<1>1. uevents \in Seq(Uevent) /\ uevents # <<>> /\ uevents' = Tail(uevents)
  BY DEF DevicesInv, DevicesTypeOK, UdevTypeOK, HandleUevent
<1>2. /\ Len(uevents) \in Nat \ {0}
      /\ DOMAIN uevents = 1 .. Len(uevents)
      /\ DOMAIN uevents' = 1 .. Len(uevents) - 1
      /\ \A k \in DOMAIN uevents' : uevents'[k] = uevents[k + 1]
      /\ e = uevents[1]
      /\ e \in Uevent
  BY <1>1
<1>3. OwnAdd(n)' = OwnAdd(n)
  BY DEF OwnAdd, Announcement
<1>4. \A j \in DOMAIN uevents : 1 < j => j - 1 \in DOMAIN uevents' /\ uevents'[j - 1] = uevents[j]
  BY <1>2
<1>5. ASSUME NEW k \in DOMAIN uevents', uevents'[k].number = n, uevents'[k].image # own
      PROVE  \E j \in DOMAIN uevents' : k < j /\ uevents'[j] = OwnAdd(n)
  <2>1. k + 1 \in DOMAIN uevents /\ uevents[k + 1] = uevents'[k] /\ k \in Nat
    BY <1>2
  <2>2. PICK j \in DOMAIN uevents : k + 1 < j /\ uevents[j] = OwnAdd(n)
    BY <1>5, <2>1 DEF IsAnnounced, Overtaken
  <2>3. j \in Nat /\ 1 < j /\ k < j - 1
    BY <1>2, <2>1, <2>2
  <2> QED
    BY <1>4, <2>2, <2>3
<1>6. Overtaken(n)'
  BY <1>3, <1>5 DEF Overtaken
<1>7. (devices[n].image = own \/ \E k \in DOMAIN uevents : uevents[k] = OwnAdd(n))'
  <2>1. /\ e.number = n => devices'[n].image = e.image
        /\ e.number # n => devices'[n] = devices[n]
    <3>1. devices \in [Numbers -> Entry]
      BY DEF DevicesInv, DevicesTypeOK, UdevTypeOK
    <3> QED
      BY <3>1 DEF HandleUevent, StoreEntry
  <2>2. CASE e.number = n /\ e.image # own
    <3>1. PICK j \in DOMAIN uevents : 1 < j /\ uevents[j] = OwnAdd(n)
      BY <1>2, <2>2 DEF IsAnnounced, Overtaken
    <3> QED
      BY <1>3, <1>4, <3>1
  <2>3. CASE e.number = n /\ e.image = own
    BY <2>1, <2>3
  <2>4. CASE e.number # n
    <3>1. CASE devices[n].image = own
      BY <2>1, <2>4, <3>1
    <3>2. ASSUME NEW k \in DOMAIN uevents, uevents[k] = OwnAdd(n)
          PROVE  \E j \in DOMAIN uevents' : uevents'[j] = OwnAdd(n)
      <4>1. k # 1
        BY <1>2, <2>4, <3>2 DEF OwnAdd, Announcement
      <4> QED
        BY <1>2, <1>4, <3>2, <4>1
    <3> QED
      BY <1>3, <3>1, <3>2 DEF IsAnnounced
  <2> QED
    BY <2>2, <2>3, <2>4
<1> QED
  BY <1>6, <1>7 DEF IsAnnounced

\* A request that has ended has no image to look for.
LEMMA OwnEnds == RequestEnds => OwnInv'
BY DEF RequestEnds, OwnInv, InProgress

LEMMA OwnFrame ==
    OwnInv /\ UNCHANGED <<image, devices, uevents, upc, own, number, pre>> => OwnInv'
BY DEF OwnInv, InProgress, IsAnnounced, Overtaken, OwnAdd, Announcement, ImageIsOwn

\* Events about other numbers, or other events about the image, change nothing.
LEMMA OwnAppend ==
    ASSUME DevicesInv, OwnInv, UNCHANGED <<devices, upc, own, number, pre>>,
           NEW n \in Numbers, NEW i \in Images, NEW action,
           Announcement(action, n, i) \in Uevent,
           uevents' = Append(uevents, Announcement(action, n, i)),
           InProgress => i = own \/ image[n] # own,
           \A m \in Numbers : image[m] = own \/ image'[m] = own => image'[m] = image[m]
    PROVE  OwnInv'
<1> SUFFICES ASSUME InProgress'
             PROVE  OwnInv'
  BY DEF OwnInv
<1>1. InProgress
  BY DEF InProgress
<1>2. \A m \in Numbers : image'[m] = own' <=> image[m] = own
  OBVIOUS
<1>3. \E m \in Numbers : image'[m] = own'
  BY <1>1, <1>2 DEF OwnInv
<1>4. ASSUME NEW m \in Numbers, image'[m] = own'
      PROVE  IsAnnounced(m)'
  <2>1. image[m] = own /\ IsAnnounced(m)
    BY <1>1, <1>2, <1>4 DEF OwnInv
  <2>2. /\ Announcement(action, n, i).number = n
        /\ Announcement(action, n, i).image = i
    BY DEF Announcement
  <2> QED
    BY <1>1, <2>1, <2>2, AnnouncedAppend
<1>5. pre \subseteq Numbers /\ (upc = "poll" => number \in Numbers)
  BY DEF DevicesInv, DevicesTypeOK
<1>6. ImageIsOwn'
  BY <1>1, <1>2, <1>5 DEF OwnInv, ImageIsOwn
<1> QED
  BY <1>3, <1>4, <1>6 DEF OwnInv

\* The announcement of the new image comes after everything else about its number.
LEMMA OwnTaken ==
    ASSUME DevicesInv, TakeSnapshot
    PROVE  OwnInv'
<1>1. PICK n \in Numbers, i \in Images : CreateImage(n, i, disk) /\ own' = i
  BY DEF TakeSnapshot
<1>2. /\ uevents \in Seq(Uevent)
      /\ image \in [Numbers -> Images \cup {NoImage}]
      /\ \A m \in Numbers : image[m] # NoImage => diskOf[image[m]] # NoDisk
  BY DEF DevicesInv, DevicesTypeOK, UdevTypeOK
<1>3. \A m \in Numbers : image'[m] = own' <=> m = n
  BY <1>1, <1>2, ImagesAssumption DEF CreateImage
<1>4. /\ DOMAIN uevents = 1 .. Len(uevents)
      /\ DOMAIN uevents' = 1 .. Len(uevents) + 1
      /\ Len(uevents) \in Nat
      /\ uevents'[Len(uevents) + 1] = OwnAdd(n)'
  <2>1. uevents' = Append(uevents, Announcement("add", n, i))
    BY <1>1 DEF CreateImage
  <2>2. OwnAdd(n)' = Announcement("add", n, i) /\ Announcement("add", n, i) \in Uevent
    BY <1>1 DEF OwnAdd, Announcement, Uevent
  <2> QED
    BY <1>2, <2>1, <2>2
<1>5. OwnAdd(n)'.image = own'
  BY DEF OwnAdd, Announcement
<1>6. Overtaken(n)'
  <2>1. SUFFICES ASSUME NEW k \in DOMAIN uevents', uevents'[k].image # own'
                 PROVE  \E j \in DOMAIN uevents' : k < j /\ uevents'[j] = OwnAdd(n)'
    BY DEF Overtaken
  <2>2. k # Len(uevents) + 1
    BY <1>4, <1>5, <2>1
  <2>3. Len(uevents) + 1 \in DOMAIN uevents' /\ k < Len(uevents) + 1
    BY <1>4, <2>2
  <2> QED
    BY <1>4, <2>3
<1>7. IsAnnounced(n)'
  <2>1. Len(uevents) + 1 \in DOMAIN uevents'
    BY <1>4
  <2> QED
    BY <1>4, <1>6, <2>1 DEF IsAnnounced
<1>8. ImageIsOwn'
  BY DEF TakeSnapshot, ImageIsOwn
<1> QED
  BY <1>3, <1>7, <1>8 DEF OwnInv

LEMMA OwnStep ==
    ASSUME DevicesInv, OwnInv, [Next]_vars
    PROVE  OwnInv'
<1>0. image \in [Numbers -> Images \cup {NoImage}]
  BY DEF DevicesInv, DevicesTypeOK, UdevTypeOK
<1>1. CASE (SetupStep \/ MappingStep) /\ UNCHANGED <<udevvars, reqvars, imageRow, stops>>
  BY <1>1, OwnFrame DEF udevvars, reqvars
<1>2. ASSUME NEW d \in Devices, BeginSnapshot(d)
      PROVE  OwnInv'
  BY <1>2 DEF BeginSnapshot, OwnInv, InProgress
<1>3. CASE CollectImages
  BY <1>3 DEF CollectImages, OwnInv, InProgress
<1>4. CASE TakeSnapshot
  BY <1>4, OwnTaken
<1>5. CASE CountSnapshots
  BY <1>5 DEF CountSnapshots, OwnInv, InProgress, IsAnnounced, Overtaken, OwnAdd,
              Announcement, ImageIsOwn, udevvars
<1>6. CASE FindImage
  <2>1. PICK n \in Numbers : ImagesOf(disk) \ pre = {n} /\ number' = n
    BY <1>6 DEF FindImage
  <2>2. InProgress /\ InProgress' /\ UNCHANGED <<udevvars, own, pre>>
    BY <1>6 DEF FindImage, InProgress
  <2>3. PICK m \in Numbers : image[m] = own
    BY <2>2 DEF OwnInv
  <2>4. m \in ImagesOf(disk)
    BY <2>2, <2>3, ImagesAssumption DEF DevicesInv, InProgress, ImagesOf
  <2>5. m \in pre \/ m = n
    BY <2>1, <2>4
  <2>6. ImageIsOwn'
    BY <2>1, <2>2, <2>3, <2>5 DEF ImageIsOwn, udevvars
  <2> QED
    BY <2>2, <2>6 DEF OwnInv, IsAnnounced, Overtaken, OwnAdd, Announcement, udevvars
<1>7. CASE CannotTake \/ CannotTell \/ DetectImage \/ GiveUp \/ RequestFails \/ Crash \/ Reboot
  BY <1>7, OwnEnds
     DEF CannotTake, CannotTell, DetectImage, GiveUp, RequestFails, Crash, Reboot
<1>8. CASE WaitForImage
  BY <1>8, OwnFrame DEF WaitForImage, udevvars
<1>9. ASSUME NEW row \in imageRow, DeleteSnapshot(row)
      PROVE  OwnInv'
  BY <1>9 DEF DeleteSnapshot, OwnInv, InProgress, reqvars
<1>10. CASE ForeignSnapshot
  <2>1. PICK n \in Numbers, i \in Images, d \in kTracked : CreateImage(n, i, d)
    BY <1>10 DEF ForeignSnapshot
  <2>2. InProgress => image[n] # own /\ i # own
    BY <2>1, ImagesAssumption DEF CreateImage, DevicesInv, InProgress
  <2>3. UNCHANGED <<devices, upc, own, number, pre>>
    BY <1>10, <2>1 DEF ForeignSnapshot, CreateImage, reqvars
  <2>4. Announcement("add", n, i) \in Uevent
    BY DEF Announcement, Uevent
  <2>5. CASE InProgress
    <3>1. \A m \in Numbers : image[m] = own \/ image'[m] = own => image'[m] = image[m]
      BY <1>0, <2>1, <2>2, <2>5 DEF CreateImage
    <3> QED
      BY <2>1, <2>2, <2>3, <2>4, <3>1, OwnAppend DEF CreateImage
  <2>6. CASE ~InProgress
    BY <2>3, <2>6 DEF OwnInv, InProgress
  <2> QED
    BY <2>5, <2>6
<1>11. ASSUME NEW n \in Numbers, ForeignDelete(n)
       PROVE  OwnInv'
  <2>1. image[n] \in Images /\ image[n] # own /\ image' = [image EXCEPT ![n] = NoImage]
    BY <1>0, <1>11 DEF ForeignDelete, RemoveImage
  <2>2. UNCHANGED <<devices, upc, own, number, pre>>
    BY <1>11 DEF ForeignDelete, RemoveImage, reqvars
  <2>3. uevents' = Append(uevents, Announcement("remove", n, image[n]))
    BY <1>11 DEF ForeignDelete, RemoveImage
  <2>4. Announcement("remove", n, image[n]) \in Uevent
    BY <2>1 DEF Announcement, Uevent
  <2>5. CASE InProgress
    <3>1. own # NoImage
      BY <2>5, ImagesAssumption DEF DevicesInv, InProgress
    <3>2. \A m \in Numbers : image[m] = own \/ image'[m] = own => image'[m] = image[m]
      BY <1>0, <2>1, <3>1
    <3> QED
      BY <2>1, <2>2, <2>3, <2>4, <3>2, OwnAppend
  <2>6. CASE ~InProgress
    BY <2>2, <2>6 DEF OwnInv, InProgress
  <2> QED
    BY <2>5, <2>6
<1>12. ASSUME NEW n \in Numbers, Change(n)
       PROVE  OwnInv'
  <2>1. image[n] \in Images /\ UNCHANGED <<image, devices, upc, own, number, pre>>
    BY <1>0, <1>12 DEF Change, ChangeImage, reqvars
  <2>2. uevents' = Append(uevents, Announcement("change", n, image[n]))
    BY <1>12 DEF Change, ChangeImage
  <2>3. Announcement("change", n, image[n]) \in Uevent
    BY <2>1 DEF Announcement, Uevent
  <2>4. InProgress => image[n] = own \/ image[n] # own
    OBVIOUS
  <2>5. \A m \in Numbers : image[m] = own \/ image'[m] = own => image'[m] = image[m]
    BY <2>1
  <2> QED
    BY <2>1, <2>2, <2>3, <2>4, <2>5, OwnAppend
<1>13. CASE Announce
  <2>1. CASE InProgress
    <3>1. HandleUevent /\ UNCHANGED <<image, upc, own, number, pre>>
      BY <1>13, <2>1
         DEF Announce, HandleUevent, DevicesInv, InProgress, reqvars
    <3>2. \A n \in Numbers : image[n] = own => IsAnnounced(n)'
      BY <2>1, <3>1, AnnouncedHandle DEF OwnInv
    <3>3. ImageIsOwn'
      BY <2>1, <3>1 DEF OwnInv, ImageIsOwn
    <3> QED
      BY <2>1, <3>1, <3>2, <3>3 DEF OwnInv
  <2>2. CASE ~InProgress
    BY <1>13, <2>2 DEF Announce, OwnInv, InProgress, reqvars
  <2> QED
    BY <2>1, <2>2
<1>14. CASE UNCHANGED vars
  BY <1>14, OwnFrame DEF vars, udevvars, reqvars
<1> QED
  BY <1>1, <1>2, <1>3, <1>4, <1>5, <1>6, <1>7, <1>8, <1>9, <1>10, <1>11, <1>12, <1>13, <1>14
     DEF Next, RequestStep

LEMMA OwnAlways == Spec => [](DevicesInv /\ OwnInv)
<1>1. Init => OwnInv
  BY DEF Init, OwnInv, InProgress
<1> QED
  BY <1>1, InitDevices, DevicesStep, OwnStep, PTL DEF Spec

\* The image a request waits for is that of its own snapshot, whatever other
\* users of the kernel module do, unless it was given the number of an image
\* that was deleted since the request looked (manager.go:599-616).
THEOREM OwnImageFound == Spec => []ImageIsOwn
<1>1. DevicesInv /\ OwnInv => ImageIsOwn
  BY DEF OwnInv, InProgress, ImageIsOwn
<1> QED
  BY <1>1, OwnAlways, PTL

\* What GetUdevDevice polls for is in the map or yet to be announced: no event
\* that is still under way can hide it for good (udev_monitor.go:50-69).
THEOREM ImageIsAnnounced == Spec => []AnnouncementsArrive
<1>1. DevicesInv /\ OwnInv => AnnouncementsArrive
  BY DEF OwnInv, InProgress, AnnouncementsArrive, IsAnnounced, OwnAdd
<1> QED
  BY <1>1, OwnAlways, PTL
=============================================================================

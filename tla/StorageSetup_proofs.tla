---------------------------- MODULE StorageSetup_proofs ----------------------------
(***************************************************************************)
(* What the set-up steps preserve, for any machines, configurations and    *)
(* requests, whatever fails and whenever the process or the machine goes   *)
(* down.  The theorems about the composed specification cite these lemmas. *)
(***************************************************************************)
EXTENDS StorageSetup, BlockDevices_proofs

\* The process or the machine goes down, and the database may go with either.
SetupEnds ==
    \/ StopSetup /\ (LoseRows \/ UNCHANGED <<dbFile, rows>>)
    \/ RebootSetup

SetupNext == SetupStep \/ MappingStep \/ SetupEnds

-----------------------------------------------------------------------------
(* Typing *)

LEMMA MachineTypes ==
    ASSUME NEW m \in Machines
    PROVE  /\ IsMachine(m)
           /\ m.volumes \subseteq Devices
           /\ m.host \in [Locations -> Devices]
           /\ \A v \in m.volumes : m.slaves[v] \subseteq Devices
BY MachinesAssumption DEF IsMachine

LEMMA ConfigTypes ==
    ASSUME NEW c \in Configs
    PROVE  /\ c.destinations \subseteq Locations
           /\ c.mappings \subseteq Mapping
           /\ c.auto \in BOOLEAN
BY ConfigsAssumption

LEMMA InvolvedAreDevices ==
    ASSUME NEW m \in Machines, NEW devs
    PROVE  FindAllInvolvedDevices(m, devs) \subseteq Devices
BY MachineTypes, ListedAreVolumes DEF FindAllInvolvedDevices, HostVolumes

LEMMA ListedAreDevices ==
    ASSUME NEW m \in Machines, NEW a, NEW b, NEW cw
    PROVE  listDisks(m, a, b, cw) \subseteq Devices
BY MachineTypes, ListedAreVolumes DEF listDisks

LEMMA SetupInitType == SetupInit => SetupTypeOK
BY DEF SetupInit, SetupTypeOK

LEMMA SetupTypeFrame == SetupTypeOK /\ UNCHANGED setupvars => SetupTypeOK'
BY DEF SetupTypeOK, setupvars, startvars, rows

LEMMA SetupStepType ==
    ASSUME SetupTypeOK, SetupStep
    PROVE  SetupTypeOK'
<1> USE DEF SetupTypeOK, rows, startvars
<1>1. ASSUME NEW c \in Configs, Start(c)
      PROVE  SetupTypeOK'
  <2>1. CowDestinationDevices(c) \subseteq Devices
    BY InvolvedAreDevices DEF CowDestinationDevices
  <2> QED
    BY <1>1, <2>1, ConfigTypes DEF Start
<1>2. ASSUME NEW l \in Locations, AddSnapStoreLocation(l)
      PROVE  SetupTypeOK'
  BY <1>2 DEF AddSnapStoreLocation
<1>3. CASE BeginDisks
  <2>1. listDisks(machine, FALSE, FALSE, cow) \subseteq Devices
    BY ListedAreDevices
  <2> QED
    BY <1>3, <2>1 DEF BeginDisks
<1>4. ASSUME NEW d \in Devices, TrackDisk(d)
      PROVE  SetupTypeOK'
  BY <1>4 DEF TrackDisk
<1>5. ASSUME NEW d \in Devices, RecordDisk(d)
      PROVE  SetupTypeOK'
  BY <1>5 DEF RecordDisk
<1>6. CASE BeginMappings
  <2>1. conf.mappings \subseteq Mapping
    BY ConfigTypes
  <2> QED
    BY <1>6, <2>1 DEF BeginMappings
<1>7. ASSUME NEW p \in Mapping, MapConfigured(p)
      PROVE  SetupTypeOK'
  <2>1. InsertedMapping(p, Starter) \in
            [device : Devices, location : Locations, by : Requests \cup {Starter}]
    BY DEF InsertedMapping, Mapping
  <2> QED
    BY <1>7, <2>1 DEF MapConfigured
<1>8. CASE Serve
  BY <1>8 DEF Serve
<1>9. CASE StartFails
  BY <1>9 DEF StartFails, LoseRows
<1> QED
  BY <1>1, <1>2, <1>3, <1>4, <1>5, <1>6, <1>7, <1>8, <1>9 DEF SetupStep

LEMMA MappingStepType ==
    ASSUME SetupTypeOK, MappingStep
    PROVE  SetupTypeOK'
<1> USE DEF SetupTypeOK, rows, startvars
<1>1. ASSUME NEW r \in Requests, NEW p \in Mapping, CheckMapping(r, p)
      PROVE  SetupTypeOK'
  BY <1>1 DEF CheckMapping
<1>2. ASSUME NEW r \in Requests, InsertMapping(r)
      PROVE  SetupTypeOK'
  <2>1. InsertedMapping(rarg[r], r) \in
            [device : Devices, location : Locations, by : Requests \cup {Starter}]
    BY <1>2 DEF InsertMapping, InsertedMapping, Mapping
  <2> QED
    BY <1>2, <2>1 DEF InsertMapping
<1> QED
  BY <1>1, <1>2 DEF MappingStep

LEMMA SetupEndsType ==
    ASSUME SetupTypeOK, SetupEnds
    PROVE  SetupTypeOK'
BY DEF SetupTypeOK, SetupEnds, StopSetup, RebootSetup, LoseRows, rows

LEMMA SetupNextType ==
    ASSUME SetupTypeOK, SetupNext
    PROVE  SetupTypeOK'
BY SetupStepType, MappingStepType, SetupEndsType DEF SetupNext

-----------------------------------------------------------------------------
(* What is recorded: tracked disks, mappings, and what a start still has to do *)

\* What is true of the rows whether or not anybody is at work on them, and what
\* is left of the current loop.
RowsInv ==
    /\ spc # "down" => dbFile
    /\ ~dbFile => diskRow = {} /\ locRow = {} /\ mapRow = {}
    /\ diskRow \subseteq kTracked
    /\ \A row \in mapRow : row.device \in diskRow /\ row.location \in locRow
    /\ spc = "mappings" => todo \subseteq conf.mappings
    /\ spc = "running" => todo = {}
    /\ spc \in {"mappings", "running"} /\ conf.auto =>
          \A p \in conf.mappings : p \in todo \/ (p.device \in diskRow /\ Mapped(p.device))
    /\ \A r \in Requests : rpc[r] = "insert" =>
          spc = "running" /\ rarg[r].device \in diskRow /\ rarg[r].location \in locRow

LEMMA RowsInit == SetupInit => RowsInv
BY DEF SetupInit, RowsInv

LEMMA RowsFrame == RowsInv /\ UNCHANGED setupvars => RowsInv'
BY DEF RowsInv, Mapped, setupvars, startvars, rows

LEMMA RowsStep ==
    ASSUME SetupTypeOK, RowsInv, SetupNext
    PROVE  RowsInv'
<1> USE DEF RowsInv, Mapped, rows, startvars
<1>1. ASSUME NEW c \in Configs, Start(c)
      PROVE  RowsInv'
  BY <1>1 DEF Start
<1>2. ASSUME NEW l \in Locations, AddSnapStoreLocation(l)
      PROVE  RowsInv'
  BY <1>2 DEF AddSnapStoreLocation
<1>3. CASE BeginDisks
  BY <1>3 DEF BeginDisks
<1>4. ASSUME NEW d \in Devices, TrackDisk(d)
      PROVE  RowsInv'
  BY <1>4 DEF TrackDisk
<1>5. ASSUME NEW d \in Devices, RecordDisk(d)
      PROVE  RowsInv'
  BY <1>5 DEF RecordDisk
<1>6. CASE BeginMappings
  BY <1>6 DEF BeginMappings
<1>7. ASSUME NEW p \in Mapping, MapConfigured(p)
      PROVE  RowsInv'
  <2> DEFINE new == InsertedMapping(p, Starter)
  <2>1. new.device = p.device /\ new.location = p.location
    BY DEF InsertedMapping
  <2>2. CASE Mapped(p.device)
    BY <1>7, <2>2 DEF MapConfigured, IsRefused
  <2>3. CASE ~Mapped(p.device)
    <3>1. mapRow' = mapRow \cup {new}
      BY <1>7, <2>3 DEF MapConfigured
    <3>2. p.device \in diskRow /\ p.location \in locRow
      BY <1>7, <2>3 DEF MapConfigured, IsRefused
    <3>3. Mapped(p.device)' /\ \A d : Mapped(d) => Mapped(d)'
      BY <2>1, <3>1
    <3> QED
      BY <1>7, <2>1, <3>1, <3>2, <3>3 DEF MapConfigured
  <2> QED
    BY <2>2, <2>3
<1>8. CASE Serve
  BY <1>8 DEF Serve
<1>9. CASE StartFails
  BY <1>9 DEF StartFails, LoseRows, SetupTypeOK
<1>10. ASSUME NEW r \in Requests, NEW p \in Mapping, CheckMapping(r, p)
       PROVE  RowsInv'
  BY <1>10 DEF CheckMapping, IsRefused, SetupTypeOK
<1>11. ASSUME NEW r \in Requests, InsertMapping(r)
       PROVE  RowsInv'
  <2> DEFINE new == InsertedMapping(rarg[r], r)
  <2>1. new.device \in diskRow /\ new.location \in locRow
    BY <1>11 DEF InsertedMapping, InsertMapping
  <2>2. mapRow' = mapRow \cup {new} \/ mapRow' = mapRow
    BY <1>11 DEF InsertMapping
  <2>3. \A q \in Requests : rpc'[q] = "insert" => rpc[q] = "insert" /\ rarg'[q] = rarg[q]
    BY <1>11 DEF InsertMapping, SetupTypeOK
  <2> HIDE DEF new
  <2> QED
    BY <1>11, <2>1, <2>2, <2>3 DEF InsertMapping
<1>12. CASE SetupEnds
  BY <1>12 DEF SetupEnds, StopSetup, RebootSetup, LoseRows
<1> QED
  BY <1>1, <1>2, <1>3, <1>4, <1>5, <1>6, <1>7, <1>8, <1>9, <1>10, <1>11, <1>12
     DEF SetupNext, SetupStep, MappingStep

-----------------------------------------------------------------------------
(* One mapping for a disk *)

\* As long as no two windows for a disk overlap, nobody else maps the disk a
\* request has checked.
MappingsInv ==
    /\ OneMappingPerDisk
    /\ \A r \in Requests : rpc[r] = "insert" => ~Mapped(rarg[r].device)

LEMMA MappingsInit == SetupInit => MappingsInv
BY DEF SetupInit, MappingsInv, OneMappingPerDisk

LEMMA MappingsFrame == MappingsInv /\ UNCHANGED <<mapRow, rpc, rarg>> => MappingsInv'
BY DEF MappingsInv, OneMappingPerDisk, Mapped

LEMMA MappingsStep ==
    ASSUME SetupTypeOK, RowsInv, MappingsInv, WindowsDisjoint, SetupNext
    PROVE  MappingsInv'
<1> USE DEF MappingsInv, OneMappingPerDisk, Mapped
<1>1. ASSUME NEW p \in Mapping, MapConfigured(p)
      PROVE  MappingsInv'
  <2>1. \A r \in Requests : rpc[r] # "insert"
    BY <1>1 DEF MapConfigured, RowsInv
  <2>2. InsertedMapping(p, Starter).device = p.device
    BY DEF InsertedMapping
  <2> QED
    BY <1>1, <2>1, <2>2 DEF MapConfigured
<1>2. ASSUME NEW r \in Requests, NEW p \in Mapping, CheckMapping(r, p)
      PROVE  MappingsInv'
  BY <1>2 DEF CheckMapping, SetupTypeOK, rows
<1>3. ASSUME NEW r \in Requests, InsertMapping(r)
      PROVE  MappingsInv'
  <2> DEFINE new == InsertedMapping(rarg[r], r)
  <2>1. ~Mapped(rarg[r].device) /\ new.device = rarg[r].device
    BY <1>3 DEF InsertMapping, InsertedMapping
  <2>2. mapRow' = mapRow \cup {new} \/ mapRow' = mapRow
    BY <1>3 DEF InsertMapping
  <2> HIDE DEF new
  <2>3. OneMappingPerDisk'
    BY <2>1, <2>2
  <2>4. ASSUME NEW q \in Requests, rpc'[q] = "insert"
        PROVE  ~Mapped(rarg[q].device)'
    <3>1. q # r /\ rpc[q] = "insert" /\ rarg'[q] = rarg[q]
      BY <1>3, <2>4 DEF InsertMapping, SetupTypeOK
    <3>2. rarg[q].device # rarg[r].device
      BY <1>3, <3>1 DEF WindowsDisjoint, InsertMapping
    <3> QED
      BY <2>1, <2>2, <3>1, <3>2
  <2> QED
    BY <2>3, <2>4
<1>4. CASE SetupEnds
  BY <1>4 DEF SetupEnds, StopSetup, RebootSetup, LoseRows, rows
<1>5. CASE StartFails
  <2>1. \A r \in Requests : rpc[r] # "insert"
    BY <1>5 DEF StartFails, RowsInv
  <2> QED
    BY <1>5, <2>1 DEF StartFails, LoseRows, rows
<1>6. CASE UNCHANGED <<mapRow, rpc, rarg>>
  BY <1>6, MappingsFrame
<1> QED
  BY <1>1, <1>2, <1>3, <1>4, <1>5, <1>6
     DEF SetupNext, SetupStep, MappingStep, Start, AddSnapStoreLocation, BeginDisks,
         TrackDisk, RecordDisk, BeginMappings, Serve, rows

-----------------------------------------------------------------------------
(* Tracked disks and locations keep apart *)

\* While destinations are never dropped, all rows are of destinations, and the
\* disks yet to be tracked are those that hold none of them.
LocationsInv ==
    /\ LocationsAreNotTracked
    /\ locRow \subseteq conf.destinations
    /\ spc # "down" => cow = CowDestinationDevices(conf)
    /\ spc = "locations" => todo \subseteq conf.destinations
    /\ spc = "disks" => todo \subseteq listDisks(machine, FALSE, FALSE, cow)

LEMMA LocationsInit == SetupInit => LocationsInv
BY DEF SetupInit, LocationsInv, LocationsAreNotTracked

LEMMA LocationsFrame ==
    LocationsInv /\ UNCHANGED <<machine, startvars, diskRow, locRow>> => LocationsInv'
BY DEF LocationsInv, LocationsAreNotTracked, CowDestinationDevices, startvars

LEMMA LocationsStep ==
    ASSUME SetupTypeOK, RowsInv, LocationsInv, SetupNext, LocationsVisible, ~MayDrop
    PROVE  LocationsInv'
<1> USE DEF LocationsInv, LocationsAreNotTracked, CowDestinationDevices, rows, startvars
<1>1. ASSUME NEW c \in Configs, Start(c)
      PROVE  LocationsInv'
  BY <1>1 DEF Start, RowsInv
<1>2. ASSUME NEW l \in Locations, AddSnapStoreLocation(l)
      PROVE  LocationsInv'
  <2>1. ~OnTrackedDisk(l) => DisksOfLocation[machine][l] \cap diskRow = {}
    <3>1. machine \in Machines /\ IsMachine(machine)
      BY MachineTypes DEF SetupTypeOK
    <3>2. Plain(machine, machine.host[l])
      BY <3>1 DEF LocationsVisible
    <3>3. PhysicalDisks(machine, machine.host[l])
             \subseteq FindAllInvolvedDevices(machine, {machine.host[l]})
      BY <3>1, <3>2, PlainIsInvolved
    <3> QED
      BY <3>1, <3>3 DEF OnTrackedDisk, DisksOfLocation
  <2> QED
    BY <1>2, <2>1 DEF AddSnapStoreLocation
<1>3. CASE BeginDisks
  BY <1>3 DEF BeginDisks
<1>4. ASSUME NEW d \in Devices, TrackDisk(d)
      PROVE  LocationsInv'
  BY <1>4 DEF TrackDisk
<1>5. ASSUME NEW d \in Devices, RecordDisk(d)
      PROVE  LocationsInv'
  <2>1. \A l \in locRow : d \notin DisksOfLocation[machine][l]
    <3>1. SUFFICES ASSUME NEW l \in locRow
                   PROVE  d \notin DisksOfLocation[machine][l]
      OBVIOUS
    <3>2. machine \in Machines /\ IsMachine(machine) /\ l \in Locations
      BY MachineTypes DEF SetupTypeOK
    <3>3. Shallow(machine, machine.host[l])
      BY <3>2, PlainIsShallow DEF LocationsVisible
    <3> DEFINE devs == {machine.host[k] : k \in conf.destinations}
    <3>4. machine.host[l] \in devs
      OBVIOUS
    <3>5. cow = FindAllInvolvedDevices(machine, devs)
      BY <1>5 DEF RecordDisk
    <3>6. d \in listDisks(machine, FALSE, FALSE, cow)
      BY <1>5 DEF RecordDisk
    <3> HIDE DEF devs
    <3>7. PhysicalDisks(machine, machine.host[l])
             \cap listDisks(machine, FALSE, FALSE, FindAllInvolvedDevices(machine, devs)) = {}
      BY <3>2, <3>3, <3>4, ExclusionSound
    <3> QED
      BY <3>2, <3>5, <3>6, <3>7 DEF DisksOfLocation
  <2> QED
    BY <1>5, <2>1 DEF RecordDisk
<1>6. CASE BeginMappings
  BY <1>6 DEF BeginMappings
<1>7. ASSUME NEW p \in Mapping, MapConfigured(p)
      PROVE  LocationsInv'
  BY <1>7 DEF MapConfigured
<1>8. CASE Serve
  BY <1>8 DEF Serve
<1>9. CASE StartFails
  BY <1>9 DEF StartFails, LoseRows
<1>10. CASE MappingStep
  <2>1. UNCHANGED <<machine, startvars, diskRow, locRow>>
    BY <1>10 DEF MappingStep, CheckMapping, InsertMapping
  <2> QED
    BY <2>1, LocationsFrame
<1>11. CASE SetupEnds
  BY <1>11 DEF SetupEnds, StopSetup, RebootSetup, LoseRows
<1> QED
  BY <1>1, <1>2, <1>3, <1>4, <1>5, <1>6, <1>7, <1>8, <1>9, <1>10, <1>11
     DEF SetupNext, SetupStep
=============================================================================

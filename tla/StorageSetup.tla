------------------------------ MODULE StorageSetup ------------------------------
(***************************************************************************)
(* How a machine is set up for snapshots: the configuration, the locations *)
(* of CoW files, the tracked disks and the mappings from one to the other. *)
(* NewManager runs these steps at every start, over the tables an earlier  *)
(* start may have left; requests add mappings, without a lock, once the    *)
(* agent serves.                                                           *)
(***************************************************************************)
EXTENDS BlockDevices, Naturals

CONSTANTS
    Machines,   \* the machines a boot can bring up
    Configs,    \* the configurations the operator may write
    Requests,   \* concurrent API requests for a mapping
    Starter,    \* the start-up code, as the maker of a mapping
    MayDrop,    \* whether a destination may be dropped from the
                \* configuration while the database lives
    Failures    \* whether ioctls and transactions may fail

Mapping == [device : Devices, location : Locations]

ASSUME MachinesAssumption == \A m \in Machines : IsMachine(m)
ASSUME ConfigsAssumption ==
    \A c \in Configs :
        /\ c.destinations \in (SUBSET Locations) \ {{}}
        /\ c.mappings \subseteq Mapping
        /\ c.auto \in BOOLEAN
ASSUME RequestsAssumption == Starter \notin Requests
ASSUME SwitchesAssumption == MayDrop \in BOOLEAN /\ Failures \in BOOLEAN

VARIABLES
    machine,    \* the machine as it is up
    kTracked,   \* the disks the kernel module keeps a CBT map of
    conf,       \* the configuration, of this start or else of the last one
    cow,        \* cowDestinationDevicePaths
    spc,        \* where NewManager is
    fresh,      \* dbNeedsInit
    todo,       \* what its current loop has yet to visit
    dbFile,     \* whether there is a database file
    diskRow,    \* the tracked disks
    locRow,     \* the snap store locations
    mapRow,     \* the snap store mappings; "by" stands for the UUID
    rpc, rarg   \* the requests for a mapping, and what they ask for

rows == <<diskRow, locRow, mapRow>>
startvars == <<conf, cow, spc, fresh, todo, dbFile>>
setupvars == <<machine, kTracked, startvars, rows, rpc, rarg>>

SetupTypeOK ==
    /\ machine \in Machines
    /\ kTracked \subseteq Devices
    /\ conf \in Configs
    /\ cow \subseteq Devices
    /\ spc \in {"down", "locations", "disks", "mappings", "running"}
    /\ fresh \in BOOLEAN
    /\ todo \subseteq Locations \cup Devices \cup Mapping
    /\ dbFile \in BOOLEAN
    /\ diskRow \subseteq Devices
    /\ locRow \subseteq Locations
    /\ mapRow \subseteq [device : Devices, location : Locations, by : Requests \cup {Starter}]
    /\ rpc \in [Requests -> {"idle", "insert"}]
    /\ DOMAIN rarg = Requests
    /\ \A r \in Requests : rpc[r] = "insert" => rarg[r] \in Mapping

SetupInit ==
    /\ machine \in Machines
    /\ conf \in Configs
    /\ kTracked = {} /\ cow = {}
    /\ spc = "down" /\ fresh = FALSE /\ todo = {} /\ dbFile = FALSE
    /\ diskRow = {} /\ locRow = {} /\ mapRow = {}
    /\ rpc = [r \in Requests |-> "idle"] /\ rarg = [r \in Requests |-> <<>>]

\* Without its file, the database is as good as empty.
LoseRows ==
    /\ dbFile' = FALSE
    /\ diskRow' = {} /\ locRow' = {} /\ mapRow' = {}

Mapped(d) == \E row \in mapRow : row.device = d

-----------------------------------------------------------------------------
(* NewManager *)

\* ParseConfig: the devices of all destinations are found, and the mappings
\* name destinations only.
IsAccepted(c) ==
    /\ \A l \in c.destinations : IsFound(machine, machine.host[l])
    /\ \A p \in c.mappings : p.location \in c.destinations

CowDestinationDevices(c) ==
    FindAllInvolvedDevices(machine, {machine.host[l] : l \in c.destinations})

\* Read the configuration, open the database and see whether it is new.
Start(c) ==
    /\ spc = "down"
    /\ IsAccepted(c)
    /\ dbFile /\ ~MayDrop => conf.destinations \subseteq c.destinations
    /\ conf' = c
    /\ cow' = CowDestinationDevices(c)
    /\ fresh' = ~dbFile
    /\ dbFile' = TRUE
    /\ spc' = "locations"
    /\ todo' = c.destinations
    /\ UNCHANGED <<machine, kTracked, rows, rpc, rarg>>

\* The comparison is one of paths: a slave that is a partition of a tracked
\* disk does not equal the disk.
OnTrackedDisk(l) == FindAllInvolvedDevices(machine, {machine.host[l]}) \cap diskRow # {}

\* Mutation: every location of the configuration is taken.
AddAnyLocation(l) ==
    /\ spc = "locations"
    /\ l \in todo
    /\ locRow' = locRow \cup {l}
    /\ todo' = todo \ {l}
    /\ UNCHANGED <<machine, kTracked, conf, cow, spc, fresh, dbFile, diskRow, mapRow, rpc, rarg>>

\* A conflict, with a tracked disk or with its own row, is passed over.
AddSnapStoreLocation(l) ==
    /\ spc = "locations"
    /\ l \in todo
    /\ locRow' = IF OnTrackedDisk(l) THEN locRow ELSE locRow \cup {l}
    /\ todo' = todo \ {l}
    /\ UNCHANGED <<machine, kTracked, conf, cow, spc, fresh, dbFile, diskRow, mapRow, rpc, rarg>>

\* initTrackedDisks: the physical disks that hold no destination.
BeginDisks ==
    /\ spc = "locations"
    /\ todo = {}
    /\ spc' = "disks"
    /\ todo' = IF conf.auto THEN listDisks(machine, FALSE, FALSE, cow) ELSE {}
    /\ UNCHANGED <<machine, kTracked, conf, cow, fresh, dbFile, rows, rpc, rarg>>

\* AddTrackedDisk: the ioctl, unless the kernel tracks the disk already ...
TrackDisk(d) ==
    /\ spc = "disks"
    /\ d \in todo \ kTracked
    /\ kTracked' = kTracked \cup {d}
    /\ UNCHANGED <<machine, startvars, rows, rpc, rarg>>

\* Mutation: the row comes first.
RecordDiskFirst(d) ==
    /\ spc = "disks"
    /\ d \in todo
    /\ diskRow' = diskRow \cup {d}
    /\ todo' = IF d \in kTracked THEN todo \ {d} ELSE todo
    /\ UNCHANGED <<machine, kTracked, conf, cow, spc, fresh, dbFile, locRow, mapRow, rpc, rarg>>

\* ... then the row, unless it is there.
RecordDisk(d) ==
    /\ spc = "disks"
    /\ d \in todo \cap kTracked
    /\ diskRow' = diskRow \cup {d}
    /\ todo' = todo \ {d}
    /\ UNCHANGED <<machine, kTracked, conf, cow, spc, fresh, dbFile, locRow, mapRow, rpc, rarg>>

BeginMappings ==
    /\ spc = "disks"
    /\ todo = {}
    /\ spc' = "mappings"
    /\ todo' = IF conf.auto THEN conf.mappings ELSE {}
    /\ UNCHANGED <<machine, kTracked, conf, cow, fresh, dbFile, rows, rpc, rarg>>

\* CreateSnapStoreMapping refuses a mapping whose disk or location it does not
\* know; one whose disk is mapped already is a conflict.
IsRefused(p) == p.device \notin diskRow \/ (~Mapped(p.device) /\ p.location \notin locRow)

InsertedMapping(p, by) == [device |-> p.device, location |-> p.location, by |-> by]

\* Mutation: the look-up of an existing mapping is left out.
MapAgain(p) ==
    /\ spc = "mappings"
    /\ p \in todo
    /\ ~IsRefused(p)
    /\ mapRow' = mapRow \cup {InsertedMapping(p, Starter)}
    /\ todo' = todo \ {p}
    /\ UNCHANGED <<machine, kTracked, conf, cow, spc, fresh, dbFile, diskRow, locRow, rpc, rarg>>

\* Mutation: whatever goes wrong is passed over.
MapOrSkip(p) ==
    /\ spc = "mappings"
    /\ p \in todo
    /\ mapRow' = IF Mapped(p.device) \/ IsRefused(p) THEN mapRow
                 ELSE mapRow \cup {InsertedMapping(p, Starter)}
    /\ todo' = todo \ {p}
    /\ UNCHANGED <<machine, kTracked, conf, cow, spc, fresh, dbFile, diskRow, locRow, rpc, rarg>>

\* initStorageMappings passes over conflicts ...
MapConfigured(p) ==
    /\ spc = "mappings"
    /\ p \in todo
    /\ ~IsRefused(p)
    /\ mapRow' = IF Mapped(p.device) THEN mapRow
                 ELSE mapRow \cup {InsertedMapping(p, Starter)}
    /\ todo' = todo \ {p}
    /\ UNCHANGED <<machine, kTracked, conf, cow, spc, fresh, dbFile, diskRow, locRow, rpc, rarg>>

Serve ==
    /\ spc = "mappings"
    /\ todo = {}
    /\ spc' = "running"
    /\ UNCHANGED <<machine, kTracked, conf, cow, fresh, todo, dbFile, rows, rpc, rarg>>

\* ... any other error ends the process, and removes a database that was new.
StartFails ==
    /\ spc \in {"locations", "disks", "mappings"}
    /\ Failures \/ (spc = "mappings" /\ \E p \in todo : IsRefused(p))
    /\ spc' = "down"
    /\ todo' = {}
    /\ IF fresh THEN LoseRows ELSE UNCHANGED <<dbFile, rows>>
    /\ UNCHANGED <<machine, kTracked, conf, cow, fresh, rpc, rarg>>

-----------------------------------------------------------------------------
(* CreateSnapStoreMapping, on behalf of a client *)

\* The look-ups, with the check that the disk has no mapping yet ...
CheckMapping(r, p) ==
    /\ spc = "running"
    /\ rpc[r] = "idle"
    /\ ~IsRefused(p)
    /\ ~Mapped(p.device)
    /\ rpc' = [rpc EXCEPT ![r] = "insert"]
    /\ rarg' = [rarg EXCEPT ![r] = p]
    /\ UNCHANGED <<machine, kTracked, startvars, rows>>

\* ... and, holding no lock since, the insertion.
InsertMapping(r) ==
    /\ rpc[r] = "insert"
    /\ \/ mapRow' = mapRow \cup {InsertedMapping(rarg[r], r)}
       \/ Failures /\ UNCHANGED mapRow
    /\ rpc' = [rpc EXCEPT ![r] = "idle"]
    /\ rarg' = [rarg EXCEPT ![r] = <<>>]
    /\ UNCHANGED <<machine, kTracked, startvars, diskRow, locRow>>

SetupStep ==
    \/ \E c \in Configs : Start(c)
    \/ \E l \in Locations : AddSnapStoreLocation(l)
    \/ BeginDisks
    \/ \E d \in Devices : TrackDisk(d) \/ RecordDisk(d)
    \/ BeginMappings
    \/ \E p \in Mapping : MapConfigured(p)
    \/ Serve
    \/ StartFails

MappingStep ==
    \E r \in Requests : (\E p \in Mapping : CheckMapping(r, p)) \/ InsertMapping(r)

-----------------------------------------------------------------------------
(* The process goes down, with its requests ... *)
StopSetup ==
    /\ spc # "down"
    /\ spc' = "down"
    /\ todo' = {}
    /\ rpc' = [r \in Requests |-> "idle"]
    /\ rarg' = [r \in Requests |-> <<>>]
    /\ UNCHANGED <<machine, kTracked, conf, cow, fresh>>

(* ... or the machine does, and comes up with what it then has. *)
RebootSetup ==
    /\ spc' = "down"
    /\ todo' = {}
    /\ rpc' = [r \in Requests |-> "idle"]
    /\ rarg' = [r \in Requests |-> <<>>]
    /\ machine' \in Machines
    /\ kTracked' = {}
    /\ LoseRows
    /\ UNCHANGED <<conf, cow, fresh>>

-----------------------------------------------------------------------------
(* Properties *)

\* Every location is one the code can judge: on a volume or the first partition
\* of one, with at most one device mapper, of whole disks, in between.
LocationsVisible ==
    \A m \in Machines, l \in Locations : Plain(m, m.host[l])

DisksOfLocation ==
    [m \in Machines |-> [l \in Locations |-> PhysicalDisks(m, m.host[l])]]

\* No CoW file is ever put on a disk that is tracked: its growth would be
\* copied on write in turn, into itself (initTrackedDisks and listDisks on one
\* side, AddSnapStoreLocation on the other, config.go:128-134).
LocationsAreNotTracked ==
    \A l \in locRow : DisksOfLocation[machine][l] \cap diskRow = {}

\* A disk the database knows as tracked is tracked by the kernel module,
\* whatever happened between the ioctl and the row of AddTrackedDisk, or went
\* down since.
TrackedRowsAreTracked == diskRow \subseteq kTracked

\* An agent that serves with auto_init_physical_disks has every mapping of its
\* configuration, or an earlier one of that disk, and the location of each can
\* be found (initStorageMappings; ensureSnapStoreForDisk relies on it).
ConfiguredDisksAreMapped ==
    spc = "running" /\ conf.auto =>
        /\ \A p \in conf.mappings : p.device \in diskRow /\ Mapped(p.device)
        /\ \A row \in mapRow : row.device \in diskRow /\ row.location \in locRow

\* A disk has one mapping at most (CreateSnapStoreMapping's conflict).
OneMappingPerDisk ==
    \A row1, row2 \in mapRow : row1.device = row2.device => row1 = row2

\* No two requests are at a mapping of the same disk, each past its look-up of an
\* existing one and before its insertion.
WindowsDisjoint ==
    \A r1, r2 \in Requests :
        rpc[r1] = "insert" /\ rpc[r2] = "insert" /\ rarg[r1].device = rarg[r2].device => r1 = r2

\* Only that overlap ever gives a disk two mappings, whatever requests come,
\* whatever a start finds, and wherever it is cut off: of two mappings,
\* GetSnapStoreMappingByDeviceID takes whichever comes first, and no request can
\* remove the other (CreateSnapStoreMapping, which takes no lock;
\* initStorageMappings).
OneMappingUnlessRaced == []WindowsDisjoint => []OneMappingPerDisk
=============================================================================

SPECIFICATION MCSpec

CONSTANTS
    Devices <- MCDevices
    Locations <- MCLocations
    Machines <- PlainMachines
    Configs <- SetupConfigs
    Requests = {r1, r2}
    Starter = Starter
    MayDrop = FALSE
    Failures = TRUE
    Numbers = {n1, n2}
    Images = {1, 2}
    NoImage = 0
    NoDisk = NoDisk
    NoNumber = NoNumber
    MaxChanges = 1
    MaxAttempts = 1
    MaxStops = 1
    sda = sda
    sda1 = sda1
    sdb = sdb
    sdb1 = sdb1
    sdb2 = sdb2
    dm0 = dm0
    sdc = sdc
    sr0 = sr0
    l1 = l1
    l2 = l2

INVARIANTS
    DevicesTypeOK
    LocationsAreNotTracked
    TrackedRowsAreTracked
    ConfiguredDisksAreMapped
    ImageIsOwn
    AnnouncementsArrive

PROPERTIES
    LockIsReleased
    OneMappingUnlessRaced

CHECK_DEADLOCK FALSE

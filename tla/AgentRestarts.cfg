SPECIFICATION Spec
CONSTANTS
    d1 = d1
    d2 = d2
    s1 = s1
    s2 = s2
    s3 = s3
    i1 = i1
    i2 = i2
    Disks = {d1}
    SnapIds = {i1, i2}
    StoreIds = {s1, s2}
    StoreDisk <- DiskOf
    NoStore = NoStore
    NoSnap = NoSnap
    MsgCap = 1
    Faults = {"alloc", "bookkeeping", "db", "delete", "ioctl", "start"}
    MaxEvents = 1
    MaxStops = 2
    Reboots = TRUE
    KeepsDB = TRUE
SYMMETRY SnapSymmetry
\* A disk can end up with a recorded snapshot that does not exist any more:
\* then every request is refused.
CHECK_DEADLOCK FALSE
INVARIANTS SnapshotKeepsItsStores ExtentsAreBacked RecordedStoresAreWatched
PROPERTY ImplementsRegistry

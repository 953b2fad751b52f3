SPECIFICATION Spec
CONSTANTS
    d1 = d1
    d2 = d2
    s1 = s1
    s2 = s2
    s3 = s3
    i1 = i1
    i2 = i2
    Disks = {d1}
    SnapIds = {i1, i2}
    StoreIds = {s1, s2}
    StoreDisk <- DiskOf
    NoStore = NoStore
    NoSnap = NoSnap
    MsgCap = 1
    Faults = {}
    MaxEvents = 1
    MaxStops = 0
    Reboots = FALSE
    KeepsDB = TRUE
PROPERTY OverflowIsMarked

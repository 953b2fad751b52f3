----------------------------- MODULE MCAgentDevices -----------------------------
(***************************************************************************)
(* Instances of AgentDevices.                                              *)
(***************************************************************************)
EXTENDS AgentDevices

CONSTANTS sda, sda1, sdb, sdb1, sdb2, dm0, sdc, sr0, l1, l2

MCDevices == {sda, sda1, sdb, sdb1, sdb2, dm0, sdc, sr0}
MCLocations == {l1, l2}

Volumes == {sda, sdb, dm0, sdc, sr0}

\* Two disks with partitions, a device mapper, a disk used for swap and a CD-ROM
\* drive: the first location is on the device d, the second on the first disk.
Machine(slaves, d) ==
    [volumes |-> Volumes, ignored |-> {sr0}, virtual |-> {dm0}, swap |-> {sdc},
     parts |-> [v \in Volumes |-> CASE v = sda -> <<sda1>>
                                    [] v = sdb -> <<sdb1, sdb2>>
                                    [] OTHER -> <<>>],
     slaves |-> [v \in Volumes |-> IF v = dm0 THEN slaves ELSE {}],
     host |-> [l \in MCLocations |-> IF l = l1 THEN d ELSE sda1]]

\* The first location is on a partition, or on a volume group of a whole disk.
PlainMachines == {Machine({}, sdb1), Machine({sdb}, dm0)}

Config(locations, mappings, auto) ==
    [destinations |-> locations, mappings |-> mappings, auto |-> auto]

ToFirst(d) == [device |-> d, location |-> l1]

\* With a mapping, with none, and with the second location as well.
SetupConfigs ==
    {Config({l1}, {ToFirst(sda)}, TRUE), Config({l1}, {}, TRUE),
     Config({l1, l2}, {ToFirst(sda)}, TRUE)}

\* Image devices are interchangeable, so they are made in order.
InOrder == \A i \in Images : diskOf'[i] # NoDisk => \A k \in 1 .. i : diskOf'[k] # NoDisk

\* What other users of the kernel module do matters to the agent only while it
\* looks for an image of its own.  A snapshot needs only one mapping of its disk, and
\* changes nothing that requests for one read, so none is taken while such requests
\* are in progress, or once a disk has two mappings.
Others == ForeignSnapshot \/ \E n \in Numbers : ForeignDelete(n) \/ Change(n)

MCNext ==
    /\ Next
    /\ InOrder
    /\ upc = "idle" => ~Others
    /\ upc' # "idle" => OneMappingPerDisk /\ \A r \in Requests : rpc'[r] = "idle"

MCSpec == Init /\ [][MCNext]_vars /\ WF_vars(RequestStep /\ InOrder)
=============================================================================

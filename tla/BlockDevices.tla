------------------------------ MODULE BlockDevices ------------------------------
(***************************************************************************)
(* internal/storage and internal/util: the block devices of a machine, the *)
(* one that holds a directory, and which disks the agent keeps away from   *)
(* because CoW files are on them.                                          *)
(*                                                                         *)
(* A machine m is what /sys and the mount table say:                       *)
(*   volumes   the entries of /sys/block: disks, device mappers, ...       *)
(*   ignored   those isValidDevice turns away (CD-ROMs, removable disks)   *)
(*   virtual   those with an entry in /sys/devices/virtual/block           *)
(*   swap      those with a swap signature                                 *)
(*   parts     the partitions of a volume, as its directory lists them     *)
(*   slaves    what a device mapper is made of: volumes or partitions      *)
(*   host      the device of the file system a directory is on             *)
(* A device stands for its path and for its major and minor number: while  *)
(* the machine is up, one determines the other.                            *)
(***************************************************************************)
EXTENDS Sequences, FiniteSets

CONSTANTS
    Devices,    \* every name in /dev that can occur
    Locations   \* directories that may be configured to hold CoW files

Partitions(m, v) == {m.parts[v][k] : k \in DOMAIN m.parts[v]}

IsMachine(m) ==
    /\ m.volumes \subseteq Devices
    /\ m.ignored \subseteq m.volumes
    /\ m.virtual \subseteq m.volumes
    /\ m.swap \subseteq m.volumes
    /\ m.parts \in [m.volumes -> Seq(Devices)]
    /\ m.slaves \in [m.volumes -> SUBSET Devices]
    /\ m.host \in [Locations -> Devices]
    /\ \A v \in m.volumes :
          /\ Partitions(m, v) \cap m.volumes = {}
          /\ \A w \in m.volumes \ {v} : Partitions(m, v) \cap Partitions(m, w) = {}
          /\ v \notin m.virtual => m.slaves[v] = {}

-----------------------------------------------------------------------------
(* What the code finds out *)

\* Every caller asks for mounted volumes as well (ignoreMounted is false).
BlockDeviceList(m, includeVirtual, includeSwap) ==
    {v \in m.volumes \ m.ignored :
        /\ includeVirtual \/ v \notin m.virtual
        /\ includeSwap \/ v \notin m.swap}

\* GetBlockDeviceInfoFromFile and FindDeviceByID find a device only if it is a
\* listed volume or a partition of one.
IsFound(m, dev) ==
    \E v \in BlockDeviceList(m, TRUE, TRUE) : dev = v \/ dev \in Partitions(m, v)

\* The search through the partitions stops after the first one, found or not.
FirstPartition(m, v) == IF m.parts[v] = <<>> THEN {} ELSE {Head(m.parts[v])}

\* Mutation: whole volumes only.
WholeVolumes(m, devs) == BlockDeviceList(m, TRUE, TRUE) \cap devs

HostVolumes(m, devs) ==
    {v \in BlockDeviceList(m, TRUE, TRUE) :
        v \in devs \/ FirstPartition(m, v) \cap devs # {}}

\* The volumes that hold the devices, and one level of device mapper slaves.
FindAllInvolvedDevices(m, devs) ==
    HostVolumes(m, devs)
        \cup UNION {m.slaves[v] : v \in HostVolumes(m, devs) \cap m.virtual}

\* Manager: a volume is left out if it, or any of its partitions, is involved.
listDisks(m, includeVirtual, includeSwap, cow) ==
    {v \in BlockDeviceList(m, includeVirtual, includeSwap) :
        ({v} \cup Partitions(m, v)) \cap cow = {}}

-----------------------------------------------------------------------------
(* What it should find out *)

\* Where the blocks of a device are: a partition's on its volume, a device
\* mapper's on its slaves.
Under(m, dev) ==
    {v \in m.volumes : dev \in Partitions(m, v)}
        \cup (IF dev \in m.volumes THEN m.slaves[dev] ELSE {})

\* Everything under a device, however deep: the smallest set that holds it and
\* that Under does not lead out of.
Below(m, dev) ==
    {x \in Devices :
        \A S \in SUBSET Devices :
            dev \in S /\ (\A y \in S : Under(m, y) \subseteq S) => x \in S}

\* The physical disks a device's blocks are on.
PhysicalDisks(m, dev) == Below(m, dev) \cap (m.volumes \ m.virtual)

IsPhysical(m, dev) ==
    \E v \in m.volumes \ m.virtual : dev = v \/ dev \in Partitions(m, v)

\* The devices the code sees through: a volume, or the first partition of one,
\* with nothing but physical disks and their partitions under it.
Shallow(m, dev) ==
    \E v \in BlockDeviceList(m, TRUE, TRUE) :
        /\ dev \in {v} \cup FirstPartition(m, v)
        /\ \A s \in m.slaves[v] : IsPhysical(m, s)

\* The same with whole disks only, which are all a tracked disk is compared to.
Plain(m, dev) ==
    \E v \in BlockDeviceList(m, TRUE, TRUE) :
        /\ dev \in {v} \cup FirstPartition(m, v)
        /\ m.slaves[v] \subseteq m.volumes \ m.virtual
=============================================================================

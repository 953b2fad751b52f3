---------------------------- MODULE BlockDevices_proofs ----------------------------
(***************************************************************************)
(* Which disks FindAllInvolvedDevices and listDisks keep apart, on every   *)
(* machine: those under what the code sees through, and not those under a  *)
(* partition that is not the first of its disk.                            *)
(***************************************************************************)
EXTENDS BlockDevices, TLAPS

\* A set that Under does not lead out of holds all that is below its members.
LEMMA BelowIsSmallest ==
    ASSUME NEW m, NEW dev, NEW S \in SUBSET Devices, dev \in S,
           \A y \in S : Under(m, y) \subseteq S
    PROVE  Below(m, dev) \subseteq S
BY DEF Below

\* What is listed is a volume.
LEMMA ListedAreVolumes ==
    ASSUME NEW m, NEW a, NEW b
    PROVE  BlockDeviceList(m, a, b) \subseteq m.volumes
BY DEF BlockDeviceList

\* The first partition of a volume is one of its partitions.
LEMMA FirstIsPartition ==
    ASSUME NEW m, IsMachine(m), NEW v \in m.volumes
    PROVE  FirstPartition(m, v) \subseteq Partitions(m, v)
<1>1. m.parts[v] \in Seq(Devices)
  BY DEF IsMachine
<1>2. m.parts[v] # <<>> => 1 \in DOMAIN m.parts[v] /\ Head(m.parts[v]) = m.parts[v][1]
  BY <1>1
<1> QED
  BY <1>2 DEF FirstPartition, Partitions

\* Partitions are devices.
LEMMA PartitionsAreDevices ==
    ASSUME NEW m, IsMachine(m), NEW v \in m.volumes
    PROVE  Partitions(m, v) \subseteq Devices
<1>1. m.parts[v] \in Seq(Devices)
  BY DEF IsMachine
<1>2. \A k \in DOMAIN m.parts[v] : m.parts[v][k] \in Devices
  BY <1>1
<1> QED
  BY <1>2 DEF Partitions

\* Only one volume is under a partition, and nothing under a physical disk.
LEMMA UnderPartition ==
    ASSUME NEW m, IsMachine(m), NEW v \in m.volumes, NEW p \in Partitions(m, v)
    PROVE  Under(m, p) = {v}
BY DEF IsMachine, Under

LEMMA UnderVolume ==
    ASSUME NEW m, IsMachine(m), NEW v \in m.volumes
    PROVE  Under(m, v) = m.slaves[v]
BY DEF IsMachine, Under

LEMMA UnderDisk ==
    ASSUME NEW m, IsMachine(m), NEW v \in m.volumes \ m.virtual
    PROVE  Under(m, v) = {}
<1>1. m.slaves[v] = {}
  BY DEF IsMachine
<1> QED
  BY <1>1, UnderVolume

\* The devices the code looks at for one that is v, or the first partition of v.
Seen(m, v, dev) ==
    {dev, v} \cup m.slaves[v]
        \cup {w \in m.volumes \ m.virtual : Partitions(m, w) \cap m.slaves[v] # {}}

LEMMA SeenIsClosed ==
    ASSUME NEW m, IsMachine(m), NEW dev, NEW v \in m.volumes,
           dev \in {v} \cup FirstPartition(m, v),
           \A s \in m.slaves[v] : IsPhysical(m, s)
    PROVE  /\ Seen(m, v, dev) \in SUBSET Devices
           /\ \A y \in Seen(m, v, dev) : Under(m, y) \subseteq Seen(m, v, dev)
<1>1. dev = v \/ dev \in Partitions(m, v)
  BY FirstIsPartition
<1>2. Seen(m, v, dev) \in SUBSET Devices
  BY <1>1, PartitionsAreDevices DEF Seen, IsMachine
<1>3. ASSUME NEW y \in Seen(m, v, dev)
      PROVE  Under(m, y) \subseteq Seen(m, v, dev)
  <2>1. CASE y = v
    BY <2>1, UnderVolume DEF Seen
  <2>2. CASE y = dev /\ y # v
    BY <1>1, <2>2, UnderPartition DEF Seen
  <2>3. CASE y \in m.slaves[v]
    <3>1. PICK w \in m.volumes \ m.virtual : y = w \/ y \in Partitions(m, w)
      BY <2>3 DEF IsPhysical
    <3>2. CASE y = w
      BY <3>1, <3>2, UnderDisk
    <3>3. CASE y \in Partitions(m, w)
      BY <2>3, <3>1, <3>3, UnderPartition DEF Seen
    <3> QED
      BY <3>1, <3>2, <3>3
  <2>4. CASE y \in m.volumes \ m.virtual
    BY <2>4, UnderDisk
  <2> QED
    BY <1>3, <2>1, <2>2, <2>3, <2>4 DEF Seen
<1> QED
  BY <1>2, <1>3

\* The physical disks under such a device: its volume, a slave of its volume, or
\* the disk of a partition that is one.
LEMMA DisksAreSeen ==
    ASSUME NEW m, IsMachine(m), NEW dev, NEW v \in m.volumes,
           dev \in {v} \cup FirstPartition(m, v),
           \A s \in m.slaves[v] : IsPhysical(m, s),
           NEW d \in PhysicalDisks(m, dev)
    PROVE  /\ d \in m.volumes \ m.virtual
           /\ d = v \/ d \in m.slaves[v] \/ Partitions(m, d) \cap m.slaves[v] # {}
<1>1. Below(m, dev) \subseteq Seen(m, v, dev)
  <2> DEFINE S == Seen(m, v, dev)
  <2>1. S \in SUBSET Devices /\ (\A y \in S : Under(m, y) \subseteq S)
    BY SeenIsClosed
  <2>2. dev \in S
    BY DEF Seen
  <2> QED
    BY <2>1, <2>2, BelowIsSmallest
<1>2. dev # v => dev \notin m.volumes
  BY FirstIsPartition DEF IsMachine
<1> QED
  BY <1>1, <1>2 DEF PhysicalDisks, Seen

LEMMA HostIsInvolved ==
    ASSUME NEW m, NEW devs, NEW dev \in devs, NEW v \in BlockDeviceList(m, TRUE, TRUE),
           dev \in {v} \cup FirstPartition(m, v)
    PROVE  /\ v \in FindAllInvolvedDevices(m, devs)
           /\ v \in m.virtual => m.slaves[v] \subseteq FindAllInvolvedDevices(m, devs)
<1>1. v \in HostVolumes(m, devs)
  BY DEF HostVolumes
<1> QED
  BY <1>1 DEF FindAllInvolvedDevices

\* listDisks leaves out every disk that a destination of CoW files is on, as far
\* as FindAllInvolvedDevices can see: on whole volumes or their first
\* partitions, directly or through one device mapper (initTrackedDisks,
\* util.go:62-98, manager.go:191-223).
THEOREM ExclusionSound ==
    ASSUME NEW m, IsMachine(m), NEW devs, NEW dev \in devs, Shallow(m, dev),
           NEW a \in BOOLEAN, NEW b \in BOOLEAN
    PROVE  PhysicalDisks(m, dev)
             \cap listDisks(m, a, b, FindAllInvolvedDevices(m, devs)) = {}
<1>1. PICK v \in BlockDeviceList(m, TRUE, TRUE) :
          /\ dev \in {v} \cup FirstPartition(m, v)
          /\ \A s \in m.slaves[v] : IsPhysical(m, s)
  BY DEF Shallow
<1>2. v \in m.volumes
  BY <1>1, ListedAreVolumes
<1>3. v \notin m.virtual => m.slaves[v] = {}
  BY <1>2 DEF IsMachine
<1>4. ASSUME NEW d \in PhysicalDisks(m, dev)
      PROVE  ({d} \cup Partitions(m, d)) \cap FindAllInvolvedDevices(m, devs) # {}
  <2>1. d = v \/ d \in m.slaves[v] \/ Partitions(m, d) \cap m.slaves[v] # {}
    BY <1>1, <1>2, DisksAreSeen
  <2>2. /\ v \in FindAllInvolvedDevices(m, devs)
        /\ v \in m.virtual => m.slaves[v] \subseteq FindAllInvolvedDevices(m, devs)
    BY <1>1, HostIsInvolved
  <2> QED
    BY <1>3, <2>1, <2>2
<1> QED
  BY <1>4 DEF listDisks

\* Where the slaves are whole disks, the comparison of paths that
\* AddSnapStoreLocation makes finds every disk as well.
LEMMA PlainIsInvolved ==
    ASSUME NEW m, IsMachine(m), NEW dev, Plain(m, dev)
    PROVE  PhysicalDisks(m, dev) \subseteq FindAllInvolvedDevices(m, {dev})
<1>1. PICK v \in BlockDeviceList(m, TRUE, TRUE) :
          /\ dev \in {v} \cup FirstPartition(m, v)
          /\ m.slaves[v] \subseteq m.volumes \ m.virtual
  BY DEF Plain
<1>2. v \in m.volumes
  BY <1>1, ListedAreVolumes
<1>3. v \notin m.virtual => m.slaves[v] = {}
  BY <1>2 DEF IsMachine
<1>4. \A s \in m.slaves[v] : IsPhysical(m, s)
  BY <1>1 DEF IsPhysical
<1>5. ASSUME NEW d \in PhysicalDisks(m, dev)
      PROVE  d \in FindAllInvolvedDevices(m, {dev})
  <2>1. /\ d \in m.volumes
        /\ d = v \/ d \in m.slaves[v] \/ Partitions(m, d) \cap m.slaves[v] # {}
    BY <1>1, <1>2, <1>4, DisksAreSeen
  <2>2. Partitions(m, d) \cap m.slaves[v] = {}
    BY <1>1, <2>1 DEF IsMachine
  <2>3. /\ v \in FindAllInvolvedDevices(m, {dev})
        /\ v \in m.virtual => m.slaves[v] \subseteq FindAllInvolvedDevices(m, {dev})
    BY <1>1, HostIsInvolved
  <2> QED
    BY <1>3, <2>1, <2>2, <2>3
<1> QED
  BY <1>5

LEMMA PlainIsShallow ==
    ASSUME NEW m, NEW dev, Plain(m, dev)
    PROVE  Shallow(m, dev)
BY DEF Plain, Shallow, IsPhysical

LEMMA BelowSteps ==
    ASSUME NEW m, NEW dev \in Devices
    PROVE  /\ dev \in Below(m, dev)
           /\ \A x \in Below(m, dev), y \in Devices : y \in Under(m, x) => y \in Below(m, dev)
BY DEF Below

\* No disk is left out without a reason: part of a device in question is on it
\* (listDisks, and FindAllInvolvedDevices for any devices at all).
THEOREM ExclusionTight ==
    ASSUME NEW m, IsMachine(m), NEW devs, NEW v \in BlockDeviceList(m, FALSE, FALSE),
           v \notin listDisks(m, FALSE, FALSE, FindAllInvolvedDevices(m, devs))
    PROVE  \E dev \in devs : v \in PhysicalDisks(m, dev)
<1>1. v \in m.volumes \ m.virtual /\ v \in Devices
  BY DEF BlockDeviceList, IsMachine
<1>2. PICK x \in {v} \cup Partitions(m, v) : x \in FindAllInvolvedDevices(m, devs)
  BY DEF listDisks
<1>3. PICK u \in HostVolumes(m, devs) : x = u \/ x \in m.slaves[u]
  BY <1>2 DEF FindAllInvolvedDevices
<1>4. u \in m.volumes /\ u \in Devices
  BY <1>3, ListedAreVolumes DEF HostVolumes, IsMachine
<1>5. PICK dev \in devs : dev = u \/ dev \in Partitions(m, u)
  BY <1>3, <1>4, FirstIsPartition DEF HostVolumes
<1>6. dev \in Devices
  BY <1>4, <1>5, PartitionsAreDevices
<1>7. u \in Below(m, dev)
  BY <1>4, <1>5, <1>6, UnderPartition, BelowSteps
<1>8. x \in Devices
  BY <1>1, <1>2, PartitionsAreDevices
<1>9. x \in Below(m, dev)
  BY <1>3, <1>4, <1>6, <1>7, <1>8, UnderVolume, BelowSteps
<1>10. v \in Below(m, dev)
  BY <1>1, <1>2, <1>6, <1>9, UnderPartition, BelowSteps
<1> QED
  BY <1>1, <1>5, <1>10 DEF PhysicalDisks

\* What lies on a partition that is not the first of its disk is not seen: the
\* disk is listed, so it is tracked although CoW files are on it (the break at
\* util.go:89, against config.go:128-134).
THEOREM LaterPartitionsMissed ==
    ASSUME NEW m, IsMachine(m), NEW v \in BlockDeviceList(m, FALSE, FALSE),
           NEW p \in Partitions(m, v), p \notin FirstPartition(m, v)
    PROVE  /\ v \in PhysicalDisks(m, p)
           /\ v \in listDisks(m, FALSE, FALSE, FindAllInvolvedDevices(m, {p}))
<1>1. v \in m.volumes \ m.virtual
  BY DEF BlockDeviceList
<1>2. HostVolumes(m, {p}) = {}
  <2>1. SUFFICES ASSUME NEW u \in HostVolumes(m, {p})
                 PROVE  FALSE
    OBVIOUS
  <2>2. u \in m.volumes /\ (u = p \/ p \in FirstPartition(m, u))
    BY <2>1, ListedAreVolumes DEF HostVolumes
  <2>3. u # p
    BY <1>1, <2>2 DEF IsMachine
  <2>4. p \in Partitions(m, u)
    BY <2>2, <2>3, FirstIsPartition
  <2> QED
    BY <1>1, <2>2, <2>3, <2>4 DEF IsMachine
<1>3. FindAllInvolvedDevices(m, {p}) = {}
  BY <1>2 DEF FindAllInvolvedDevices
<1>4. v \in Below(m, p)
  <2>1. v \in Devices
    BY <1>1 DEF IsMachine
  <2>2. v \in Under(m, p)
    BY <1>1, UnderPartition
  <2> QED
    BY <2>1, <2>2 DEF Below
<1> QED
  BY <1>1, <1>3, <1>4 DEF PhysicalDisks, listDisks
=============================================================================

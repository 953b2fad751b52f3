------------------------ MODULE ChangeTracking_proofs ------------------------
(***************************************************************************)
(* Proofs about ChangeTracking, for disks of any size, any contents and    *)
(* any bounds: typing, the exactness of the ranges, that a chain of        *)
(* backups leaves a faithful copy of all but the first block, and that     *)
(* BackupService is implemented.                                           *)
(***************************************************************************)
EXTENDS ChangeTracking, TLAPS

-----------------------------------------------------------------------------
(* Typing *)

\* What the program counters say about the local variables.
LocalsOK ==
    /\ apc = "info" => new \in Taken
    /\ apc = "bitmap" => new \in Numbered
    /\ cpc # "idle" => target \in VolumeSnapshots
    /\ cpc = "scan" => start + length <= pos

TrackingInv == TrackingTypeOK /\ LocalsOK

LEMMA InitTracking == Init => TrackingInv
BY SizeAssumption DEF Init, TrackingInv, TrackingTypeOK, LocalsOK, Blocks, Bitmaps, Bases

LEMMA NextNumberType ==
    ASSUME number \in 0 .. MaxNumber
    PROVE  NextNumber \in 1 .. MaxNumber
BY SizeAssumption DEF NextNumber

LEMMA SwitchMapTypes ==
    ASSUME TrackingTypeOK, SwitchMap
    PROVE  /\ number' \in 1 .. MaxNumber
           /\ frozen' \in Bitmaps
           /\ marks' \in Bitmaps
           /\ generation' \in Generations
           /\ used' \subseteq Generations
<1>1. number' \in 1 .. MaxNumber
  BY NextNumberType DEF SwitchMap, TrackingTypeOK
<1>2. frozen' \in Bitmaps /\ marks' \in Bitmaps
  BY SizeAssumption DEF SwitchMap, TrackingTypeOK, Bitmaps
<1>3. generation' \in Generations /\ used' \subseteq Generations
  BY DEF SwitchMap, TrackingTypeOK, NewGeneration
<1>. QED  BY <1>1, <1>2, <1>3

LEMMA KernelTyped == TrackingInv /\ KernelStep => TrackingInv'
<1>. SUFFICES ASSUME TrackingInv, KernelStep PROVE TrackingInv'
  OBVIOUS
<1>. USE DEF TrackingInv, TrackingTypeOK, LocalsOK
<1>1. ASSUME NEW b \in Blocks, NEW c \in Contents, Write(b, c) PROVE TrackingInv'
  <2>1. disk' \in Disk
    BY <1>1 DEF Write, Disk
  <2>2. marks' \in Bitmaps
    BY <1>1, NextNumberType DEF Write, Bitmaps
  <2>3. writes' \in Nat
    BY <1>1 DEF Write
  <2>. QED  BY <1>1, <2>1, <2>2, <2>3 DEF Write, agentVars, clientVars, scanVars
<1>2. CASE ForeignSnapshot
  <2>1. foreign' \in Nat
    BY <1>2 DEF ForeignSnapshot
  <2>. QED  BY <1>2, <2>1, SwitchMapTypes DEF ForeignSnapshot, clientVars, scanVars
<1>3. CASE Reboot
  BY <1>3, SizeAssumption DEF Reboot, NewGeneration, Bitmaps, Blocks
<1>. QED  BY <1>1, <1>2, <1>3 DEF KernelStep

LEMMA AgentTyped == TrackingInv /\ AgentStep => TrackingInv'
<1>. SUFFICES ASSUME TrackingInv, AgentStep PROVE TrackingInv'
  OBVIOUS
<1>. USE DEF TrackingInv, TrackingTypeOK, LocalsOK
<1>1. CASE BeginSnapshot
  BY <1>1 DEF BeginSnapshot, kernelVars, clientVars, scanVars
<1>2. ASSUME NEW m \in Images, TakeSnapshot(m) PROVE TrackingInv'
  <2>1. images' \in [Images -> Disk \cup {Blank}] /\ new' \in Taken
    BY <1>2 DEF TakeSnapshot, Taken
  <2>. QED  BY <1>2, <2>1, SwitchMapTypes DEF TakeSnapshot, clientVars, scanVars
<1>3. CASE ReadCBTInfo
  <2>1. new' \in Numbered
    BY <1>3 DEF ReadCBTInfo, Taken, Numbered
  <2>. QED  BY <1>3, <2>1 DEF ReadCBTInfo, kernelVars, clientVars, scanVars
<1>4. CASE ReadBitmap
  <2>1. rows' \subseteq VolumeSnapshots
    BY <1>4 DEF ReadBitmap, Numbered, VolumeSnapshots
  <2>. QED  BY <1>4, <2>1, SizeAssumption DEF ReadBitmap, kernelVars, clientVars, scanVars
<1>5. CASE SnapshotFails
  <2>1. images' \in [Images -> Disk \cup {Blank}]
    BY <1>5 DEF SnapshotFails
  <2>. QED  BY <1>5, <2>1, SizeAssumption DEF SnapshotFails, clientVars, scanVars
<1>6. ASSUME NEW r \in rows, DeleteSnapshot(r) PROVE TrackingInv'
  BY <1>6 DEF DeleteSnapshot, clientVars, scanVars
<1>. QED  BY <1>1, <1>2, <1>3, <1>4, <1>5, <1>6 DEF AgentStep

LEMMA ClientTyped == TrackingInv /\ ClientStep => TrackingInv'
<1>. SUFFICES ASSUME TrackingInv, ClientStep PROVE TrackingInv'
  OBVIOUS
<1>. USE DEF TrackingInv, TrackingTypeOK, LocalsOK
<1>0. 0 \in Blocks /\ 0 \in 0 .. N
  BY SizeAssumption DEF Blocks
<1>1. ASSUME NEW r \in rows, AskChanges(r) PROVE TrackingInv'
  BY <1>0, <1>1 DEF AskChanges, kernelVars, agentVars
<1>2. CASE ScanBlock
  <2>1. pos \in Blocks /\ pos + 1 \in 0 .. N /\ start \in Nat /\ length \in Nat
    BY <1>2, SizeAssumption DEF ScanBlock, Blocks
  <2>2. /\ start' \in Blocks
        /\ length' \in 0 .. N
        /\ start' + length' <= pos + 1
    BY <1>2, <2>1, SizeAssumption
       DEF ScanBlock, SkipBlock, FirstRange, NextRange, ExtendRange, Blocks
  <2>3. ranges' \subseteq Ranges
    BY <1>2 DEF ScanBlock, SkipBlock, FirstRange, NextRange, ExtendRange, CurrentRange, Ranges
  <2>. QED  BY <1>2, <2>1, <2>2, <2>3 DEF ScanBlock, kernelVars, agentVars
<1>3. CASE ScanEnds
  BY <1>3 DEF ScanEnds, CurrentRange, Ranges, kernelVars, agentVars
<1>4. CASE FindVolumeSnapshot
  BY <1>0, <1>4 DEF FindVolumeSnapshot, EndRequest, scanVars, kernelVars, agentVars
<1>5. CASE Download
  <2>1. target \in VolumeSnapshots
    BY <1>5 DEF Download
  <2>2. base' \in Bases
    BY <1>5, <2>1 DEF Download, Bases, VolumeSnapshots
  <2>3. images[target.image] \in Disk
    BY <1>5, <2>1 DEF Download, VolumeSnapshots
  <2>4. copy' \in [Blocks -> Contents \cup {Blank}]
    BY <1>5, <2>3 DEF Download, Disk
  <2>. QED  BY <1>0, <1>5, <2>2, <2>4 DEF Download, EndRequest, kernelVars, agentVars
<1>6. CASE DownloadFails
  BY <1>0, <1>6 DEF DownloadFails, EndRequest, kernelVars, agentVars
<1>. QED  BY <1>1, <1>2, <1>3, <1>4, <1>5, <1>6 DEF ClientStep

LEMMA TrackingStep == TrackingInv /\ [Next]_vars => TrackingInv'
<1>1. TrackingInv /\ UNCHANGED vars => TrackingInv'
  BY DEF TrackingInv, TrackingTypeOK, LocalsOK, vars, kernelVars, agentVars, clientVars, scanVars
<1>. QED  BY <1>1, KernelTyped, AgentTyped, ClientTyped DEF Next

\* The variables keep their types, numbers and bitmap elements in a byte, and
\* the locals of each request are set wherever the code uses them.
THEOREM TrackingTypeCorrect == Spec => []TrackingTypeOK
<1>1. TrackingInv => TrackingTypeOK
  BY DEF TrackingInv
<1>. QED  BY <1>1, InitTracking, TrackingStep, PTL DEF Spec

-----------------------------------------------------------------------------
(* The loop of fetchIncrements *)

\* Blocks accounted for so far: those of finished ranges and of the open one.
Collected == Covered \cup Interval(CurrentRange)

\* After pos turns: a full backup is one range that has grown to pos; an
\* incremental one has collected the changed blocks below pos, all but
\* possibly block 0, which start = 0 cannot tell from "no range yet".
ScanInv ==
    cpc = "scan" =>
        \/ /\ PreviousNumber = 0
           /\ start = 0 /\ length = pos /\ ranges = {}
        \/ /\ PreviousNumber # 0
           /\ \A b \in Collected : b \in 0 .. pos - 1 /\ Changed(b)
           /\ \A b \in 1 .. pos - 1 : Changed(b) => b \in Collected
           /\ start = 0 => ranges = {} /\ length <= 1

RangesInv == ScanInv /\ RangesAreExact

LEMMA AddRange ==
    ASSUME NEW r, NEW S
    PROVE  UNION {Interval(q) : q \in S \cup {r}}
             = (UNION {Interval(q) : q \in S}) \cup Interval(r)
OBVIOUS

LEMMA NoRange == UNION {Interval(q) : q \in {}} = {}
OBVIOUS

\* Outside of the loop nothing that it works on changes.
LEMMA RangesKept ==
    ASSUME RangesInv, UNCHANGED <<base, target, cpc, scanVars>>
    PROVE  RangesInv'
BY DEF RangesInv, ScanInv, RangesAreExact, Collected, Covered, Interval, CurrentRange,
       PreviousNumber, Changed, scanVars

LEMMA RangesIdle == ASSUME cpc' = "idle" PROVE RangesInv'
BY DEF RangesInv, ScanInv, RangesAreExact

LEMMA ScanStarts ==
    ASSUME TrackingInv, NEW r \in rows, AskChanges(r)
    PROVE  RangesInv'
<1>1. /\ cpc' = "scan" /\ pos' = 0 /\ start' = 0 /\ length' = 0 /\ ranges' = {}
  BY DEF AskChanges
<1>2. Collected' = {}
  BY <1>1, SizeAssumption DEF Collected, Covered, Interval, CurrentRange
<1>3. ScanInv'
  BY <1>1, <1>2 DEF ScanInv
<1>4. RangesAreExact'
  BY <1>1 DEF RangesAreExact
<1>. QED  BY <1>3, <1>4 DEF RangesInv

LEMMA ScanTurns ==
    ASSUME TrackingInv, RangesInv, ScanBlock
    PROVE  RangesInv'
<1>. USE DEF TrackingInv, TrackingTypeOK
<1>1. /\ cpc = "scan" /\ cpc' = "scan" /\ pos' = pos + 1
      /\ pos \in Blocks /\ pos \in Nat /\ start \in Nat /\ length \in Nat
      /\ UNCHANGED <<base, target>>
      /\ start + length <= pos
  BY SizeAssumption DEF ScanBlock, Blocks, LocalsOK
<1>2. RangesAreExact'
  BY <1>1 DEF RangesAreExact
<1>3. PreviousNumber' = PreviousNumber /\ \A b : Changed(b)' <=> Changed(b)
  BY <1>1 DEF PreviousNumber, Changed
<1>4. CASE PreviousNumber = 0
  <2>1. ExtendRange
    BY <1>1, <1>4 DEF ScanBlock, SkipBlock, FirstRange, NextRange, ScanInv, RangesInv
  <2>. QED  BY <1>1, <1>2, <1>3, <1>4, <2>1 DEF RangesInv, ScanInv, ExtendRange
<1>5. CASE PreviousNumber # 0
  <2>1. /\ \A b \in Collected : b \in 0 .. pos - 1 /\ Changed(b)
        /\ \A b \in 1 .. pos - 1 : Changed(b) => b \in Collected
        /\ start = 0 => ranges = {} /\ length <= 1
    BY <1>1, <1>5 DEF RangesInv, ScanInv
  <2>2. SUFFICES /\ \A b \in Collected' : b \in 0 .. pos /\ Changed(b)
                 /\ \A b \in 1 .. pos : Changed(b) => b \in Collected'
                 /\ start' = 0 => ranges' = {} /\ length' <= 1
    BY <1>1, <1>2, <1>3, <1>5 DEF RangesInv, ScanInv
  <2>3. CASE SkipBlock
    <3>1. Collected' = Collected
      BY <2>3 DEF SkipBlock, Collected, Covered, Interval, CurrentRange
    <3>. QED  BY <1>1, <2>1, <2>3, <3>1 DEF SkipBlock
  <2>4. CASE FirstRange
    <3>1. Covered' = {} /\ Interval(CurrentRange)' = {pos}
      BY <1>1, <2>1, <2>4, NoRange DEF FirstRange, Covered, Interval, CurrentRange
    <3>2. Collected \subseteq {0}
      BY <1>1, <2>1, <2>4, NoRange DEF FirstRange, Collected, Covered, Interval, CurrentRange
    <3>. QED  BY <1>1, <2>1, <2>4, <3>1, <3>2 DEF FirstRange, Collected
  <2>5. CASE NextRange
    <3>1. Covered' = Collected
      BY <2>5, AddRange DEF NextRange, Collected, Covered
    <3>2. Interval(CurrentRange)' = {pos}
      BY <1>1, <2>5 DEF NextRange, Interval, CurrentRange
    <3>3. pos # 0
      BY <1>1, <1>5, <2>5 DEF NextRange
    <3>. QED  BY <1>1, <1>5, <2>1, <2>5, <3>1, <3>2, <3>3 DEF NextRange, Collected
  <2>6. CASE ExtendRange
    <3>1. Interval(CurrentRange)' = Interval(CurrentRange) \cup {pos}
      BY <1>1, <2>6 DEF ExtendRange, Interval, CurrentRange
    <3>2. Covered' = Covered
      BY <2>6 DEF ExtendRange, Covered
    <3>. QED  BY <1>1, <1>5, <2>1, <2>6, <3>1, <3>2 DEF ExtendRange, Collected
  <2>. QED  BY <2>3, <2>4, <2>5, <2>6 DEF ScanBlock
<1>. QED  BY <1>4, <1>5

LEMMA ScanFinishes ==
    ASSUME TrackingInv, RangesInv, ScanEnds
    PROVE  RangesInv'
<1>1. /\ cpc = "scan" /\ cpc' = "lookup" /\ pos = N
      /\ UNCHANGED <<base, target>>
      /\ N \in Nat \ {0}
  BY SizeAssumption DEF ScanEnds
<1>2. Covered' = Collected
  BY AddRange DEF ScanEnds, Collected, Covered
<1>3. PreviousNumber' = PreviousNumber /\ \A b : Changed(b)' <=> Changed(b)
  BY <1>1 DEF PreviousNumber, Changed
<1>4. CASE PreviousNumber = 0
  <2>1. Collected = Blocks
    BY <1>1, <1>4, NoRange DEF RangesInv, ScanInv, Collected, Covered, Interval, CurrentRange, Blocks
  <2>. QED  BY <1>1, <1>2, <1>3, <1>4, <2>1 DEF RangesInv, ScanInv, RangesAreExact
<1>5. CASE PreviousNumber # 0
  BY <1>1, <1>2, <1>3, <1>5 DEF RangesInv, ScanInv, RangesAreExact, Blocks
<1>. QED  BY <1>4, <1>5

LEMMA RangesStep == TrackingInv /\ RangesInv /\ [Next]_vars => RangesInv'
<1>. SUFFICES ASSUME TrackingInv, RangesInv, [Next]_vars PROVE RangesInv'
  OBVIOUS
<1>1. ASSUME KernelStep \/ AgentStep \/ UNCHANGED vars PROVE RangesInv'
  <2>1. cpc' = "idle" \/ UNCHANGED <<base, target, cpc, scanVars>>
    BY <1>1 DEF KernelStep, Write, ForeignSnapshot, Reboot, AgentStep, BeginSnapshot,
                TakeSnapshot, ReadCBTInfo, ReadBitmap, SnapshotFails, DeleteSnapshot,
                vars, clientVars
  <2>. QED  BY <2>1, RangesKept, RangesIdle
<1>2. ASSUME ClientStep PROVE RangesInv'
  <2>1. ASSUME FindVolumeSnapshot PROVE RangesInv'
    <3>1. CASE cpc' = "open"
      BY <2>1, <3>1 DEF FindVolumeSnapshot, RangesInv, ScanInv, RangesAreExact, Covered, Interval,
                        PreviousNumber, Changed, scanVars, EndRequest
    <3>2. CASE cpc' = "idle"
      BY <3>2, RangesIdle
    <3>. QED  BY <2>1, <3>1, <3>2 DEF FindVolumeSnapshot, EndRequest
  <2>2. ASSUME Download \/ DownloadFails PROVE RangesInv'
    BY <2>2, RangesIdle DEF Download, DownloadFails, EndRequest
  <2>. QED  BY <1>2, <2>1, <2>2, ScanStarts, ScanTurns, ScanFinishes DEF ClientStep
<1>. QED  BY <1>1, <1>2 DEF Next

\* Whatever the bitmap and whatever the numbers, fetchIncrements returns the
\* changed blocks, the first one possibly apart, and nothing else.
THEOREM RangesExact == Spec => []RangesAreExact
<1>1. Init => RangesInv
  BY DEF Init, RangesInv, ScanInv, RangesAreExact
<1>2. RangesInv => RangesAreExact
  BY DEF RangesInv
<1>. QED  BY <1>1, <1>2, InitTracking, TrackingStep, RangesStep, PTL DEF Spec

-----------------------------------------------------------------------------
(* The copy *)

\* The snapshots whose content still matters to somebody.
Known == rows \cup {base}

\* A block that differs between a snapshot and the disk, or between two
\* snapshots of a generation, is marked with a number after the first one's.
HistoryInv ==
    /\ generation \in used
    /\ \A k \in Known : k # NoBase => k.generation \in used
    /\ \A b \in Blocks : marks[b] <= NextNumber
    /\ \A k \in Known : k.generation = generation =>
          /\ k.number <= number
          /\ number # MaxNumber =>
                \A b \in Blocks : k.content[b] # disk[b] => k.number < marks[b]
    /\ \A r \in rows, k \in Known : k.generation = r.generation /\ k.number <= r.number =>
          \A b \in Blocks : k.content[b] # r.content[b] =>
                               k.number < r.bitmap[b] /\ r.bitmap[b] <= r.number

\* The same for the latest snapshot, which is not a row yet.
LatestInv ==
    /\ \A k \in Known : k.generation = generation =>
          /\ k.number < number
          /\ \A b \in Blocks : k.content[b] # new.content[b] =>
                                k.number < frozen[b] /\ frozen[b] <= number
    /\ number # MaxNumber => \A b \in Blocks : new.content[b] # disk[b] => number < marks[b]

\* The number is that many snapshots away from the one the request began with.
NumberAfter(n) == number = pre + n \/ number + MaxNumber = pre + n

\* So if it is one away, the latest snapshot is the request's own.
RequestInv ==
    /\ foreign <= MaxForeign
    /\ apc = "take" => NumberAfter(foreign)
    /\ apc = "info" => NumberAfter(foreign + 1) /\ (foreign = 0 => LatestInv)
    /\ apc = "bitmap" =>
          /\ new.generation = generation /\ new.number = number
          /\ LatestInv

\* The disk has one snapshot at most, and an image device shows it.
ImageInv ==
    /\ \A r, q \in rows : r = q
    /\ apc # "idle" => rows = {}
    /\ \A r \in rows : images[r.image] = r.content
    /\ apc \in {"info", "bitmap"} => images[new.image] = new.content

\* What was looked up stays until it is opened, if no race is run; the client
\* never goes back.
ClientInv ==
    /\ cpc = "open" => target \in rows
    /\ \A r \in rows : base.generation = r.generation => base.number <= r.number

CopyInv == HistoryInv /\ RequestInv /\ ImageInv /\ ClientInv /\ CopyMatchesSnapshot

LEMMA InitCopy == Init => CopyInv
BY SizeAssumption, BoundAssumption, BlankAssumption
   DEF Init, CopyInv, HistoryInv, RequestInv, NumberAfter, ImageInv, ClientInv,
       CopyMatchesSnapshot, CopyMatches, Known, NoBase, NextNumber, Blocks

LEMMA KnownTypes ==
    ASSUME TrackingInv, NEW k \in Known
    PROVE  /\ k.number \in Nat
           /\ k # NoBase => k.generation \in Generations /\ k.content \in Disk
           /\ k = NoBase => k.generation \notin Generations
BY BlankAssumption DEF TrackingInv, TrackingTypeOK, Known, VolumeSnapshots, Bases, NoBase

\* Nothing is lost by knowing less.
LEMMA HistoryKept ==
    ASSUME HistoryInv, rows' \subseteq rows, base' \in Known,
           UNCHANGED <<disk, generation, used, number, marks>>
    PROVE  HistoryInv'
BY DEF HistoryInv, Known, NextNumber

LEMMA LatestKept ==
    ASSUME LatestInv, rows' \subseteq rows, base' \in Known, new'.content = new.content,
           UNCHANGED <<disk, generation, number, marks, frozen>>
    PROVE  LatestInv'
BY DEF LatestInv, Known

\* A snapshot, anybody's, is marked off from all earlier ones.
LEMMA SnapshotMarked ==
    ASSUME TrackingInv, HistoryInv, SwitchMap, UNCHANGED <<disk, rows, base>>
    PROVE  /\ HistoryInv'
           /\ new'.content = disk => LatestInv'
<1>. USE DEF TrackingInv, TrackingTypeOK
<1>1. /\ number \in Nat /\ MaxNumber \in Nat \ {0} /\ number <= MaxNumber
      /\ \A b \in Blocks : marks[b] \in Nat /\ marks[b] <= NextNumber
      /\ number' = NextNumber /\ frozen' = marks
  BY SizeAssumption DEF SwitchMap, HistoryInv, Bitmaps
<1>2. generation' \in used' /\ used \subseteq used'
  BY DEF SwitchMap, NewGeneration, HistoryInv
<1>3. Known' = Known
  BY DEF Known
<1>4. ASSUME NEW k \in Known, k.generation = generation'
      PROVE  /\ number # MaxNumber /\ generation' = generation
             /\ number' = number + 1 /\ k.number <= number /\ k.number \in Nat
             /\ \A b \in Blocks : k.content[b] # disk[b] => k.number < marks[b]
  <2>1. k # NoBase /\ k.generation \in used
    BY <1>2, <1>4, KnownTypes, SwitchMapTypes DEF HistoryInv
  <2>2. number # MaxNumber /\ generation' = generation
    BY <1>4, <2>1 DEF SwitchMap, NewGeneration
  <2>. QED  BY <1>1, <1>4, <2>2, KnownTypes DEF HistoryInv, NextNumber
<1>5. HistoryInv'
  <2>1. \A k \in Known' : k # NoBase => k.generation \in used'
    BY <1>2, <1>3 DEF HistoryInv
  <2>2. \A b \in Blocks : marks'[b] <= NextNumber'
    BY <1>1, NextNumberType DEF SwitchMap, NextNumber
  <2>3. ASSUME NEW k \in Known', k.generation = generation', number' # MaxNumber
        PROVE  \A b \in Blocks : k.content[b] # disk'[b] => k.number < marks'[b]
    BY <1>1, <1>3, <1>4, <2>3 DEF SwitchMap
  <2>4. \A k \in Known' : k.generation = generation' => k.number <= number'
    BY <1>1, <1>3, <1>4
  <2>. QED  BY <1>2, <1>3, <2>1, <2>2, <2>3, <2>4 DEF HistoryInv
<1>6. ASSUME new'.content = disk PROVE LatestInv'
  <2>1. ASSUME NEW k \in Known', k.generation = generation'
        PROVE  /\ k.number < number'
               /\ \A b \in Blocks : k.content[b] # new'.content[b] =>
                                     k.number < frozen'[b] /\ frozen'[b] <= number'
    BY <1>1, <1>3, <1>4, <1>6, <2>1
  <2>. QED  BY <1>6, <2>1 DEF LatestInv
<1>. QED  BY <1>5, <1>6

\* The numbers wrap around, but never by as many snapshots as a request meets.
LEMMA NumberAdvances ==
    ASSUME TrackingInv, NEW n \in Nat, n < MaxNumber, NumberAfter(n), SwitchMap, pre' = pre
    PROVE  NumberAfter(n + 1)'
BY SizeAssumption DEF NumberAfter, SwitchMap, NextNumber, TrackingInv, TrackingTypeOK

LEMMA WriteMarked ==
    ASSUME TrackingInv, CopyInv, NEW b \in Blocks, NEW c \in Contents, Write(b, c)
    PROVE  CopyInv'
<1>. USE DEF TrackingInv, TrackingTypeOK
<1>1. /\ UNCHANGED <<generation, used, number, frozen, images, apc, pre, new, foreign, rows>>
      /\ UNCHANGED <<cpc, base, copy, target>>
      /\ disk' = [disk EXCEPT ![b] = c] /\ marks' = [marks EXCEPT ![b] = NextNumber]
      /\ disk \in [Blocks -> Contents] /\ marks \in [Blocks -> 0 .. MaxNumber]
      /\ number \in Nat /\ MaxNumber \in Nat /\ number <= MaxNumber
  BY SizeAssumption DEF Write, agentVars, clientVars, Disk, Bitmaps
<1>2. Known' = Known /\ NextNumber' = NextNumber /\ NextNumber \in Nat
  BY <1>1, NextNumberType DEF Known, NextNumber
<1>3. number # MaxNumber => NextNumber = number + 1
  BY DEF NextNumber
<1>4. HistoryInv'
  <2>1. \A d \in Blocks : marks'[d] <= NextNumber'
    BY <1>1, <1>2 DEF CopyInv, HistoryInv
  <2>2. ASSUME NEW k \in Known, k.generation = generation, number # MaxNumber
        PROVE  \A d \in Blocks : k.content[d] # disk'[d] => k.number < marks'[d]
    <3>1. k.number <= number /\ k.number \in Nat
      BY <2>2, KnownTypes DEF CopyInv, HistoryInv
    <3>. QED  BY <1>1, <1>3, <2>2, <3>1 DEF CopyInv, HistoryInv
  <2>. QED  BY <1>1, <1>2, <2>1, <2>2 DEF CopyInv, HistoryInv
<1>5. LatestInv => LatestInv'
  BY <1>1, <1>2, <1>3 DEF LatestInv
<1>6. RequestInv'
  BY <1>1, <1>5 DEF CopyInv, RequestInv, NumberAfter
<1>7. ImageInv' /\ ClientInv' /\ CopyMatchesSnapshot'
  BY <1>1 DEF CopyInv, ImageInv, ClientInv, CopyMatchesSnapshot, CopyMatches
<1>. QED  BY <1>4, <1>6, <1>7 DEF CopyInv

LEMMA ForeignMarked ==
    ASSUME TrackingInv, CopyInv, "bitmap" \notin Races, ForeignSnapshot
    PROVE  CopyInv'
<1>. USE DEF TrackingInv, TrackingTypeOK
<1>1. /\ SwitchMap /\ apc # "bitmap"
      /\ UNCHANGED <<disk, images, apc, pre, new, rows, cpc, base, copy, target>>
  BY DEF ForeignSnapshot, clientVars
<1>2. HistoryInv'
  BY <1>1, SnapshotMarked DEF CopyInv
<1>3. RequestInv'
  <2>1. CASE apc = "idle"
    BY <1>1, <2>1 DEF ForeignSnapshot, CopyInv, RequestInv
  <2>2. CASE apc # "idle"
    <3>1. foreign < MaxForeign /\ foreign' = foreign + 1 /\ foreign \in Nat /\ MaxForeign \in Nat
      BY <2>2, BoundAssumption DEF ForeignSnapshot
    <3>2. apc = "take" => NumberAfter(foreign)'
      BY <1>1, <3>1, NumberAdvances, BoundAssumption, SizeAssumption
         DEF CopyInv, RequestInv, NumberAfter
    <3>3. ASSUME apc = "info" PROVE NumberAfter(foreign + 1)'
      <4>1. NumberAfter(foreign + 1) /\ foreign + 1 \in Nat /\ foreign + 1 < MaxNumber
        BY <3>1, <3>3, BoundAssumption, SizeAssumption DEF CopyInv, RequestInv
      <4>. QED  BY <1>1, <3>1, <4>1, NumberAdvances DEF NumberAfter
    <3>. QED  BY <1>1, <3>1, <3>2, <3>3 DEF RequestInv
  <2>. QED  BY <2>1, <2>2
<1>4. ImageInv' /\ ClientInv' /\ CopyMatchesSnapshot'
  BY <1>1 DEF CopyInv, ImageInv, ClientInv, CopyMatchesSnapshot, CopyMatches
<1>. QED  BY <1>2, <1>3, <1>4 DEF CopyInv

LEMMA RebootForgets ==
    ASSUME TrackingInv, CopyInv, Reboot
    PROVE  CopyInv'
<1>. USE DEF TrackingInv, TrackingTypeOK
<1>1. /\ generation' \in Generations /\ generation' \notin used
      /\ used' = used \cup {generation'}
      /\ number' = 0 /\ marks' = [b \in Blocks |-> 0] /\ rows' = {}
      /\ apc' = "idle" /\ foreign' = 0 /\ cpc' = "idle"
      /\ UNCHANGED <<base, copy>>
  BY DEF Reboot, NewGeneration
<1>2. base # NoBase => base.generation \in used
  BY DEF CopyInv, HistoryInv, Known
<1>3. base.generation # generation'
  BY <1>1, <1>2, BlankAssumption DEF NoBase
<1>4. HistoryInv'
  BY <1>1, <1>2, <1>3, SizeAssumption DEF HistoryInv, Known, NextNumber
<1>5. RequestInv' /\ ImageInv' /\ ClientInv'
  BY <1>1, BoundAssumption DEF RequestInv, ImageInv, ClientInv
<1>6. CopyMatchesSnapshot'
  BY <1>1 DEF CopyInv, CopyMatchesSnapshot, CopyMatches
<1>. QED  BY <1>4, <1>5, <1>6 DEF CopyInv

LEMMA AgentMarked ==
    ASSUME TrackingInv, CopyInv, "consume" \notin Races, AgentStep
    PROVE  CopyInv'
<1>. USE DEF TrackingInv, TrackingTypeOK, LocalsOK
<1>1. CASE BeginSnapshot
  BY <1>1, SizeAssumption, BoundAssumption
     DEF BeginSnapshot, kernelVars, clientVars, CopyInv, HistoryInv, RequestInv, NumberAfter,
         ImageInv, ClientInv, CopyMatchesSnapshot, CopyMatches, Known, NextNumber
<1>2. ASSUME NEW m \in Images, TakeSnapshot(m) PROVE CopyInv'
  <2>1. /\ apc = "take" /\ apc' = "info" /\ SwitchMap /\ images[m] = Blank
        /\ images' = [images EXCEPT ![m] = disk]
        /\ new' = [image |-> m, content |-> disk]
        /\ new'.content = disk /\ new'.image = m
        /\ UNCHANGED <<disk, pre, foreign, rows, cpc, base, copy, target>>
    BY <1>2 DEF TakeSnapshot, clientVars
  <2>2. HistoryInv' /\ LatestInv'
    BY <2>1, SnapshotMarked DEF CopyInv
  <2>3. RequestInv'
    <3>1. foreign \in Nat /\ foreign < MaxNumber /\ NumberAfter(foreign)
      BY <2>1, BoundAssumption, SizeAssumption DEF CopyInv, RequestInv
    <3>2. NumberAfter(foreign + 1)'
      BY <2>1, <3>1, NumberAdvances DEF NumberAfter
    <3>. QED  BY <2>1, <2>2, <3>2 DEF CopyInv, RequestInv
  <2>4. ImageInv'
    BY <2>1 DEF CopyInv, ImageInv
  <2>5. ClientInv' /\ CopyMatchesSnapshot'
    BY <2>1 DEF CopyInv, ClientInv, CopyMatchesSnapshot, CopyMatches
  <2>. QED  BY <2>2, <2>3, <2>4, <2>5 DEF CopyInv
<1>3. CASE ReadCBTInfo
  <2>1. /\ apc = "info" /\ apc' = "bitmap" /\ number = pre + 1
        /\ new'.generation = generation /\ new'.number = number
        /\ new'.content = new.content /\ new'.image = new.image
        /\ UNCHANGED <<kernelVars, foreign, rows, cpc, base, copy, target>>
    BY <1>3 DEF ReadCBTInfo, clientVars
  <2>2. foreign = 0
    BY <2>1, SizeAssumption, BoundAssumption DEF CopyInv, RequestInv, NumberAfter
  <2>3. LatestInv'
    BY <2>1, <2>2, LatestKept DEF CopyInv, RequestInv, kernelVars, Known
  <2>4. HistoryInv'
    BY <2>1, HistoryKept DEF CopyInv, kernelVars, Known
  <2>. QED  BY <2>1, <2>3, <2>4
            DEF CopyInv, RequestInv, ImageInv, ClientInv, CopyMatchesSnapshot, CopyMatches, kernelVars
<1>4. CASE ReadBitmap
  <2>. DEFINE r == [image |-> new.image, content |-> new.content, generation |-> new.generation,
                    number |-> new.number, bitmap |-> frozen]
  <2>1. /\ apc = "bitmap" /\ apc' = "idle" /\ rows' = rows \cup {r} /\ foreign' = 0
        /\ UNCHANGED <<kernelVars, cpc, base, copy, target>>
    BY <1>4 DEF ReadBitmap, clientVars
  <2>2. /\ r.generation = generation /\ r.number = number /\ r.bitmap = frozen
        /\ r.content = new.content /\ r.image = new.image /\ r # NoBase
        /\ number \in Nat /\ LatestInv
    BY <2>1, SizeAssumption, BlankAssumption DEF CopyInv, RequestInv, NoBase
  <2>3. Known' = Known \cup {r}
    BY <2>1 DEF Known
  <2>4. \A q \in rows : q \in Known /\ q.number \in Nat
    BY KnownTypes DEF Known
  <2>5. HistoryInv'
    <3>1. \A k \in Known' : k # NoBase => k.generation \in used'
      BY <2>1, <2>2, <2>3 DEF CopyInv, HistoryInv, kernelVars
    <3>2. ASSUME NEW k \in Known', k.generation = generation'
          PROVE  /\ k.number <= number'
                 /\ number' # MaxNumber =>
                       \A b \in Blocks : k.content[b] # disk'[b] => k.number < marks'[b]
      <4>1. CASE k \in Known
        BY <2>1, <3>2, <4>1 DEF CopyInv, HistoryInv, kernelVars
      <4>2. CASE k = r
        BY <2>1, <2>2, <4>2 DEF LatestInv, kernelVars
      <4>. QED  BY <2>3, <4>1, <4>2
    <3>3. ASSUME NEW q \in rows', NEW k \in Known',
                 k.generation = q.generation, k.number <= q.number
          PROVE  \A b \in Blocks : k.content[b] # q.content[b] =>
                                   k.number < q.bitmap[b] /\ q.bitmap[b] <= q.number
      <4>1. CASE q \in rows /\ k \in Known
        BY <3>3, <4>1 DEF CopyInv, HistoryInv
      <4>2. CASE q = r /\ k \in Known
        BY <2>2, <3>3, <4>2 DEF LatestInv
      <4>3. CASE q \in rows /\ k = r
        BY <2>2, <2>4, <3>3, <4>3 DEF LatestInv
      <4>4. CASE q = r /\ k = r
        BY <4>4
      <4>. QED  BY <2>1, <2>3, <4>1, <4>2, <4>3, <4>4
    <3>. QED  BY <2>1, <3>1, <3>2, <3>3 DEF CopyInv, HistoryInv, kernelVars, NextNumber
  <2>6. ImageInv'
    BY <2>1, <2>2 DEF CopyInv, ImageInv, kernelVars
  <2>7. ClientInv'
    <3>1. base.generation = generation => base.number <= number
      BY <2>3 DEF CopyInv, HistoryInv, Known
    <3>. QED  BY <2>1, <2>2, <3>1 DEF CopyInv, ClientInv
  <2>8. RequestInv' /\ CopyMatchesSnapshot'
    BY <2>1, BoundAssumption DEF CopyInv, RequestInv, CopyMatchesSnapshot, CopyMatches
  <2>. QED  BY <2>5, <2>6, <2>7, <2>8 DEF CopyInv
<1>5. CASE SnapshotFails
  <2>1. /\ apc' = "idle" /\ foreign' = 0
        /\ UNCHANGED <<disk, generation, used, number, marks, rows, cpc, base, copy, target>>
    BY <1>5 DEF SnapshotFails, clientVars
  <2>2. HistoryInv'
    BY <2>1, HistoryKept DEF CopyInv, Known
  <2>3. ImageInv'
    <3>1. CASE UNCHANGED images
      BY <2>1, <3>1 DEF CopyInv, ImageInv
    <3>2. CASE apc # "take" /\ images' = [images EXCEPT ![new.image] = Blank]
      <4>1. apc \in {"info", "bitmap"}
        BY <1>5, <3>2 DEF SnapshotFails
      <4>. QED  BY <2>1, <3>2, <4>1 DEF CopyInv, ImageInv, VolumeSnapshots
    <3>. QED  BY <1>5, <3>1, <3>2 DEF SnapshotFails
  <2>4. RequestInv' /\ ClientInv' /\ CopyMatchesSnapshot'
    BY <2>1, BoundAssumption
       DEF CopyInv, RequestInv, ClientInv, CopyMatchesSnapshot, CopyMatches
  <2>. QED  BY <2>2, <2>3, <2>4 DEF CopyInv
<1>6. ASSUME NEW r \in rows, DeleteSnapshot(r) PROVE CopyInv'
  <2>1. /\ apc = "idle" /\ rows' = rows \ {r} /\ ~(cpc = "open" /\ target = r)
        /\ images' = [images EXCEPT ![r.image] = Blank]
        /\ UNCHANGED <<disk, generation, used, number, marks, apc, foreign>>
        /\ UNCHANGED <<cpc, base, copy, target>>
    BY <1>6 DEF DeleteSnapshot, clientVars
  <2>2. HistoryInv'
    BY <2>1, HistoryKept DEF CopyInv, Known
  <2>3. ImageInv'
    BY <2>1 DEF CopyInv, ImageInv, VolumeSnapshots
  <2>4. RequestInv' /\ ClientInv' /\ CopyMatchesSnapshot'
    BY <2>1 DEF CopyInv, RequestInv, ClientInv, CopyMatchesSnapshot, CopyMatches
  <2>. QED  BY <2>2, <2>3, <2>4 DEF CopyInv
<1>. QED  BY <1>1, <1>2, <1>3, <1>4, <1>5, <1>6 DEF AgentStep

\* Why a download is right: a block that was not in the ranges has not changed
\* since the copy's snapshot.
LEMMA DownloadFaithful ==
    ASSUME TrackingInv, RangesInv, CopyInv, Download
    PROVE  CopyInv'
<1>. USE DEF TrackingInv, TrackingTypeOK, LocalsOK
<1>1. /\ cpc = "open" /\ cpc' = "idle" /\ target \in rows
      /\ target \in VolumeSnapshots
      /\ images[target.image] = target.content
      /\ copy' = [b \in Blocks |-> IF b \in Covered THEN target.content[b] ELSE copy[b]]
      /\ base' = [generation |-> target.generation, number |-> target.number,
                  content |-> target.content]
      /\ UNCHANGED <<kernelVars, agentVars>>
  BY DEF Download, EndRequest, CopyInv, ClientInv, ImageInv
<1>2. \A b \in Blocks \ {0} : copy'[b] = target.content[b]
  <2>. SUFFICES ASSUME NEW b \in Blocks \ {0}, b \notin Covered
                PROVE  copy[b] = target.content[b]
    BY <1>1
  <2>1. PreviousNumber # 0 /\ ~Changed(b)
    BY <1>1 DEF RangesInv, RangesAreExact
  <2>2. /\ base.generation = target.generation /\ PreviousNumber = base.number
        /\ base # NoBase
    BY <2>1 DEF PreviousNumber, NoBase
  <2>3. base.number <= target.number
    BY <1>1, <2>2 DEF CopyInv, ClientInv
  <2>4. base.content[b] # target.content[b] =>
            base.number < target.bitmap[b] /\ target.bitmap[b] <= target.number
    BY <1>1, <2>2, <2>3 DEF CopyInv, HistoryInv, Known
  <2>. QED  BY <2>1, <2>2, <2>4 DEF Changed, CopyInv, CopyMatchesSnapshot, CopyMatches
<1>3. CopyMatchesSnapshot'
  BY <1>1, <1>2 DEF CopyMatchesSnapshot, CopyMatches
<1>4. HistoryInv'
  <2>1. /\ base'.generation = target.generation /\ base'.number = target.number
        /\ base'.content = target.content /\ Known' = rows \cup {base'}
    BY <1>1 DEF Known, agentVars
  <2>2. target \in Known /\ target.generation \in used
    BY <1>1, BlankAssumption DEF CopyInv, HistoryInv, Known, NoBase, VolumeSnapshots
  <2>3. UNCHANGED <<disk, generation, used, number, marks, rows, NextNumber>>
    BY <1>1 DEF kernelVars, agentVars, NextNumber
  <2>4. ASSUME NEW k \in Known'
        PROVE  \E q \in Known : /\ q.generation = k.generation /\ q.number = k.number
                               /\ q.content = k.content
    BY <2>1, <2>2, <2>4 DEF Known
  <2>5. \A k \in Known' : k # NoBase => k.generation \in used'
    BY <2>1, <2>2, <2>3 DEF CopyInv, HistoryInv, Known
  <2>6. ASSUME NEW k \in Known', k.generation = generation'
        PROVE  /\ k.number <= number'
               /\ number' # MaxNumber =>
                     \A b \in Blocks : k.content[b] # disk'[b] => k.number < marks'[b]
    BY <2>3, <2>4, <2>6 DEF CopyInv, HistoryInv
  <2>7. ASSUME NEW r \in rows', NEW k \in Known',
               k.generation = r.generation, k.number <= r.number
        PROVE  \A b \in Blocks : k.content[b] # r.content[b] =>
                                 k.number < r.bitmap[b] /\ r.bitmap[b] <= r.number
    BY <2>3, <2>4, <2>7 DEF CopyInv, HistoryInv
  <2>. QED  BY <2>3, <2>5, <2>6, <2>7 DEF CopyInv, HistoryInv
<1>5. RequestInv'
  <2>1. apc = "idle" /\ UNCHANGED <<apc, foreign>>
    BY DEF Download, agentVars
  <2>. QED  BY <2>1 DEF CopyInv, RequestInv
<1>6. ImageInv' /\ ClientInv'
  <2>1. \A r \in rows : r = target
    BY <1>1 DEF CopyInv, ImageInv
  <2>2. ImageInv'
    BY <1>1 DEF CopyInv, ImageInv, kernelVars, agentVars
  <2>3. rows' = rows /\ base'.number = target.number /\ target.number \in Nat
    BY <1>1 DEF agentVars, VolumeSnapshots
  <2>4. ClientInv'
    BY <1>1, <2>1, <2>3 DEF ClientInv
  <2>. QED  BY <2>2, <2>4
<1>. QED  BY <1>3, <1>4, <1>5, <1>6 DEF CopyInv

LEMMA ClientMarked ==
    ASSUME TrackingInv, RangesInv, CopyInv, ClientStep
    PROVE  CopyInv'
<1>1. CASE Download
  BY <1>1, DownloadFaithful
<1>2. ASSUME ClientStep, ~Download PROVE CopyInv'
  <2>1. UNCHANGED <<kernelVars, agentVars, base, copy>>
    BY <1>2 DEF ClientStep, AskChanges, ScanBlock, ScanEnds, FindVolumeSnapshot, DownloadFails
  <2>2. Known' = Known
    BY <2>1 DEF Known, agentVars
  <2>3. HistoryInv'
    BY <2>1, <2>2 DEF CopyInv, HistoryInv, kernelVars, agentVars, NextNumber
  <2>4. LatestInv => LatestInv'
    BY <2>1, <2>2 DEF LatestInv, kernelVars, agentVars
  <2>5. RequestInv' /\ ImageInv' /\ CopyMatchesSnapshot'
    BY <2>1, <2>4 DEF CopyInv, RequestInv, NumberAfter, ImageInv, CopyMatchesSnapshot, CopyMatches,
                      kernelVars, agentVars
  <2>6. ClientInv'
    BY <1>2, <2>1
       DEF CopyInv, ClientInv, ClientStep, AskChanges, ScanBlock, ScanEnds, FindVolumeSnapshot,
           DownloadFails, EndRequest, agentVars, scanVars
  <2>. QED  BY <2>3, <2>5, <2>6 DEF CopyInv
<1>. QED  BY <1>1, <1>2

LEMMA CopyStep ==
    ASSUME Races = {}, TrackingInv, RangesInv, CopyInv, [Next]_vars
    PROVE  CopyInv'
<1>1. CASE UNCHANGED vars
  <2>1. Known' = Known /\ (LatestInv => LatestInv')
    BY <1>1 DEF Known, LatestInv, vars, kernelVars, agentVars, clientVars
  <2>. QED  BY <1>1, <2>1
            DEF CopyInv, HistoryInv, RequestInv, NumberAfter, ImageInv, ClientInv, NextNumber,
                CopyMatchesSnapshot, CopyMatches, vars, kernelVars, agentVars, clientVars
<1>2. CASE KernelStep
  BY <1>2, WriteMarked, ForeignMarked, RebootForgets DEF KernelStep
<1>. QED  BY <1>1, <1>2, AgentMarked, ClientMarked DEF Next

\* If nobody steps in between the CBT info and the bitmap of a snapshot, nor
\* between the look-up and the opening of an image, then after any chain of
\* full and incremental downloads the copy is the disk as of the snapshot,
\* but for the first block.
THEOREM CopyFaithful == Races = {} => (Spec => []CopyMatchesSnapshot)
<1>. SUFFICES ASSUME Races = {} PROVE Spec => []CopyMatchesSnapshot
  OBVIOUS
<1>1. TrackingInv /\ RangesInv /\ CopyInv /\ [Next]_vars => CopyInv'
  BY CopyStep
<1>2. Init => RangesInv
  BY DEF Init, RangesInv, ScanInv, RangesAreExact
<1>3. CopyInv => CopyMatchesSnapshot
  BY DEF CopyInv
<1>. QED  BY <1>1, <1>2, <1>3, InitTracking, InitCopy, TrackingStep, RangesStep, PTL DEF Spec

-----------------------------------------------------------------------------
(* The abstract backups *)

PendingContent == IF apc \in {"info", "bitmap"} THEN {Later(images[new.image])} ELSE {}

ListedContent == {Later(images[r.image]) : r \in rows}

backupVars == <<Later(disk), PendingContent, ListedContent, Later(copy)>>

LEMMA BackupsInit == Init => Backups!Init
BY DEF Init, Backups!Init, Later, LaterBlocks, Disk

\* While a request is under way no snapshot is listed.
LEMMA OneAtATime ==
    ASSUME ImageInv
    PROVE  /\ apc # "idle" => ListedContent = {}
           /\ apc = "idle" => PendingContent = {}
           /\ \A r \in rows : rows = {r} /\ ListedContent = {Later(images[r.image])}
BY DEF ImageInv, ListedContent, PendingContent

LEMMA KernelBacked ==
    ASSUME TrackingInv, KernelStep
    PROVE  [Backups!Next]_backupVars
<1>. USE DEF ListedContent, PendingContent, backupVars, Backups!Next
<1>1. ASSUME NEW b \in Blocks, NEW c \in Contents, Write(b, c) PROVE [Backups!Next]_backupVars
  <2>1. disk' = [disk EXCEPT ![b] = c] /\ disk \in Disk
        /\ UNCHANGED <<PendingContent, ListedContent, Later(copy)>>
    BY <1>1 DEF Write, agentVars, clientVars, TrackingInv, TrackingTypeOK, Later
  <2>2. CASE b = 0
    BY <2>1, <2>2 DEF Later, LaterBlocks, Disk
  <2>3. CASE b # 0
    <3>1. Later(disk)' = [Later(disk) EXCEPT ![b] = c]
      BY <2>1, <2>3 DEF Later, LaterBlocks, Disk
    <3>2. Backups!Write(b, c)
      BY <2>1, <3>1 DEF Backups!Write
    <3>. QED  BY <2>3, <3>2 DEF LaterBlocks
  <2>. QED  BY <2>2, <2>3
<1>2. CASE ForeignSnapshot
  BY <1>2 DEF ForeignSnapshot, clientVars, Later
<1>3. CASE Reboot
  <2>1. Backups!Restart
    BY <1>3 DEF Reboot, Backups!Restart, Later
  <2>. QED  BY <2>1
<1>. QED  BY <1>1, <1>2, <1>3 DEF KernelStep

LEMMA AgentBacked ==
    ASSUME TrackingInv, ImageInv, AgentStep
    PROVE  [Backups!Next]_backupVars
<1>. USE DEF ListedContent, PendingContent, backupVars, Backups!Next
<1>1. CASE BeginSnapshot
  BY <1>1 DEF BeginSnapshot, kernelVars, clientVars, Later
<1>2. ASSUME NEW m \in Images, TakeSnapshot(m) PROVE Backups!Freeze
  <2>1. images' = [images EXCEPT ![m] = disk] /\ images \in [Images -> Disk \cup {Blank}]
        /\ new'.image = m /\ apc = "take" /\ apc' = "info" /\ rows' = rows
        /\ UNCHANGED <<disk, copy>>
    BY <1>2 DEF TakeSnapshot, clientVars, TrackingInv, TrackingTypeOK
  <2>2. rows = {}
    BY <2>1 DEF ImageInv
  <2>. QED  BY <2>1, <2>2 DEF Backups!Freeze, Later
<1>3. CASE ReadCBTInfo
  BY <1>3 DEF ReadCBTInfo, kernelVars, clientVars, Later
<1>4. CASE ReadBitmap
  <2>. DEFINE r == [image |-> new.image, content |-> new.content, generation |-> new.generation,
                    number |-> new.number, bitmap |-> frozen]
  <2>1. rows' = {r} /\ r.image = new.image
    BY <1>4 DEF ReadBitmap, ImageInv
  <2>. HIDE DEF r
  <2>. QED  BY <1>4, <2>1 DEF ReadBitmap, kernelVars, clientVars, Backups!List, Later
<1>5. CASE SnapshotFails
  <2>1. rows = {} /\ rows' = {} /\ apc' = "idle" /\ UNCHANGED <<disk, copy>>
    BY <1>5 DEF SnapshotFails, ImageInv, clientVars
  <2>. QED  BY <2>1 DEF Backups!Abandon, Later
<1>6. ASSUME NEW r \in rows, DeleteSnapshot(r) PROVE Backups!Delete
  <2>1. rows' = {} /\ apc = "idle" /\ apc' = "idle" /\ UNCHANGED <<disk, copy>>
    BY <1>6 DEF DeleteSnapshot, ImageInv, clientVars
  <2>. QED  BY <2>1 DEF Backups!Delete, Later
<1>. QED  BY <1>1, <1>2, <1>3, <1>4, <1>5, <1>6 DEF AgentStep

\* What was downloaded, and what was left out because it had not changed, are
\* the snapshot's content together.
LEMMA ClientBacked ==
    ASSUME TrackingInv, RangesInv, CopyInv, ClientStep
    PROVE  [Backups!Next]_backupVars
<1>. USE DEF ListedContent, PendingContent, backupVars, Backups!Next
<1>1. CASE Download
  <2>1. /\ target \in rows /\ target \in VolumeSnapshots
        /\ images[target.image] = target.content
        /\ base'.content = target.content /\ base' # NoBase
        /\ UNCHANGED <<kernelVars, agentVars>>
    BY <1>1, BlankAssumption
       DEF Download, CopyInv, ClientInv, ImageInv, TrackingInv, LocalsOK, VolumeSnapshots, NoBase
  <2>2. \A b \in LaterBlocks : copy'[b] = images[target.image][b]
    BY <1>1, <2>1, DownloadFaithful DEF CopyInv, CopyMatchesSnapshot, CopyMatches, LaterBlocks
  <2>3. Backups!Backup
    BY <2>1, <2>2 DEF Backups!Backup, Later, kernelVars, agentVars
  <2>. QED  BY <2>3
<1>2. CASE ~Download
  BY <1>2 DEF ClientStep, AskChanges, ScanBlock, ScanEnds, FindVolumeSnapshot, DownloadFails,
              kernelVars, agentVars, Later
<1>. QED  BY <1>1, <1>2

\* Through GetChangedSectors and ConsumeSnapshot the agent behaves like
\* BackupService: a chain of full and incremental downloads is a sequence of
\* whole copies, each of the snapshot that is listed at that moment, over
\* failed requests, bitmap resets, other users' snapshots and reboots, if
\* nobody steps in where Races would let them (manager.go:782-843).
THEOREM RefinesBackups == Races = {} => (Spec => ImplementsBackups)
<1>. SUFFICES ASSUME Races = {} PROVE Spec => ImplementsBackups
  OBVIOUS
<1>1. Init => TrackingInv /\ RangesInv /\ CopyInv
  BY InitTracking, InitCopy DEF Init, RangesInv, ScanInv, RangesAreExact
<1>2. TrackingInv /\ RangesInv /\ CopyInv /\ [Next]_vars
          => TrackingInv' /\ RangesInv' /\ CopyInv'
  BY TrackingStep, RangesStep, CopyStep
<1>3. TrackingInv /\ RangesInv /\ CopyInv /\ [Next]_vars => [Backups!Next]_backupVars
  <2>1. UNCHANGED vars => UNCHANGED backupVars
    BY DEF vars, kernelVars, agentVars, clientVars, backupVars, PendingContent, ListedContent, Later
  <2>. QED  BY <2>1, KernelBacked, AgentBacked, ClientBacked DEF Next, CopyInv
<1>4. [Backups!Next]_backupVars <=> [Backups!Next]_(Backups!vars)
  BY DEF backupVars, PendingContent, ListedContent, Backups!vars
<1>. QED  BY <1>1, <1>2, <1>3, <1>4, BackupsInit, PTL
          DEF Spec, ImplementsBackups, Backups!Spec
=============================================================================

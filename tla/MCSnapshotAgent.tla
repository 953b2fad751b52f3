--------------------------- MODULE MCSnapshotAgent ---------------------------
(* Instances of SnapshotAgent for TLC. *)
EXTENDS SnapshotAgent, TLC

CONSTANTS d1, d2, s1, s2, s3, i1, i2

\* Snap stores s1 and s2 serve the first disk, so that its store can be
\* replaced, s3 the second; an instance uses some of them.
DiskOf == [s \in StoreIds |-> IF s = s3 THEN d2 ELSE d1]

SnapSymmetry == Permutations({i1, i2})
=============================================================================

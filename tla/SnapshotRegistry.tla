--------------------------- MODULE SnapshotRegistry ---------------------------
(***************************************************************************)
(* What the agent promises a client of /snapshots: a snapshot covers a set *)
(* of disks from the moment it is listed until it is deleted, all at once  *)
(* or not at all, and no disk is covered twice.                            *)
(***************************************************************************)
CONSTANTS Disks, SnapIds

VARIABLE active  \* the disks each snapshot covers; {} for one not listed

Init == active = [i \in SnapIds |-> {}]

\* A snapshot of all the disks of a request appears.
Create(i, D) ==
    /\ D # {}
    /\ active[i] = {}
    /\ \A j \in SnapIds : active[j] \cap D = {}
    /\ active' = [active EXCEPT ![i] = D]

\* Deleting a snapshot gives its disks back; a crash may leave it half-way.
Release(i, d) ==
    /\ d \in active[i]
    /\ active' = [active EXCEPT ![i] = @ \ {d}]

\* The database is lost, and every snapshot with it.
Forget == active' = [i \in SnapIds |-> {}]

Next ==
    \/ \E i \in SnapIds, D \in SUBSET Disks : Create(i, D)
    \/ \E i \in SnapIds, d \in Disks : Release(i, d)
    \/ Forget

Spec == Init /\ [][Next]_active
=============================================================================

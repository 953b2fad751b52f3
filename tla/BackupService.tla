---------------------------- MODULE BackupService ----------------------------
(***************************************************************************)
(* What the agent promises a client that keeps a copy of a disk: a backup, *)
(* full or incremental, leaves in the copy the whole content of the        *)
(* snapshot that is listed now, which is the disk at one moment of the     *)
(* request that made it.  No mixture of two contents, and no earlier one.  *)
(***************************************************************************)
CONSTANTS
    Blocks,    \* the blocks that are promised to be right
    Contents,
    Missing    \* what the copy holds before the first backup

VARIABLES
    disk,      \* the disk
    pending,   \* the content of a snapshot that is not listed yet, if any
    snapshot,  \* the content of the listed snapshot, if any
    copy       \* the client's copy

vars == <<disk, pending, snapshot, copy>>

Init ==
    /\ disk \in [Blocks -> Contents]
    /\ pending = {}
    /\ snapshot = {}
    /\ copy = [b \in Blocks |-> Missing]

Write(b, c) ==
    /\ disk' = [disk EXCEPT ![b] = c]
    /\ UNCHANGED <<pending, snapshot, copy>>

\* The moment of a snapshot.
Freeze ==
    /\ pending = {} /\ snapshot = {}
    /\ pending' = {disk}
    /\ UNCHANGED <<disk, snapshot, copy>>

List ==
    /\ pending # {}
    /\ snapshot' = pending
    /\ pending' = {}
    /\ UNCHANGED <<disk, copy>>

Abandon ==
    /\ pending' = {}
    /\ UNCHANGED <<disk, snapshot, copy>>

Delete ==
    /\ snapshot' = {}
    /\ UNCHANGED <<disk, pending, copy>>

\* The machine reboots; the disk and the copy are still there.
Restart ==
    /\ pending' = {}
    /\ snapshot' = {}
    /\ UNCHANGED <<disk, copy>>

\* All at once, however many ranges it was.
Backup ==
    /\ copy' \in snapshot
    /\ UNCHANGED <<disk, pending, snapshot>>

Next ==
    \/ \E b \in Blocks, c \in Contents : Write(b, c)
    \/ Freeze
    \/ List
    \/ Abandon
    \/ Delete
    \/ Restart
    \/ Backup

Spec == Init /\ [][Next]_vars
=============================================================================

-------------------------- MODULE MCChangeTracking --------------------------
(* Instances of ChangeTracking for TLC. *)
EXTENDS ChangeTracking, TLC

CONSTANTS x, y, m1, m2, g1, g2

\* Contents, image devices and generations are interchangeable.
TrackSymmetry ==
    Permutations({x, y}) \cup Permutations({m1, m2}) \cup Permutations({g1, g2})

\* fetchIncrements works on a row it has read and on its own variables: where
\* it is makes no difference to anybody, so it is not interrupted here.
MCNext == Next /\ (cpc = "scan" => ClientStep)

\* What is on the disk to begin with makes no difference either.
MCInit == Init /\ \E c \in Contents : disk = [b \in Blocks |-> c]

MCSpec == MCInit /\ [][MCNext]_vars
=============================================================================

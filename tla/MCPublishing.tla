---------------------------- MODULE MCPublishing ----------------------------
(* Instances of Publishing for TLC.                                        *)
EXTENDS PublishingS3Inv, TLC

CONSTANT TwoFiles  \* the bundle that has a second file, if there is one

\* Every bundle has the entrypoint; a retry with another bundle than TwoFiles
\* overwrites one path of it and leaves the other.
MCFilesOf == [b \in Bundles |-> IF b = TwoFiles THEN {1, 2} ELSE {1}]

\* Sessions that are still to be committed, staged or being worked on.
Busy == {u \in Uploads : \/ Live(u) /\ row[u].version = 0
                         \/ stage[u].dir
                         \/ \E r \in Reqs : req[r].upload = u}
OneBusySession == Cardinality(Busy) <= 1

Symmetry ==
    Permutations(Reqs) \cup Permutations(Uploads) \cup Permutations(Bundles \ {TwoFiles})
=============================================================================

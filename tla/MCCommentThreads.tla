-------------------------- MODULE MCCommentThreads --------------------------
(* Instances of CommentThreads for TLC.                                    *)
EXTENDS CommentThreads, TLC

Symmetry == Permutations(Threads) \cup Permutations(Comments) \cup Permutations(Reqs)
=============================================================================

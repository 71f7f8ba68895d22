-------------------------- MODULE ArtifactHistory --------------------------
(***************************************************************************)
(* What publishing promises a reader, without stages, sessions, stores or  *)
(* failures: every artifact is a list of versions, a version is a whole    *)
(* bundle, and the only thing that ever happens is that one is appended.   *)
(***************************************************************************)
EXTENDS Sequences

CONSTANTS
    Artifacts,
    Whole      \* the contents of complete bundles

VARIABLE history

Init == history = [a \in Artifacts |-> <<>>]

Publish(a, c) == history' = [history EXCEPT ![a] = Append(@, c)]

Next == \E a \in Artifacts, c \in Whole : Publish(a, c)

Spec == Init /\ [][Next]_history
=============================================================================

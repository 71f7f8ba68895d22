---------------------------- MODULE PublishingS3Inv ----------------------------
(***************************************************************************)
(* Why publishing is safe on the S3 backend for clients that do not send a *)
(* bundle to a session again once one was acknowledged there: the          *)
(* inductive invariant behind VersionIntact, AckedBundleKept and Immutable *)
(* under that discipline.                                                  *)
(*                                                                         *)
(* PublishUpload copies file by file and removes the stage at the end, so  *)
(* several commits of one session run side by side, each may take the      *)
(* stage from under the others, and any of them may die.  That is safe     *)
(* because what they copy is whole and stays the same.  A PUT beside them  *)
(* is not: its half-extracted files are published (publish_s3_overwrite).  *)
(* MarkReplyLost = FALSE is needed as on the filesystem backend.           *)
(***************************************************************************)
EXTENDS PublishingFsInv

\* Request r is a PUT that has not replied yet.
Putting(r) == req[r].pc \in {"mkdir", "extract", "copy", "mark", "cleanup"}

\* The client discipline: no PUT is under way on a session whose bundle has been
\* acknowledged.
OnePut ==
    \A r \in Reqs : Putting(r) => row[req[r].upload].staged = None

\* Publishing with such clients.
OnePutSpec == Init /\ [][Next /\ OnePut']_vars

\* The staged bundle of a session is whole in its stage until one of the commits has
\* removed the stage, and then it is whole in the object directory.  Before there is
\* one, nothing is in the object directory.
Kept(u) ==
    IF row[u].staged = None
      THEN dest[u] = NoDest
      ELSE \/ Complete(u, row[u].staged)
           \/ stage[u] = NoStage /\ dest[u] = Whole(row[u].staged)

\* Nothing is in the object directory of a session but its staged bundle's files.
Fits(u) ==
    row[u].staged # None =>
        \A f \in Files : dest[u].files[f] \in {None, Content(row[u].staged)[f]}

\* What a commit of an open session knows: its bundle is the staged one, what it has
\* copied is in the object directory, and before CommitVersion that is all of it.
Copies(r) ==
    LET q == req[r] IN
    q.pc \in {"publish", "put", "commit"} /\ Open(q.upload) =>
      /\ q.bundle = row[q.upload].staged
      /\ q.pc = "put" =>
           \A f \in FilesOf[q.bundle] \ q.todo :
              dest[q.upload].dir /\ dest[q.upload].files[f] = q.bundle
      /\ q.pc = "commit" => dest[q.upload] = Whole(q.bundle)

\* Commits of one session, side by side.
Sharing ==
    /\ \A u \in Uploads : Open(u) => Kept(u) /\ Fits(u)
    /\ \A r \in Reqs : Copies(r)

\* A version's objects are those of its row, and what is left of its stage, if
\* anything, is the same bundle, which no PUT will touch again.
Sealed(u, b) ==
    /\ dest[u] = Whole(b)
    /\ stage[u] = NoStage \/ Complete(u, b)
    /\ row[u].state # "none"
    /\ row[u].state = "live" => row[u].staged # None
    /\ \A r \in Reqs : Putting(r) => req[r].upload # u

Published ==
    \A a \in Uploads : \A i \in 1..Len(versions[a]) :
        Sealed(versions[a][i].upload, versions[a][i].bundle)

S3Inv ==
    /\ Stores /\ Staging
    /\ Sharing
    /\ Published

\* The invariant of the S3 theorems: what the commits of a session copy side by
\* side is one whole bundle, from the acknowledged PUT on (S3Store.PublishUpload,
\* putUpload, CommitVersion).
KInv == TypeOK /\ S3Inv
=============================================================================

--------------------------- MODULE PublishingFsInv ---------------------------
(***************************************************************************)
(* Why publishing is safe on the filesystem backend: the inductive         *)
(* invariant behind VersionIntact, AckedBundleKept and Immutable.          *)
(*                                                                         *)
(* It needs Backend = "fs" (a rename publishes in one step and never       *)
(* replaces what is published) and MarkReplyLost = FALSE (a handler that   *)
(* removes its stage knows that the stage was not acknowledged).           *)
(***************************************************************************)
EXTENDS Publishing

Whole(b) == [dir |-> TRUE, files |-> Content(b)]

\* Request r is past Mkdir for session u and has not replied yet.
Stager(r, u) ==
    req[r].upload = u /\ req[r].pc \in {"extract", "copy", "mark", "cleanup"}

\* The session can still be committed, as far as CommitVersion is concerned.
Open(u) == row[u].state = "live" /\ row[u].version = 0

\* An absent directory has no contents.
Absent ==
    \A u \in Uploads : /\ stage[u].dir \/ stage[u] = NoStage
                       /\ dest[u].dir \/ dest[u] = NoDest

\* A session nobody created has left no trace.
Fresh ==
    \A u \in Uploads :
        row[u].state = "none" =>
            /\ row[u] = NoRow
            /\ ~stage[u].dir
            /\ ~dest[u].dir
            /\ \A r \in Reqs : req[r].upload # u

\* Maintenance holds only sessions that are deleted for good.
Condemned == \A u \in maint.ids \cup maint.old : row[u].state = "gone"

\* The stage of a session that has not expired is younger than the session.
Young ==
    \A u \in Uploads :
        Live(u) /\ stage[u].dir => stage[u].age + row[u].left <= TTL

\* So much holds whatever the backend and whoever shares a stage.
Stores == Absent /\ Fresh /\ Condemned /\ Young

\* What a handler knows about its request.
Knows(q) ==
    IF q.pc = "idle"
      THEN q = Idle
      ELSE /\ q.upload \in Uploads
           /\ q.bundle \in Bundles
           /\ q.pc = "mkdir" => q.todo = FilesOf[q.bundle]
           /\ q.pc \in {"extract", "copy"} => q.todo \subseteq FilesOf[q.bundle]

Handlers == \A r \in Reqs : Knows(req[r])

\* Mkdir is a lock: while a session is open, one handler at most is past it, and
\* the directory holds what that handler has written.
SoleStager ==
    \A u \in Uploads, r, s \in Reqs :
        Open(u) /\ Stager(r, u) /\ Stager(s, u) => r = s

\* The files of bundle b but for those still to be extracted.
Written(b, todo) == [f \in Files |-> IF f \in FilesOf[b] \ todo THEN b ELSE None]

\* The stage of session u as handler r has left it, the file it is copying apart.
Owns(r, u) ==
    LET q == req[r] IN
    /\ stage[u].dir
    /\ q.pc = "extract" =>
         stage[u].zip /\ stage[u].files = Written(q.bundle, q.todo)
    /\ q.pc = "copy" =>
         stage[u].zip /\ Fill(stage[u].files, r, q.bundle) = Written(q.bundle, q.todo)
    /\ q.pc = "mark" => stage[u].files = Content(q.bundle)

StagerOwns ==
    \A u \in Uploads, r \in Reqs : Open(u) /\ Stager(r, u) => Owns(r, u)

\* The stage protocol, on either backend.
Staging == Handlers /\ SoleStager /\ StagerOwns

\* The acknowledged bundle of an open session is published, or staged whole with
\* nobody working on the stage.
Safe ==
    \A u \in Uploads :
        Open(u) /\ row[u].staged # None =>
            \/ dest[u] = Whole(row[u].staged)
            \/ Complete(u, row[u].staged) /\ \A r \in Reqs : ~Stager(r, u)

\* A handler about to publish an open session read the bundle that is staged, or
\* it is too late: a newer one is staged, an older one published, and its rename
\* will fail.  A handler about to commit has its own bundle published.
Committers ==
    \A r \in Reqs :
        LET u == req[r].upload IN
        /\ req[r].pc = "publish" /\ Open(u) =>
             \/ req[r].bundle = row[u].staged
             \/ stage[u].dir /\ dest[u].dir /\ \A s \in Reqs : ~Stager(s, u)
        /\ req[r].pc = "commit" /\ Open(u) => dest[u] = Whole(req[r].bundle)

FsInv ==
    /\ Stores /\ Staging
    /\ Safe /\ Committers
    /\ VersionIntact

\* The invariant of the theorems in PublishingProofs: Mkdir is the lock of a
\* session's stage, and an acknowledged bundle has one safe place at all times
\* (StageZIP, MarkUploadStaged, RemoveStage and Store.PublishUpload together).
IInv == TypeOK /\ FsInv
=============================================================================

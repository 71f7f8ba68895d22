----------------------------- MODULE Publishing -----------------------------
(***************************************************************************)
(* The publishing pipeline of Rendercase: an upload session is created, a  *)
(* ZIP is staged on local disk, the stage is published to the object store *)
(* and a version row is committed to PostgreSQL, while maintenance removes *)
(* expired sessions and old stages and the process may crash.              *)
(*                                                                         *)
(* Three stores are involved and no transaction spans them:                *)
(*   row, owner, deleted, versions   PostgreSQL                            *)
(*   stage                           <root>/.uploads/<upload id>           *)
(*   dest                            <artifact>/objects/<upload id>, on    *)
(*                                   disk or in the S3 bucket              *)
(* The HTTP handlers are processes (Reqs) that take one step per database  *)
(* statement, directory operation or object request.                       *)
(*                                                                         *)
(* A new artifact has the id "a_" + upload id, so artifacts are named by   *)
(* the upload that created them.  Time is relative: left counts down to a  *)
(* session's expires_at, age counts up from a stage directory's mtime.     *)
(***************************************************************************)
EXTENDS Naturals, Sequences, FiniteSets

CONSTANTS
    Uploads,       \* upload ids securetoken.ID() can return
    Users,         \* users who publish
    Reqs,          \* request handlers that can be in flight at once
    Bundles,       \* distinct ZIP bundles
    FilesOf,       \* the paths in each bundle (never empty: the entrypoint)
    Backend,       \* RENDERCASE_STORAGE: "fs" or "s3"
    TTL,           \* RENDERCASE_UPLOAD_TTL in ticks
    MarkReplyLost, \* may MarkUploadStaged take effect and yet return an error?
    None,          \* SQL NULL, a path that does not exist
    Torn           \* a file that stops before its end, and nobody is writing it

ASSUME BundlesAssumption ==
    /\ FilesOf \in [Bundles -> SUBSET Nat]
    /\ \A b \in Bundles : FilesOf[b] # {}
ASSUME BackendAssumption == Backend \in {"fs", "s3"}
ASSUME TTLAssumption == TTL \in Nat \ {0}
ASSUME MarkReplyLostAssumption == MarkReplyLost \in BOOLEAN
ASSUME NoneAssumption ==
    /\ None \notin Uploads
    /\ None \notin Users
    /\ None \notin Bundles
ASSUME ContentsAssumption ==
    /\ Reqs \cap (Bundles \cup {None, Torn}) = {}
    /\ Torn \notin Bundles \cup {None}

VARIABLES
    row,       \* upload_sessions
    owner,     \* artifacts.owner_id, None while there is no such artifact
    deleted,   \* artifacts with deleted_at set
    versions,  \* artifact_versions, in order; latest_version is its length
    stage,     \* staging directories
    dest,      \* object directories
    req,       \* request handlers in flight
    maint      \* the maintenance goroutine

db == <<row, owner, deleted, versions>>
vars == <<row, owner, deleted, versions, stage, dest, req, maint>>

-----------------------------------------------------------------------------
(* Data.                                                                   *)

Files == UNION {FilesOf[b] : b \in Bundles}

\* A path has the file of a bundle, nothing, a torn file, or the file that a
\* handler has created and is still copying into: that one is the handler's name.
Contents == [Files -> Bundles \cup Reqs \cup {None, Torn}]

Empty == [f \in Files |-> None]
Content(b) == [f \in Files |-> IF f \in FilesOf[b] THEN b ELSE None]

\* The file handler r has open becomes x, in whichever directory it is now.
Fill(files, r, x) == [f \in Files |-> IF files[f] = r THEN x ELSE files[f]]

\* No handler is left to finish a file.
Abandon(files) == [f \in Files |-> IF files[f] \in Reqs THEN Torn ELSE files[f]]

\* What a reader finds in a file that may still be growing.
ReadOf(file) == IF file \in Reqs THEN Torn ELSE file

NoRow == [state |-> "none", by |-> None, art |-> None, staged |-> None,
          version |-> 0, left |-> 0]
GoneRow == [NoRow EXCEPT !.state = "gone"]
Rows == [state : {"none", "live", "gone"}, by : Users \cup {None},
         art : Uploads \cup {None}, staged : Bundles \cup {None},
         version : Nat, left : 0..TTL]

\* CleanupStages removes what is older than twice the upload TTL.
MaxAge == 2 * TTL + 1
NoStage == [dir |-> FALSE, files |-> Empty, zip |-> FALSE, age |-> 0]
NewStage == [dir |-> TRUE, files |-> Empty, zip |-> TRUE, age |-> 0]
Stages == [dir : BOOLEAN, files : Contents, zip : BOOLEAN, age : 0..MaxAge]

NoDest == [dir |-> FALSE, files |-> Empty]
Dests == [dir : BOOLEAN, files : Contents]

Idle == [pc |-> "idle", upload |-> None, bundle |-> None, todo |-> {}]
Active == [pc : {"mkdir", "extract", "copy", "mark", "cleanup",
                 "publish", "put", "commit"},
           upload : Uploads, bundle : Bundles, todo : SUBSET Files]
Requests == {Idle} \cup Active

Resting == [pc |-> "idle", ids |-> {}, list |-> {}, old |-> {}]
Maintainers == [pc : {"idle", "remove", "sweep"}, ids : SUBSET Uploads,
                list : SUBSET Uploads, old : SUBSET Uploads]

VersionRows == [upload : Uploads, bundle : Bundles]

TypeOK ==
    /\ row \in [Uploads -> Rows]
    /\ owner \in [Uploads -> Users \cup {None}]
    /\ deleted \in SUBSET Uploads
    /\ versions \in [Uploads -> Seq(VersionRows)]
    /\ stage \in [Uploads -> Stages]
    /\ dest \in [Uploads -> Dests]
    /\ req \in [Reqs -> Requests]
    /\ maint \in Maintainers

Init ==
    /\ row = [u \in Uploads |-> NoRow]
    /\ owner = [u \in Uploads |-> None]
    /\ deleted = {}
    /\ versions = [u \in Uploads |-> <<>>]
    /\ stage = [u \in Uploads |-> NoStage]
    /\ dest = [u \in Uploads |-> NoDest]
    /\ req = [r \in Reqs |-> Idle]
    /\ maint = Resting

\* The row as UploadByToken finds it: present and not expired.
Live(u) == row[u].state = "live" /\ row[u].left > 0

\* The artifact an upload publishes to.
Target(u) == IF row[u].art = None THEN u ELSE row[u].art

Goto(r, pc) == req' = [req EXCEPT ![r].pc = pc]
Reply(r) == req' = [req EXCEPT ![r] = Idle]

\* A new mtime: the running sweep will not take this directory for an old one.
Touch(u) == maint' = [maint EXCEPT !.old = @ \ {u}]

-----------------------------------------------------------------------------
(* createUpload: a session for a new artifact (a = None) or for the next   *)
(* version of an artifact the caller owns.                                 *)

CreateUpload(usr, u, a) ==
    /\ row[u] = NoRow
    /\ a # None => owner[a] = usr /\ a \notin deleted
    /\ row' = [row EXCEPT ![u] = [state |-> "live", by |-> usr, art |-> a,
                                  staged |-> None, version |-> 0, left |-> TTL]]
    /\ UNCHANGED <<owner, deleted, versions, stage, dest, req, maint>>

-----------------------------------------------------------------------------
(* putUpload: UploadByToken, StageZIP, MarkUploadStaged.  The session is   *)
(* checked for expiry only; one that is already committed is staged again. *)

PutLookup(r, u, b) ==
    /\ req[r].pc = "idle"
    /\ Live(u)
    /\ req' = [req EXCEPT ![r] = [pc |-> "mkdir", upload |-> u, bundle |-> b,
                                  todo |-> FilesOf[b]]]
    /\ UNCHANGED <<db, stage, dest, maint>>

\* Variant: the deferred cleanup is armed before Mkdir.
PutMkdirArmed(r) ==
    LET u == req[r].upload IN
    /\ req[r].pc = "mkdir"
    /\ \/ /\ stage[u].dir
          /\ Goto(r, "cleanup")
          /\ UNCHANGED <<stage, maint>>
       \/ /\ ~stage[u].dir
          /\ stage' = [stage EXCEPT ![u] = NewStage]
          /\ Touch(u)
          /\ Goto(r, "extract")
    /\ UNCHANGED <<db, dest>>

\* Variant: MkdirAll instead of Mkdir, an existing stage is shared.
PutMkdirShared(r) ==
    LET u == req[r].upload IN
    /\ req[r].pc = "mkdir"
    /\ stage' = [stage EXCEPT ![u].dir = TRUE, ![u].zip = TRUE]
    /\ Touch(u)
    /\ Goto(r, "extract")
    /\ UNCHANGED <<db, dest>>

\* StageZIP claims the session with Mkdir.  When the directory exists it
\* returns before the deferred cleanup is armed and touches nothing.
PutMkdir(r) ==
    LET u == req[r].upload IN
    /\ req[r].pc = "mkdir"
    /\ \/ /\ stage[u].dir
          /\ Reply(r)
          /\ UNCHANGED <<stage, maint>>
       \/ /\ ~stage[u].dir
          /\ stage' = [stage EXCEPT ![u] = NewStage]
          /\ Touch(u)
          /\ Goto(r, "extract")
    /\ UNCHANGED <<db, dest>>

\* One entry: MkdirAll of its parent (which brings back a directory that was
\* moved or removed meanwhile), then an exclusive create: from here on the path
\* has a file, and it is not whole.
PutCreate(r) ==
    LET u == req[r].upload IN
    /\ req[r].pc = "extract"
    /\ \E f \in req[r].todo :
         \/ /\ stage[u].files[f] # None
            /\ Goto(r, "cleanup")
            /\ UNCHANGED <<stage, maint>>
         \/ /\ stage[u].files[f] = None
            /\ stage' = [stage EXCEPT ![u].files[f] = r, ![u].dir = TRUE]
            /\ IF stage[u].dir THEN UNCHANGED maint ELSE Touch(u)
            /\ req' = [req EXCEPT ![r].pc = "copy", ![r].todo = @ \ {f}]
    /\ UNCHANGED <<db, dest>>

\* io.Copy has written the open file to its end.  The file may have been renamed
\* with its directory, or unlinked, since it was created.
PutCopy(r) ==
    LET u == req[r].upload IN
    /\ req[r].pc = "copy"
    /\ stage' = [stage EXCEPT ![u].files = Fill(@, r, req[r].bundle)]
    /\ dest' = [dest EXCEPT ![u].files = Fill(@, r, req[r].bundle)]
    /\ Goto(r, "extract")
    /\ UNCHANGED <<db, maint>>

\* manifest.json is written and bundle.zip removed; either fails when the
\* directory this request created is no longer there.
PutFinish(r) ==
    LET u == req[r].upload IN
    /\ req[r].pc = "extract"
    /\ req[r].todo = {}
    /\ \/ /\ stage[u].dir /\ stage[u].zip
          /\ stage' = [stage EXCEPT ![u].zip = FALSE, ![u].age = 0]
          /\ Touch(u)
          /\ Goto(r, "mark")
       \/ /\ ~(stage[u].dir /\ stage[u].zip)
          /\ Goto(r, "cleanup")
          /\ UNCHANGED <<stage, maint>>
    /\ UNCHANGED <<db, dest>>

\* A rejected bundle, an I/O error or a cancelled request inside StageZIP.  A file
\* being copied is closed as it is.
PutStageError(r) ==
    LET u == req[r].upload IN
    /\ req[r].pc \in {"extract", "copy"}
    /\ stage' = [stage EXCEPT ![u].files = Fill(@, r, Torn)]
    /\ dest' = [dest EXCEPT ![u].files = Fill(@, r, Torn)]
    /\ Goto(r, "cleanup")
    /\ UNCHANGED <<db, maint>>

\* MarkUploadStaged: one guarded UPDATE.  Any error leads to RemoveStage, also
\* when the statement did take effect and only its reply was lost.
PutMark(r) ==
    LET u == req[r].upload
        applies == Live(u) /\ row[u].version = 0
        write == row' = [row EXCEPT ![u].staged = req[r].bundle]
    IN
    /\ req[r].pc = "mark"
    /\ \/ applies /\ write /\ Reply(r)
       \/ MarkReplyLost /\ applies /\ write /\ Goto(r, "cleanup")
       \/ Goto(r, "cleanup") /\ UNCHANGED row
    /\ UNCHANGED <<owner, deleted, versions, stage, dest, maint>>

\* RemoveAll of the stage: StageZIP's deferred cleanup, putUpload's RemoveStage.
PutCleanup(r) ==
    /\ req[r].pc = "cleanup"
    /\ stage' = [stage EXCEPT ![req[r].upload] = NoStage]
    /\ Reply(r)
    /\ UNCHANGED <<db, dest, maint>>

-----------------------------------------------------------------------------
(* commitForUser: read the session, publish the stage, CommitVersion.      *)

\* Variant: a session without a staged bundle is not refused.
CommitLookupUnstaged(r, usr, u) ==
    /\ req[r].pc = "idle"
    /\ Live(u)
    /\ row[u].by = usr
    /\ row[u].version = 0
    /\ req' = [req EXCEPT ![r] = [pc |-> "publish", upload |-> u,
                                  bundle |-> row[u].staged, todo |-> {}]]
    /\ UNCHANGED <<db, stage, dest, maint>>

\* A session already committed is answered with its version: no step here.
CommitLookup(r, usr, u) ==
    /\ req[r].pc = "idle"
    /\ Live(u)
    /\ row[u].by = usr
    /\ row[u].version = 0
    /\ row[u].staged # None
    /\ req' = [req EXCEPT ![r] = [pc |-> "publish", upload |-> u,
                                  bundle |-> row[u].staged, todo |-> {}]]
    /\ UNCHANGED <<db, stage, dest, maint>>

\* Variant: an existing object directory is replaced.
PublishFsReplace(r) ==
    LET u == req[r].upload IN
    /\ Backend = "fs"
    /\ req[r].pc = "publish"
    /\ stage[u].dir
    /\ dest' = [dest EXCEPT ![u] = [dir |-> TRUE, files |-> stage[u].files]]
    /\ stage' = [stage EXCEPT ![u] = NoStage]
    /\ Goto(r, "commit")
    /\ UNCHANGED <<db, maint>>

\* Store.PublishUpload: a rename.  With no stage left, an existing object
\* directory counts as an earlier attempt's success; with both present the
\* rename fails on the non-empty directory.
PublishFs(r) ==
    LET u == req[r].upload IN
    /\ Backend = "fs"
    /\ req[r].pc = "publish"
    /\ \/ /\ stage[u].dir /\ ~dest[u].dir
          /\ dest' = [dest EXCEPT ![u] = [dir |-> TRUE,
                                          files |-> stage[u].files]]
          /\ stage' = [stage EXCEPT ![u] = NoStage]
          /\ Goto(r, "commit")
       \/ /\ ~stage[u].dir /\ dest[u].dir
          /\ Goto(r, "commit")
          /\ UNCHANGED <<stage, dest>>
       \/ /\ stage[u].dir = dest[u].dir
          /\ Reply(r)
          /\ UNCHANGED <<stage, dest>>
    /\ UNCHANGED <<db, maint>>

\* S3Store.PublishUpload: WalkDir lists the staged files ...
PublishS3Walk(r) ==
    LET u == req[r].upload IN
    /\ Backend = "s3"
    /\ req[r].pc = "publish"
    /\ IF stage[u].dir
         THEN req' = [req EXCEPT ![r].pc = "put",
                        ![r].todo = {f \in Files : stage[u].files[f] # None}]
         ELSE Reply(r)
    /\ UNCHANGED <<db, stage, dest, maint>>

\* ... putFile opens each in path order and overwrites its object with as much as
\* Stat says the file has ...
PublishS3Put(r) ==
    LET u == req[r].upload IN
    /\ Backend = "s3"
    /\ req[r].pc = "put"
    /\ \E f \in req[r].todo :
         /\ \A g \in req[r].todo : f <= g
         /\ IF stage[u].files[f] = None
              THEN Reply(r) /\ UNCHANGED dest
              ELSE /\ dest' = [dest EXCEPT ![u].dir = TRUE,
                                 ![u].files[f] = ReadOf(stage[u].files[f])]
                   /\ req' = [req EXCEPT ![r].todo = @ \ {f}]
    /\ UNCHANGED <<db, stage, maint>>

\* Variant: a failed PutObject does not stop the walk.
PublishS3DoneEarly(r) ==
    /\ Backend = "s3"
    /\ req[r].pc = "put"
    /\ stage' = [stage EXCEPT ![req[r].upload] = NoStage]
    /\ Goto(r, "commit")
    /\ UNCHANGED <<db, dest, maint>>

\* ... and after the manifest object the stage is removed.
PublishS3Done(r) ==
    /\ Backend = "s3"
    /\ req[r].pc = "put"
    /\ req[r].todo = {}
    /\ stage' = [stage EXCEPT ![req[r].upload] = NoStage]
    /\ Goto(r, "commit")
    /\ UNCHANGED <<db, dest, maint>>

\* Variant: the last UPDATE does not ask for committed_at IS NULL.
CommitVersionAgain(r) ==
    LET u == req[r].upload
        a == Target(u)
    IN
    /\ req[r].pc = "commit"
    /\ row[u].state = "live"
    /\ IF row[u].art = None THEN owner[a] = None
                            ELSE owner[a] = row[u].by /\ a \notin deleted
    /\ owner' = [owner EXCEPT ![a] = row[u].by]
    /\ versions' = [versions EXCEPT ![a] =
                      Append(@, [upload |-> u, bundle |-> req[r].bundle])]
    /\ row' = [row EXCEPT ![u].art = a, ![u].version = Len(versions[a]) + 1]
    /\ Reply(r)
    /\ UNCHANGED <<deleted, stage, dest, maint>>

\* Variant: the session is not marked committed.
CommitVersionUnmarked(r) ==
    LET u == req[r].upload
        a == Target(u)
    IN
    /\ req[r].pc = "commit"
    /\ row[u].state = "live"
    /\ row[u].version = 0
    /\ IF row[u].art = None THEN owner[a] = None
                            ELSE owner[a] = row[u].by /\ a \notin deleted
    /\ owner' = [owner EXCEPT ![a] = row[u].by]
    /\ versions' = [versions EXCEPT ![a] =
                      Append(@, [upload |-> u, bundle |-> req[r].bundle])]
    /\ Reply(r)
    /\ UNCHANGED <<row, deleted, stage, dest, maint>>

\* CommitVersion: one serializable transaction.  The artifact is inserted or
\* its owner checked, the next version inserted with the manifest that was
\* read by CommitLookup, and the session marked committed if it still exists
\* and is not.  Its reply may be lost: the handler is done either way.
CommitVersion(r) ==
    LET u == req[r].upload
        a == Target(u)
    IN
    /\ req[r].pc = "commit"
    /\ row[u].state = "live"
    /\ row[u].version = 0
    /\ IF row[u].art = None THEN owner[a] = None
                            ELSE owner[a] = row[u].by /\ a \notin deleted
    /\ owner' = [owner EXCEPT ![a] = row[u].by]
    /\ versions' = [versions EXCEPT ![a] =
                      Append(@, [upload |-> u, bundle |-> req[r].bundle])]
    /\ row' = [row EXCEPT ![u].art = a, ![u].version = Len(versions[a]) + 1]
    /\ Reply(r)
    /\ UNCHANGED <<deleted, stage, dest, maint>>

\* An object store error, a failed guard or serialization failure of
\* CommitVersion (rolled back), a cancelled request: the handler gives up.
CommitError(r) ==
    /\ req[r].pc \in {"publish", "put", "commit"}
    /\ Reply(r)
    /\ UNCHANGED <<db, stage, dest, maint>>

-----------------------------------------------------------------------------
(* runMaintenance: one transaction deletes the expired sessions (committed *)
(* ones too), then their stages go, then every stage older than 2 * TTL.   *)

StageIsOld(u) == stage[u].dir /\ stage[u].age > 2 * TTL

MaintCleanup ==
    LET expired == {u \in Uploads : row[u].state = "live" /\ row[u].left = 0}
    IN
    /\ maint.pc = "idle"
    /\ row' = [u \in Uploads |-> IF u \in expired THEN GoneRow
                                                  ELSE row[u]]
    /\ maint' = [pc |-> "remove", ids |-> expired, list |-> {},
                 old |-> {u \in Uploads : StageIsOld(u)}]
    /\ UNCHANGED <<owner, deleted, versions, stage, dest, req>>

\* RemoveStage; an error is logged and the loop goes on.
MaintRemove(u) ==
    /\ maint.pc = "remove"
    /\ u \in maint.ids
    /\ maint' = [maint EXCEPT !.ids = @ \ {u}]
    /\ \/ stage' = [stage EXCEPT ![u] = NoStage]
       \/ UNCHANGED stage
    /\ UNCHANGED <<db, dest, req>>

\* Variant: only the stages of sessions just deleted are looked at.
MaintListNone ==
    /\ maint.pc = "remove"
    /\ maint.ids = {}
    /\ maint' = [maint EXCEPT !.pc = "sweep"]
    /\ UNCHANGED <<db, stage, dest, req>>

\* CleanupStages reads the directory ...
MaintList ==
    /\ maint.pc = "remove"
    /\ maint.ids = {}
    /\ maint' = [maint EXCEPT !.pc = "sweep",
                              !.list = {u \in Uploads : stage[u].dir}]
    /\ UNCHANGED <<db, stage, dest, req>>

\* ... and removes the entries whose mtime is before the cutoff; an entry that
\* vanished fails entry.Info and ends the sweep.
MaintSweep(u) ==
    /\ maint.pc = "sweep"
    /\ u \in maint.list
    /\ \/ /\ stage[u].dir
          /\ maint' = [maint EXCEPT !.list = @ \ {u}]
          /\ stage' = IF u \in maint.old
                        THEN [stage EXCEPT ![u] = NoStage]
                        ELSE stage
       \/ /\ ~stage[u].dir
          /\ maint' = Resting
          /\ UNCHANGED stage
    /\ UNCHANGED <<db, dest, req>>

MaintDone ==
    /\ maint.pc = "sweep"
    /\ maint.list = {}
    /\ maint' = Resting
    /\ UNCHANGED <<db, stage, dest, req>>

-----------------------------------------------------------------------------
(* The environment.                                                        *)

\* Variant: a hard delete, cascading to artifact_versions.
AdminDeleteArtifactHard(a) ==
    /\ owner[a] # None
    /\ a \notin deleted
    /\ deleted' = deleted \cup {a}
    /\ versions' = [versions EXCEPT ![a] = <<>>]
    /\ UNCHANGED <<row, owner, stage, dest, req, maint>>

\* AdminDeleteArtifact, as far as publishing sees it.
AdminDeleteArtifact(a) ==
    /\ owner[a] # None
    /\ a \notin deleted
    /\ deleted' = deleted \cup {a}
    /\ UNCHANGED <<row, owner, versions, stage, dest, req, maint>>

Tick ==
    /\ row' = [u \in Uploads |->
                 [row[u] EXCEPT !.left = IF @ > 0 THEN @ - 1 ELSE 0]]
    /\ stage' = [u \in Uploads |->
                   [stage[u] EXCEPT !.age =
                      IF stage[u].dir /\ @ < MaxAge THEN @ + 1 ELSE @]]
    /\ UNCHANGED <<owner, deleted, versions, dest, req, maint>>

\* The process dies: no deferred cleanup runs, and a new process starts with a
\* maintenance run.  PostgreSQL and the directories survive, with the files that
\* were being copied as far as they got.
Crash ==
    /\ req' = [r \in Reqs |-> Idle]
    /\ maint' = Resting
    /\ stage' = [u \in Uploads |-> [stage[u] EXCEPT !.files = Abandon(@)]]
    /\ dest' = [u \in Uploads |-> [dest[u] EXCEPT !.files = Abandon(@)]]
    /\ UNCHANGED db

Put(r) ==
    \/ \E u \in Uploads, b \in Bundles : PutLookup(r, u, b)
    \/ PutMkdir(r) \/ PutCreate(r) \/ PutCopy(r) \/ PutFinish(r)
    \/ PutStageError(r) \/ PutMark(r) \/ PutCleanup(r)

Commit(r) ==
    \/ \E usr \in Users, u \in Uploads : CommitLookup(r, usr, u)
    \/ PublishFs(r)
    \/ PublishS3Walk(r) \/ PublishS3Put(r) \/ PublishS3Done(r)
    \/ CommitVersion(r) \/ CommitError(r)

Maintenance ==
    \/ MaintCleanup \/ MaintList \/ MaintDone
    \/ \E u \in Uploads : MaintRemove(u) \/ MaintSweep(u)

Next ==
    \/ \E usr \in Users, u \in Uploads, a \in Uploads \cup {None} :
         CreateUpload(usr, u, a)
    \/ \E r \in Reqs : Put(r) \/ Commit(r)
    \/ Maintenance
    \/ \E a \in Uploads : AdminDeleteArtifact(a)
    \/ Tick
    \/ Crash

Spec == Init /\ [][Next]_vars

-----------------------------------------------------------------------------
(* Properties.                                                             *)

Complete(u, b) == stage[u].dir /\ stage[u].files = Content(b)
Holds(d, b) == d.dir /\ \A f \in FilesOf[b] : d.files[f] = b

\* The objects of a committed version are exactly the files of the manifest its
\* database row records: nothing of another attempt at the same session, nothing
\* missing, nothing extra (commitForUser and Store.PublishUpload, no lock
\* between them).
VersionIntact ==
    \A a \in Uploads : \A i \in 1..Len(versions[a]) :
        dest[versions[a][i].upload] =
            [dir |-> TRUE, files |-> Content(versions[a][i].bundle)]

\* However commits are retried and interleaved, a session yields at most one
\* version, and a retry that finds the session committed is answered with the
\* version this session made (CommitVersion's last UPDATE, commitForUser's early
\* return).
CommitOnce ==
    /\ \A a, b \in Uploads :
          \A i \in 1..Len(versions[a]), j \in 1..Len(versions[b]) :
              versions[a][i].upload = versions[b][j].upload => a = b /\ i = j
    /\ \A u \in Uploads :
          row[u].version > 0 =>
            /\ row[u].version <= Len(versions[row[u].art])
            /\ versions[row[u].art][row[u].version].upload = u

\* The bundle of an acknowledged PUT is not lost while its session can be
\* committed: it is complete in the staging directory or in the object
\* directory, whatever cleanups, retries, crashes and maintenance runs went on
\* (putUpload, RemoveStage, CleanupStages).
AckedBundleKept ==
    \A u \in Uploads :
        Live(u) /\ row[u].version = 0 /\ row[u].staged # None =>
            Complete(u, row[u].staged) \/ Holds(dest[u], row[u].staged)

\* "Existing artifact versions are immutable": once a version row exists neither
\* the row nor one of its objects is ever changed (PublishUpload of a second
\* attempt at the same session).
Immutable ==
    [][\A a \in Uploads : \A i \in 1..Len(versions[a]) :
          /\ versions'[a][i] = versions[a][i]
          /\ dest'[versions[a][i].upload] = dest[versions[a][i].upload]]_vars

\* The contents a reader of version i of artifact a gets: Version, then Open.
Served ==
    [a \in Uploads |->
        [i \in 1..Len(versions[a]) |-> dest[versions[a][i].upload].files]]

\* What publishing promises: every artifact is a growing list of whole bundles.
History == INSTANCE ArtifactHistory
    WITH Artifacts <- Uploads,
         Whole <- {Content(b) : b \in Bundles},
         history <- Served

\* The pipeline implements that list: a version appears in one step, whole, and
\* no later step of any handler, of maintenance or of a crash shows in it.
ImplementsHistory == History!Spec

\* A staging directory whose session is gone is eventually removed, also when
\* the process died between the transaction that deleted the session and
\* RemoveStage (runMaintenance, CleanupStages).
StageReclaimed ==
    \A u \in Uploads :
        row[u].state = "gone" /\ stage[u].dir ~> ~stage[u].dir

\* Time passes and the maintenance goroutine is scheduled.  Its steps are
\* strongly fair because a crash may always intervene: the process is assumed
\* not to die in every single run.  Clients, administrators and crashes owe
\* nothing.
MaintFairness ==
    /\ WF_vars(Tick)
    /\ SF_vars(MaintCleanup) /\ SF_vars(MaintList) /\ SF_vars(MaintDone)
    /\ \A u \in Uploads : SF_vars(MaintRemove(u)) /\ SF_vars(MaintSweep(u))

FairSpec == Spec /\ MaintFairness
=============================================================================

-------------------------- MODULE PublishingS3Proofs --------------------------
(***************************************************************************)
(* Theorems about Publishing on the S3 backend, where PublishUpload copies *)
(* file by file, for clients that do not send a bundle to a session again  *)
(* once one was acknowledged there.  Without that discipline VersionIntact *)
(* and Immutable fail: a commit copies the half-extracted files of the     *)
(* repeated PUT (run publish_s3_overwrite).                                *)
(***************************************************************************)
EXTENDS PublishingS3Inv, PublishingProofs

S3 == Backend = "s3" /\ ~MarkReplyLost

-----------------------------------------------------------------------------
(* S3: the facts that the steps share.                                     *)

\* Contents that are all there and nobody else's are the bundle's.
LEMMA WholeDest ==
    ASSUME TypeOK, NEW u \in Uploads, NEW b \in Bundles,
           \A f \in FilesOf[b] : dest[u].dir /\ dest[u].files[f] = b,
           \A f \in Files : dest[u].files[f] \in {None, Content(b)[f]}
    PROVE  dest[u] = Whole(b)
<1>1. dest[u] \in Dests
  BY DEF TypeOK
<1>2. dest[u].files \in Contents
  BY <1>1 DEF Dests
<1>3. FilesOf[b] # {} /\ FilesOf[b] \subseteq Files
  BY BundlesAssumption, FilesOfType
<1>4. \A f \in Files : dest[u].files[f] = IF f \in FilesOf[b] THEN b ELSE None
  BY <1>3 DEF Content
<1>5. dest[u].files = Content(b)
  BY <1>2, <1>4 DEF Contents, Content
<1>6. dest[u].dir
  BY <1>3
<1>7. QED BY <1>1, <1>5, <1>6 DEF Dests, Whole

\* What the commits of session u rely on is untouched by a step.
Spared(u) ==
    /\ row'[u].staged = row[u].staged
    /\ dest[u] = NoDest => dest'[u] = NoDest
    /\ row[u].staged # None =>
         /\ stage[u] = NoStage => stage'[u] = NoStage
         /\ Complete(u, row[u].staged) => Complete(u, row[u].staged)'
         /\ dest[u] = Whole(row[u].staged) => dest'[u] = dest[u]
         /\ dest[u].dir => dest'[u].dir
         /\ \A f \in Files : dest[u].files[f] \in Bundles \cup {None} =>
                               dest'[u].files[f] = dest[u].files[f]

\* The values of a session's row.
LEMMA StagedType ==
    ASSUME TypeOK, NEW u \in Uploads
    PROVE  row[u].staged \in Bundles \cup {None} /\ row[u].state \in {"none", "live", "gone"}
BY DEF TypeOK, Rows

\* A session that stays as it is.
LEMMA UnchangedSpared ==
    ASSUME NEW u \in Uploads, row'[u].staged = row[u].staged,
           stage'[u] = stage[u], dest'[u] = dest[u]
    PROVE  Spared(u)
BY DEF Spared, Complete, Content

\* An open session keeps its bundle where a step spares it.
LEMMA KeptSpared ==
    ASSUME KInv, NEW u \in Uploads, Open(u), Spared(u)
    PROVE  Kept(u)' /\ Fits(u)'
<1>1. Kept(u) /\ Fits(u) /\ row[u].staged \in Bundles \cup {None}
  BY StagedType DEF KInv, S3Inv, Sharing
<1>2. Kept(u)'
  <2>1. CASE row[u].staged = None
    BY <1>1, <2>1 DEF Spared, Kept
  <2>2. CASE row[u].staged # None
    <3>1. CASE Complete(u, row[u].staged)
      <4>1. Complete(u, row[u].staged)'
        BY <2>2, <3>1 DEF Spared
      <4>2. row'[u].staged = row[u].staged
        BY DEF Spared
      <4>3. QED BY <2>2, <4>1, <4>2 DEF Kept, Complete, Content
    <3>2. CASE stage[u] = NoStage /\ dest[u] = Whole(row[u].staged)
      BY <2>2, <3>2 DEF Spared, Kept, Whole, Content
    <3>3. QED BY <1>1, <2>2, <3>1, <3>2 DEF Kept
  <2>3. QED BY <2>1, <2>2
<1>3. Fits(u)'
  <2>1. ASSUME row[u].staged # None, NEW f \in Files
        PROVE  dest'[u].files[f] \in {None, Content(row[u].staged)[f]}
    <3>1. dest[u].files[f] \in {None, Content(row[u].staged)[f]}
      BY <1>1, <2>1 DEF Fits
    <3>2. Content(row[u].staged)[f] \in Bundles \cup {None}
      BY <1>1 DEF Content
    <3>3. dest[u].files[f] \in Bundles \cup {None}
      BY <3>1, <3>2
    <3>4. QED BY <2>1, <3>1, <3>3 DEF Spared
  <2>2. row'[u].staged = row[u].staged
    BY DEF Spared
  <2>3. QED BY <2>1, <2>2 DEF Fits, Content
<1>4. QED BY <1>2, <1>3

\* So does what a commit of it has copied.
LEMMA CopierSpared ==
    ASSUME KInv, NEW r \in Reqs, req'[r] = req[r],
           req[r].pc \in {"publish", "put", "commit"},
           Open(req[r].upload)' => Open(req[r].upload) /\ Spared(req[r].upload)
    PROVE  Copies(r)'
<1> DEFINE u == req[r].upload
           b == req[r].bundle
<1>1. u \in Uploads /\ b \in Bundles /\ b # None
  BY Busy, NoneAssumption DEF KInv
<1> SUFFICES ASSUME Open(u)'
             PROVE  /\ b = row'[u].staged
                    /\ req[r].pc = "put" =>
                         \A f \in FilesOf[b] \ req[r].todo :
                            dest'[u].dir /\ dest'[u].files[f] = b
                    /\ req[r].pc = "commit" => dest'[u] = Whole(b)
  BY DEF Copies, Whole, Content
<1>2. /\ Open(u) /\ Spared(u) /\ b = row[u].staged
      /\ req[r].pc = "put" =>
           \A f \in FilesOf[b] \ req[r].todo : dest[u].dir /\ dest[u].files[f] = b
      /\ req[r].pc = "commit" => dest[u] = Whole(b)
  BY DEF KInv, S3Inv, Sharing, Copies
<1>3. FilesOf[b] \subseteq Files
  BY <1>1, FilesOfType
<1>4. QED BY <1>1, <1>2, <1>3 DEF Spared

\* A step that opens no session, lets no commit advance and spares what is open.
LEMMA SharingSpared ==
    ASSUME KInv,
           \A u \in Uploads : Open(u)' => Open(u) /\ Spared(u),
           \A r \in Reqs : req'[r].pc \in {"publish", "put", "commit"} => req'[r] = req[r]
    PROVE  Sharing'
<1>1. ASSUME NEW r \in Reqs PROVE Copies(r)'
  <2>1. CASE req'[r].pc \in {"publish", "put", "commit"}
    <3>1. req'[r] = req[r] /\ req[r].upload \in Uploads
      BY <2>1, Busy DEF KInv
    <3>2. QED BY <2>1, <3>1, CopierSpared
  <2>2. CASE req'[r].pc \notin {"publish", "put", "commit"}
    BY <2>2 DEF Copies
  <2>3. QED BY <2>1, <2>2
<1>2. \A u \in Uploads : Open(u)' => Kept(u)' /\ Fits(u)'
  BY KeptSpared
<1>3. QED BY <1>1, <1>2 DEF Sharing

\* Versions stay sealed where each sealed session stays so.
LEMMA StaySealed ==
    ASSUME KInv, UNCHANGED versions,
           \A u \in Uploads, b \in Bundles : Sealed(u, b) => Sealed(u, b)'
    PROVE  Published'
<1> SUFFICES ASSUME NEW a \in Uploads, NEW i \in 1..Len(versions[a])
             PROVE  Sealed(versions[a][i].upload, versions[a][i].bundle)'
  BY DEF Published
<1>1. versions[a][i] \in VersionRows
  BY DEF KInv, TypeOK
<1>2. versions[a][i].upload \in Uploads /\ versions[a][i].bundle \in Bundles
  BY <1>1 DEF VersionRows
<1>3. Sealed(versions[a][i].upload, versions[a][i].bundle)
  BY DEF KInv, S3Inv, Published
<1>4. ASSUME NEW u \in Uploads, NEW b \in Bundles, u = versions[a][i].upload,
             b = versions[a][i].bundle
      PROVE  Sealed(u, b)'
  BY <1>3, <1>4
<1>5. QED BY <1>2, <1>4 DEF Sealed, Complete, Content, Whole

\* A session stays sealed in a step that leaves its directories and its row alone,
\* but perhaps deletes it.
LEMMA SealedKept ==
    ASSUME NEW u \in Uploads, NEW b \in Bundles, Sealed(u, b),
           \/ row'[u].state = row[u].state /\ row'[u].staged = row[u].staged
           \/ row'[u].state = "gone",
           stage'[u] \in {stage[u], NoStage}, dest'[u] = dest[u],
           \A r \in Reqs : Putting(r)' /\ req'[r].upload = u =>
                             Putting(r) /\ req[r].upload = u
    PROVE  Sealed(u, b)'
BY DEF Sealed, Complete, Content, Whole, Putting

-----------------------------------------------------------------------------
(* S3: steps that end requests and sessions.                               *)

\* The process dies: what is whole has no open file.
LEMMA CrashS3 ==
    ASSUME KInv, Crash PROVE Sharing' /\ Published'
<1>1. UNCHANGED <<row, versions>> /\ \A r \in Reqs : req'[r] = Idle
  BY DEF Crash, db
<1>2. ASSUME NEW u \in Uploads
      PROVE  /\ stage[u] = NoStage => stage'[u] = NoStage
             /\ dest[u] = NoDest => dest'[u] = NoDest
             /\ dest'[u].dir = dest[u].dir
             /\ \A f \in Files : dest[u].files[f] \in Bundles \cup {None} =>
                                   dest'[u].files[f] = dest[u].files[f]
             /\ \A b \in Bundles : /\ Complete(u, b) => Complete(u, b)'
                                   /\ dest[u] = Whole(b) => dest'[u] = Whole(b)
  <2>1. /\ stage'[u] = [stage[u] EXCEPT !.files = Abandon(stage[u].files)]
        /\ dest'[u] = [dest[u] EXCEPT !.files = Abandon(dest[u].files)]
        /\ stage'[u].dir = stage[u].dir
        /\ stage'[u].files = Abandon(stage[u].files)
        /\ dest'[u].dir = dest[u].dir
        /\ dest'[u].files = Abandon(dest[u].files)
    BY CrashEffect DEF KInv
  <2>2. stage[u] = NoStage => stage'[u] = NoStage
    <3>1. ~stage[u].dir => stage[u] = NoStage
      BY DEF KInv, S3Inv, Stores, Absent
    <3>2. ~stage[u].dir => stage'[u] = stage[u]
      BY <2>1, <3>1, FillEmpty DEF NoStage
    <3>3. QED BY <3>2 DEF NoStage
  <2>3. dest[u] = NoDest => dest'[u] = NoDest
    <3>1. ~dest[u].dir => dest[u] = NoDest
      BY DEF KInv, S3Inv, Stores, Absent
    <3>2. ~dest[u].dir => dest'[u] = dest[u]
      BY <2>1, <3>1, FillEmpty DEF NoDest
    <3>3. QED BY <3>2 DEF NoDest
  <2>4. \A f \in Files : dest[u].files[f] \in Bundles \cup {None} =>
                           dest'[u].files[f] = dest[u].files[f]
    BY <2>1, ContentsAssumption DEF Abandon
  <2>5. ASSUME NEW b \in Bundles PROVE Complete(u, b) => Complete(u, b)'
    BY <2>1, FillWhole DEF Complete, Content
  <2>6. ASSUME NEW b \in Bundles, dest[u] = Whole(b) PROVE dest'[u] = Whole(b)
    <3>1. dest[u].dir = TRUE /\ dest[u].files = Content(b)
      BY <2>6 DEF Whole
    <3>2. dest'[u].dir = TRUE /\ dest'[u].files = Content(b)
      BY <2>1, <3>1, FillWhole
    <3>3. dest'[u] \in Dests
      BY CrashEffect DEF KInv
    <3>4. QED BY <3>2, <3>3 DEF Dests, Whole
  <2>7. QED BY <2>1, <2>2, <2>3, <2>4, <2>5, <2>6
<1>3. ASSUME NEW u \in Uploads PROVE Spared(u)
  <2>1. row[u].staged \in Bundles \cup {None}
    BY StagedType DEF KInv
  <2>2. QED BY <1>1, <1>2, <2>1 DEF Spared
<1>4. Sharing'
  BY <1>1, <1>3, SharingSpared DEF Open, Idle
<1>5. ASSUME NEW u \in Uploads, NEW b \in Bundles, Sealed(u, b) PROVE Sealed(u, b)'
  BY <1>1, <1>2, <1>5, IdleValues DEF Sealed, Whole, Content, Putting
<1>6. QED BY <1>1, <1>4, <1>5, StaySealed

\* Maintenance and time: what goes belongs to sessions that are deleted for good.
LEMMA MaintenanceS3 ==
    ASSUME KInv, Maintenance \/ Tick PROVE Sharing' /\ Published'
<1>1. UNCHANGED <<dest, versions, req>>
  BY DEF Maintenance, MaintCleanup, MaintList, MaintDone, MaintRemove, MaintSweep,
         Tick, db
<1>2. ASSUME NEW u \in Uploads
      PROVE  \/ /\ row'[u].state = row[u].state /\ row'[u].staged = row[u].staged
                /\ row'[u].version = row[u].version
             \/ row'[u].state = "gone"
  <2>1. CASE MaintCleanup
    BY <2>1 DEF MaintCleanup, GoneRow, NoRow
  <2>2. CASE Tick
    BY <2>2, TickEffect DEF KInv
  <2>3. CASE ~MaintCleanup /\ ~Tick
    BY <2>3 DEF Maintenance, MaintList, MaintDone, MaintRemove, MaintSweep, db
  <2>4. QED BY <2>1, <2>2, <2>3
<1>3. ASSUME NEW u \in Uploads
      PROVE  /\ Open(u) => /\ stage'[u].dir = stage[u].dir
                           /\ stage'[u].files = stage[u].files
             /\ stage[u] = NoStage => stage'[u] = NoStage
             /\ \/ stage'[u] = NoStage
                \/ stage'[u].dir = stage[u].dir /\ stage'[u].files = stage[u].files
  <2>1. CASE Tick
    BY <2>1, TickEffect DEF KInv, NoStage
  <2>2. ASSUME NEW v \in Uploads, MaintRemove(v) \/ MaintSweep(v)
        PROVE  stage'[u] = stage[u] \/ (stage'[u] = NoStage /\ ~Open(u))
    <3>1. CASE stage' # stage
      <4>1. stage' = [stage EXCEPT ![v] = NoStage] /\ v \in maint.ids \cup maint.old
        BY <2>2, <3>1 DEF MaintRemove, MaintSweep
      <4>2. ~Open(v)
        BY <4>1 DEF KInv, S3Inv, Stores, Condemned, Open
      <4>3. QED BY <4>1, <4>2 DEF KInv, TypeOK
    <3>2. QED BY <3>1
  <2>3. CASE MaintCleanup \/ MaintList \/ MaintDone
    BY <2>3 DEF MaintCleanup, MaintList, MaintDone
  <2>4. QED BY <2>1, <2>2, <2>3 DEF Maintenance
<1>4. ASSUME NEW u \in Uploads, Open(u)' PROVE Open(u) /\ Spared(u)
  <2>1. Open(u) /\ row'[u].staged = row[u].staged
    BY <1>2, <1>4 DEF Open
  <2>2. QED BY <1>1, <1>3, <2>1 DEF Spared, Complete, Content
<1>5. Sharing'
  BY <1>1, <1>4, SharingSpared
<1>6. ASSUME NEW u \in Uploads, NEW b \in Bundles, Sealed(u, b) PROVE Sealed(u, b)'
  BY <1>1, <1>2, <1>3, <1>6 DEF Sealed, Complete, Whole, Content, Putting
<1>7. QED BY <1>1, <1>5, <1>6, StaySealed

\* Nothing happens but that a request ends.
LEMMA QuietS3 ==
    ASSUME KInv, UNCHANGED <<row, stage, dest, versions>>,
           \A r \in Reqs : req'[r] = req[r] \/ req'[r] = Idle
    PROVE  Sharing' /\ Published'
<1> USE IdleValues
<1>1. \A u \in Uploads : Open(u)' => Open(u) /\ Spared(u)
  BY UnchangedSpared DEF Open
<1>2. \A r \in Reqs : req'[r].pc \in {"publish", "put", "commit"} => req'[r] = req[r]
  OBVIOUS
<1>3. Sharing'
  BY <1>1, <1>2, SharingSpared
<1>4. ASSUME NEW u \in Uploads, NEW b \in Bundles, Sealed(u, b) PROVE Sealed(u, b)'
  BY <1>4, SealedKept DEF Putting
<1>5. QED BY <1>3, <1>4, StaySealed

\* A new session is empty, and no version is its.
LEMMA CreateUploadS3 ==
    ASSUME KInv, NEW usr \in Users, NEW u \in Uploads, NEW a \in Uploads \cup {None},
           CreateUpload(usr, u, a)
    PROVE  Sharing' /\ Published'
<1>0. /\ UNCHANGED <<stage, dest, versions, req>>
      /\ row[u].state = "none" /\ row'[u].staged = None
      /\ \A v \in Uploads \ {u} : row'[v] = row[v]
  BY DEF KInv, TypeOK, CreateUpload, NoRow
<1>1. dest[u] = NoDest /\ \A r \in Reqs : req[r].upload # u
  BY <1>0 DEF KInv, S3Inv, Stores, Fresh, Absent
<1>2. ASSUME NEW v \in Uploads \ {u} PROVE Spared(v) /\ (Open(v)' <=> Open(v))
  BY <1>0, UnchangedSpared DEF Open
<1>3. \A v \in Uploads : Open(v)' => Kept(v)' /\ Fits(v)'
  BY <1>0, <1>1, <1>2, KeptSpared DEF Kept, Fits
<1>4. ASSUME NEW r \in Reqs PROVE Copies(r)'
  <2>1. CASE req[r].pc \in {"publish", "put", "commit"}
    <3>1. req[r].upload \in Uploads \ {u}
      BY <2>1, <1>1, Busy DEF KInv
    <3>2. QED BY <1>0, <1>2, <2>1, <3>1, CopierSpared
  <2>2. CASE req[r].pc \notin {"publish", "put", "commit"}
    BY <1>0, <2>2 DEF Copies
  <2>3. QED BY <2>1, <2>2
<1>5. Sharing'
  BY <1>3, <1>4 DEF Sharing
<1>6. ASSUME NEW v \in Uploads, NEW b \in Bundles, Sealed(v, b) PROVE Sealed(v, b)'
  <2>1. v # u
    BY <1>0, <1>6 DEF Sealed
  <2>2. QED BY <1>0, <1>6, <2>1, SealedKept DEF Putting
<1>7. QED BY <1>0, <1>5, <1>6, StaySealed

-----------------------------------------------------------------------------
(* S3: putUpload, on a session without an acknowledged bundle.             *)

\* A request that puts works on a session that has no staged bundle yet, and that
\* no version came from.
LEMMA Putter ==
    ASSUME KInv, OnePut, NEW r \in Reqs, Putting(r)
    PROVE  /\ req[r].upload \in Uploads
           /\ row[req[r].upload].staged = None
           /\ \A u \in Uploads, b \in Bundles : Sealed(u, b) => u # req[r].upload
<1>1. req[r].upload \in Uploads /\ row[req[r].upload].staged = None
  BY Busy DEF KInv, OnePut, Putting
<1>2. QED BY <1>1 DEF Sealed

\* A step of a PUT that leaves the object directory empty is no matter to commits.
LEMMA PutStepS3 ==
    ASSUME KInv, NEW r \in Reqs, NEW u \in Uploads, row[u].staged = None,
           \A v \in Uploads, b \in Bundles : Sealed(v, b) => v # u,
           UNCHANGED <<row, versions>>,
           req'[r].pc \notin {"publish", "put", "commit"},
           Putting(r)' => req'[r].upload = u,
           \A s \in Reqs \ {r} : req'[s] = req[s],
           \A v \in Uploads \ {u} : stage'[v] = stage[v] /\ dest'[v] = dest[v],
           dest[u] = NoDest => dest'[u] = NoDest
    PROVE  Sharing' /\ Published'
<1>1. ASSUME NEW v \in Uploads, Open(v)' PROVE Open(v) /\ Spared(v)
  <2>1. Open(v)
    BY <1>1 DEF Open
  <2>2. row'[v].staged = row[v].staged
    OBVIOUS
  <2>3. CASE v = u
    BY <2>1, <2>2, <2>3 DEF Spared
  <2>4. CASE v # u
    <3>1. stage'[v] = stage[v] /\ dest'[v] = dest[v]
      BY <2>4
    <3>2. QED BY <2>1, <2>2, <3>1, UnchangedSpared
  <2>5. QED BY <2>1, <2>3, <2>4
<1>2. Sharing'
  BY <1>1, SharingSpared
<1>3. ASSUME NEW v \in Uploads, NEW b \in Bundles, Sealed(v, b) PROVE Sealed(v, b)'
  <2>1. v # u
    BY <1>3
  <2>2. QED BY <1>3, <2>1, SealedKept DEF Putting
<1>4. QED BY <1>2, <1>3, StaySealed

\* UploadByToken: the discipline says that nothing is acknowledged yet.
LEMMA PutLookupS3 ==
    ASSUME KInv, OnePut', NEW r \in Reqs, NEW u \in Uploads, NEW b \in Bundles,
           PutLookup(r, u, b)
    PROVE  Sharing' /\ Published'
<1>1. /\ req'[r].pc = "mkdir" /\ req'[r].upload = u
      /\ \A s \in Reqs \ {r} : req'[s] = req[s]
      /\ UNCHANGED <<row, versions, stage, dest>>
      /\ row[u].state = "live"
  BY DEF PutLookup, KInv, TypeOK, db, Live
<1>2. row[u].staged = None
  BY <1>1 DEF OnePut, Putting
<1>3. \A v \in Uploads, c \in Bundles : Sealed(v, c) => v # u
  BY <1>1, <1>2 DEF Sealed
<1>4. QED BY <1>1, <1>2, <1>3, PutStepS3

\* StageZIP and RemoveStage.
LEMMA PutStageS3 ==
    ASSUME KInv, OnePut, NEW r \in Reqs,
           \/ PutMkdir(r) \/ PutCreate(r) \/ PutCopy(r) \/ PutFinish(r)
           \/ PutStageError(r) \/ PutCleanup(r)
           \/ req[r].pc = "mark" /\ Goto(r, "cleanup")
              /\ UNCHANGED <<row, stage, dest, versions>>
    PROVE  Sharing' /\ Published'
<1> DEFINE u == req[r].upload
<1>0. Putting(r)
  BY DEF Putting, PutMkdir, PutCreate, PutCopy, PutFinish, PutStageError, PutCleanup
<1>1. /\ u \in Uploads /\ row[u].staged = None
      /\ \A v \in Uploads, b \in Bundles : Sealed(v, b) => v # u
  BY <1>0, Putter
<1>2. req[r] \in Active /\ req[r].bundle \in Bundles
  BY <1>0, Busy DEF KInv, Putting
<1>3. UNCHANGED <<row, versions>>
  BY DEF PutMkdir, PutCreate, PutCopy, PutFinish, PutStageError, PutCleanup, db
<1>4. /\ \/ req'[r] = Idle
         \/ /\ req'[r].upload = u
            /\ req'[r].pc \in {"extract", "copy", "mark", "cleanup"}
      /\ \A s \in Reqs \ {r} : req'[s] = req[s]
  <2>1. CASE \/ Reply(r)
             \/ \E pc \in {"extract", "copy", "mark", "cleanup"} : Goto(r, pc)
    BY <2>1, <1>0, ReplyEffect, GotoEffect DEF KInv, Putting
  <2>2. CASE \E f \in req[r].todo :
               req' = [req EXCEPT ![r].pc = "copy", ![r].todo = @ \ {f}]
    BY <2>2, <1>2 DEF KInv, TypeOK, Active
  <2>3. QED BY <2>1, <2>2 DEF PutMkdir, PutCreate, PutCopy, PutFinish, PutStageError,
                               PutCleanup
<1>5. \A v \in Uploads \ {u} : stage'[v] = stage[v] /\ dest'[v] = dest[v]
  BY <1>1 DEF PutMkdir, PutCreate, PutCopy, PutFinish, PutStageError, PutCleanup,
              KInv, TypeOK
<1>6. dest[u] = NoDest => dest'[u] = NoDest
  <2>1. CASE PutCopy(r) \/ PutStageError(r)
    <3>1. PICK x \in Bundles \cup {Torn} :
            /\ stage' = [stage EXCEPT ![u].files = Fill(@, r, x)]
            /\ dest' = [dest EXCEPT ![u].files = Fill(@, r, x)]
      BY <2>1, <1>2 DEF PutCopy, PutStageError
    <3> HIDE DEF u
    <3>2. dest'[u] = [dest[u] EXCEPT !.files = Fill(dest[u].files, r, x)]
      BY <1>1, <3>1, FillEffect DEF KInv
    <3>3. ~dest[u].dir => dest[u] = NoDest
      BY <1>1 DEF KInv, S3Inv, Stores, Absent
    <3>4. ~dest[u].dir => dest'[u] = dest[u]
      BY <3>2, <3>3, FillEmpty DEF NoDest
    <3>5. QED BY <3>4 DEF NoDest
  <2>2. CASE dest' = dest
    BY <2>2
  <2>3. QED BY <2>1, <2>2 DEF PutMkdir, PutCreate, PutFinish, PutCleanup
<1> HIDE DEF u
<1>7. /\ req'[r].pc \notin {"publish", "put", "commit"}
      /\ Putting(r)' => req'[r].upload = u
  BY <1>4, IdleValues DEF Putting
<1>8. QED BY <1>1, <1>3, <1>4, <1>5, <1>6, <1>7, PutStepS3

\* MarkUploadStaged: the stage is whole, and nothing was published before.
LEMMA PutMarkS3 ==
    ASSUME S3, KInv, OnePut, NEW r \in Reqs, PutMark(r) PROVE Sharing' /\ Published'
<1>0. Putting(r) /\ req[r].pc = "mark"
  BY DEF PutMark, Putting
<1>1. PICK u \in Uploads :
        /\ req[r].upload = u
        /\ row[u].staged = None
        /\ \A v \in Uploads, c \in Bundles : Sealed(v, c) => v # u
  BY <1>0, Putter
<1>2. PICK b \in Bundles : req[r].bundle = b /\ b # None
  BY <1>0, Busy, NoneAssumption DEF KInv
<1>3. UNCHANGED <<stage, dest, versions>>
  BY DEF PutMark
<1>4. CASE Goto(r, "cleanup") /\ UNCHANGED row
  BY <1>0, <1>3, <1>4, PutStageS3
<1>5. CASE /\ Live(u) /\ row[u].version = 0
           /\ row' = [row EXCEPT ![u].staged = b]
           /\ Reply(r)
  <2>1. Open(u)
    BY <1>5 DEF Open, Live
  <2>2. /\ row'[u].staged = b
        /\ \A v \in Uploads \ {u} : row'[v] = row[v]
    BY <1>1, <1>5 DEF KInv, TypeOK, Rows
  <2>3. req'[r] = Idle /\ \A s \in Reqs \ {r} : req'[s] = req[s]
    BY <1>5, ReplyEffect DEF KInv
  <2>4. stage[u].dir /\ stage[u].files = Content(b)
    <3>1. Stager(r, u)
      BY <1>0, <1>1 DEF Stager
    <3>2. Owns(r, u)
      BY <2>1, <3>1 DEF KInv, S3Inv, Staging, StagerOwns
    <3>3. QED BY <1>0, <1>2, <3>2 DEF Owns
  <2>5. dest[u] = NoDest
    BY <1>1, <2>1 DEF KInv, S3Inv, Sharing, Kept
  <2>6. Kept(u)'
    <3>1. stage'[u].dir /\ stage'[u].files = Content(row'[u].staged)
      BY <1>3, <2>2, <2>4
    <3>2. QED BY <1>2, <2>2, <3>1 DEF Kept, Complete, Content
  <2>7. Fits(u)'
    <3>1. \A f \in Files : dest'[u].files[f] = None
      BY <1>3, <2>5 DEF NoDest, Empty
    <3>2. QED BY <3>1 DEF Fits
  <2>8. ASSUME NEW v \in Uploads \ {u} PROVE Spared(v) /\ (Open(v)' <=> Open(v))
    BY <1>3, <2>2, UnchangedSpared DEF Open
  <2>9. \A v \in Uploads : Open(v)' => Kept(v)' /\ Fits(v)'
    BY <2>6, <2>7, <2>8, KeptSpared
  <2>10. ASSUME NEW s \in Reqs PROVE Copies(s)'
    <3>1. CASE req'[s].pc \in {"publish", "put", "commit"}
      <4>1. req'[s] = req[s] /\ req[s].upload \in Uploads /\ req[s].bundle \in Bundles
        BY <2>3, <3>1, IdleValues, Busy DEF KInv
      <4>2. req[s].upload # u
        BY <1>1, <2>1, <3>1, <4>1, NoneAssumption DEF KInv, S3Inv, Sharing, Copies
      <4>3. QED BY <2>8, <3>1, <4>1, <4>2, CopierSpared
    <3>2. CASE req'[s].pc \notin {"publish", "put", "commit"}
      BY <3>2 DEF Copies
    <3>3. QED BY <3>1, <3>2
  <2>11. Sharing'
    BY <2>9, <2>10 DEF Sharing
  <2>12. ASSUME NEW v \in Uploads, NEW c \in Bundles, Sealed(v, c) PROVE Sealed(v, c)'
    <3>1. v # u
      BY <1>1, <2>12
    <3>2. \A s \in Reqs : Putting(s)' /\ req'[s].upload = v =>
                             Putting(s) /\ req[s].upload = v
      BY <2>3, IdleValues DEF Putting
    <3>3. QED BY <1>3, <2>2, <2>12, <3>1, <3>2, SealedKept
  <2>13. QED BY <1>3, <2>11, <2>12, StaySealed
<1>6. QED BY <1>1, <1>2, <1>4, <1>5 DEF PutMark, S3

-----------------------------------------------------------------------------
(* S3: commitForUser.                                                      *)

\* The commit that takes a step works on one session, whose bundle it knows.
LEMMA Copier ==
    ASSUME KInv, NEW r \in Reqs, req[r].pc \in {"publish", "put", "commit"}
    PROVE  \E u \in Uploads, b \in Bundles :
             /\ req[r].upload = u /\ req[r].bundle = b
             /\ req[r].todo \subseteq Files
             /\ Open(u) =>
                  /\ b = row[u].staged /\ b # None
                  /\ Kept(u) /\ Fits(u)
                  /\ req[r].pc = "put" =>
                       \A f \in FilesOf[b] \ req[r].todo :
                          dest[u].dir /\ dest[u].files[f] = b
                  /\ req[r].pc = "commit" => dest[u] = Whole(b)
<1>1. /\ req[r].upload \in Uploads /\ req[r].bundle \in Bundles
      /\ req[r].todo \subseteq Files
  BY Busy DEF KInv
<1>2. Copies(r) /\ \A u \in Uploads : Open(u) => Kept(u) /\ Fits(u)
  BY DEF KInv, S3Inv, Sharing
<1>3. QED BY <1>1, <1>2, NoneAssumption DEF Copies

\* A commit moves on and touches neither rows nor objects, but may have removed a
\* stage that is whole in the object directory by then.
LEMMA AdvanceS3 ==
    ASSUME KInv, NEW r \in Reqs, NEW u \in Uploads, NEW b \in Bundles,
           req'[r].pc \in {"put", "commit"}, req'[r].upload = u, req'[r].bundle = b,
           \A s \in Reqs \ {r} : req'[s] = req[s],
           UNCHANGED <<row, dest, versions>>,
           \A v \in Uploads \ {u} : stage'[v] = stage[v],
           \/ stage'[u] = stage[u]
           \/ stage'[u] = NoStage /\ (Open(u) => dest[u] = Whole(row[u].staged)),
           Open(u) =>
             /\ b = row[u].staged
             /\ req'[r].pc = "put" =>
                  \A f \in FilesOf[b] \ req'[r].todo :
                     dest[u].dir /\ dest[u].files[f] = b
             /\ req'[r].pc = "commit" => dest[u] = Whole(b)
    PROVE  Sharing' /\ Published'
<1>1. \A v \in Uploads : (Open(v)' <=> Open(v)) /\ row'[v] = row[v] /\ dest'[v] = dest[v]
  BY DEF Open
<1>2. ASSUME NEW v \in Uploads, Open(v)' PROVE Kept(v)' /\ Fits(v)'
  <2>1. Open(v) /\ Kept(v) /\ Fits(v)
    BY <1>1, <1>2 DEF KInv, S3Inv, Sharing
  <2>2. Fits(v)'
    BY <1>1, <2>1 DEF Fits, Content
  <2>3. stage'[v] = stage[v] \/ (stage'[v] = NoStage /\ dest[v] = Whole(row[v].staged))
    BY <2>1
  <2>4. CASE stage'[v] = stage[v]
    BY <1>1, <2>1, <2>2, <2>4 DEF Kept, Complete, Whole, Content
  <2>5. CASE stage'[v] = NoStage /\ dest[v] = Whole(row[v].staged)
    <3>1. row[v].staged # None
      BY <2>1, <2>5 DEF Kept, Whole, NoDest
    <3>2. QED BY <1>1, <2>2, <2>5, <3>1 DEF Kept, Whole, Content
  <2>6. QED BY <2>2, <2>3, <2>4, <2>5
<1>3. ASSUME NEW s \in Reqs PROVE Copies(s)'
  <2>1. CASE s = r
    BY <1>1, <2>1 DEF Copies, Whole, Content
  <2>2. CASE s # r /\ req[s].pc \in {"publish", "put", "commit"}
    <3>1. PICK v \in Uploads : req[s].upload = v
      BY <2>2, Busy DEF KInv
    <3>2. req'[s] = req[s]
      BY <2>2
    <3>3. Copies(s)
      BY DEF KInv, S3Inv, Sharing
    <3>4. QED BY <1>1, <3>1, <3>2, <3>3 DEF Copies, Whole, Content
  <2>3. CASE s # r /\ req[s].pc \notin {"publish", "put", "commit"}
    BY <2>3 DEF Copies
  <2>4. QED BY <2>1, <2>2, <2>3
<1>4. Sharing'
  BY <1>2, <1>3 DEF Sharing
<1>5. ASSUME NEW v \in Uploads, NEW c \in Bundles, Sealed(v, c) PROVE Sealed(v, c)'
  <2>1. \A s \in Reqs : Putting(s)' /\ req'[s].upload = v => Putting(s) /\ req[s].upload = v
    BY DEF Putting
  <2>2. stage'[v] \in {stage[v], NoStage}
    OBVIOUS
  <2>3. QED BY <1>1, <1>5, <2>1, <2>2, SealedKept
<1>6. QED BY <1>4, <1>5, StaySealed

\* commitForUser reads the session: it is open, and its bundle the staged one.
LEMMA CommitLookupS3 ==
    ASSUME KInv, NEW r \in Reqs, NEW usr \in Users, NEW u \in Uploads,
           CommitLookup(r, usr, u)
    PROVE  Sharing' /\ Published'
<1>1. /\ req'[r].pc = "publish" /\ req'[r].upload = u
      /\ req'[r].bundle = row[u].staged
      /\ \A s \in Reqs \ {r} : req'[s] = req[s]
      /\ UNCHANGED <<row, versions, stage, dest>>
  BY DEF CommitLookup, KInv, TypeOK, db
<1>2. \A v \in Uploads : (Open(v)' => Open(v)) /\ Spared(v)
  BY <1>1, UnchangedSpared DEF Open
<1>3. \A v \in Uploads : Open(v)' => Kept(v)' /\ Fits(v)'
  BY <1>2, KeptSpared
<1>4. ASSUME NEW s \in Reqs PROVE Copies(s)'
  <2>1. CASE s = r
    BY <1>1, <2>1 DEF Copies
  <2>2. CASE s # r /\ req[s].pc \in {"publish", "put", "commit"}
    <3>1. req'[s] = req[s] /\ req[s].upload \in Uploads
      BY <1>1, <2>2, Busy DEF KInv
    <3>2. QED BY <1>2, <2>2, <3>1, CopierSpared
  <2>3. CASE s # r /\ req[s].pc \notin {"publish", "put", "commit"}
    BY <1>1, <2>3 DEF Copies
  <2>4. QED BY <2>1, <2>2, <2>3
<1>5. Sharing'
  BY <1>3, <1>4 DEF Sharing
<1>6. ASSUME NEW v \in Uploads, NEW c \in Bundles, Sealed(v, c) PROVE Sealed(v, c)'
  <2>1. \A s \in Reqs : Putting(s)' /\ req'[s].upload = v => Putting(s) /\ req[s].upload = v
    BY <1>1 DEF Putting
  <2>2. QED BY <1>1, <1>6, <2>1, SealedKept
<1>7. QED BY <1>1, <1>5, <1>6, StaySealed

\* WalkDir: the stage that is there is the bundle.
LEMMA PublishS3WalkS3 ==
    ASSUME KInv, NEW r \in Reqs, PublishS3Walk(r) PROVE Sharing' /\ Published'
<1>0. req[r].pc = "publish"
  BY DEF PublishS3Walk
<1>1. PICK u \in Uploads, b \in Bundles :
        /\ req[r].upload = u /\ req[r].bundle = b
        /\ Open(u) => b = row[u].staged /\ b # None /\ Kept(u)
  BY <1>0, Copier
<1>2. UNCHANGED <<row, stage, dest, versions>>
  BY DEF PublishS3Walk, db
<1>3. CASE Reply(r)
  BY <1>2, <1>3, ReplyEffect, QuietS3 DEF KInv
<1>4. CASE /\ stage[u].dir
           /\ req' = [req EXCEPT ![r].pc = "put",
                        ![r].todo = {f \in Files : stage[u].files[f] # None}]
  <2>1. req[r] \in Active
    BY <1>0, Busy DEF KInv
  <2>2. /\ req'[r].pc = "put" /\ req'[r].upload = u /\ req'[r].bundle = b
        /\ req'[r].todo = {f \in Files : stage[u].files[f] # None}
        /\ \A s \in Reqs \ {r} : req'[s] = req[s]
    BY <1>1, <1>4, <2>1 DEF KInv, TypeOK, Active
  <2>3. ASSUME Open(u) PROVE FilesOf[b] \ req'[r].todo = {}
    <3>1. stage[u].files = Content(b)
      BY <1>1, <1>4, <2>3 DEF Kept, Complete, NoStage
    <3>2. FilesOf[b] \subseteq Files
      BY FilesOfType
    <3>3. QED BY <1>1, <2>2, <2>3, <3>1, <3>2 DEF Content
  <2>4. QED BY <1>1, <1>2, <2>2, <2>3, AdvanceS3
<1>5. QED BY <1>1, <1>3, <1>4 DEF PublishS3Walk

\* After the last object nothing of the bundle is missing.
LEMMA PublishS3DoneS3 ==
    ASSUME KInv, NEW r \in Reqs, PublishS3Done(r) PROVE Sharing' /\ Published'
<1>0. req[r].pc = "put" /\ req[r].todo = {}
  BY DEF PublishS3Done
<1>1. PICK u \in Uploads, b \in Bundles :
        /\ req[r].upload = u /\ req[r].bundle = b
        /\ Open(u) =>
             /\ b = row[u].staged /\ b # None /\ Fits(u)
             /\ \A f \in FilesOf[b] \ req[r].todo :
                   dest[u].dir /\ dest[u].files[f] = b
  BY <1>0, Copier
<1>2. UNCHANGED <<row, dest, versions>>
  BY DEF PublishS3Done, db
<1>3. stage'[u] = NoStage /\ \A v \in Uploads \ {u} : stage'[v] = stage[v]
  BY <1>1 DEF PublishS3Done, KInv, TypeOK
<1>4. /\ req'[r].pc = "commit" /\ req'[r].upload = u /\ req'[r].bundle = b
      /\ \A s \in Reqs \ {r} : req'[s] = req[s]
  BY <1>0, <1>1, GotoEffect DEF PublishS3Done, KInv
<1>5. ASSUME Open(u) PROVE dest[u] = Whole(b)
  <2>1. \A f \in FilesOf[b] : dest[u].dir /\ dest[u].files[f] = b
    BY <1>0, <1>1, <1>5
  <2>2. \A f \in Files : dest[u].files[f] \in {None, Content(b)[f]}
    BY <1>1, <1>5 DEF Fits
  <2>3. QED BY <2>1, <2>2, WholeDest DEF KInv
<1>6. QED BY <1>1, <1>2, <1>3, <1>4, <1>5, AdvanceS3

\* putFile's effect on the object directory.
Overwrites(u, f) ==
    dest' = [dest EXCEPT ![u].dir = TRUE, ![u].files[f] = ReadOf(stage[u].files[f])]

\* One object: from a whole stage it is the bundle's, and that is what the object
\* directory of a published bundle has there already.
LEMMA PutObject ==
    ASSUME TypeOK, NEW u \in Uploads, NEW b \in Bundles, NEW f \in Files,
           stage[u].files = Content(b), stage[u].files[f] # None, Overwrites(u, f)
    PROVE  /\ f \in FilesOf[b]
           /\ dest'[u].dir
           /\ dest'[u].files[f] = b
           /\ \A g \in Files \ {f} : dest'[u].files[g] = dest[u].files[g]
           /\ dest[u] = Whole(b) => dest'[u] = Whole(b)
<1>1. f \in FilesOf[b] /\ ReadOf(stage[u].files[f]) = b
  BY ContentsAssumption DEF Content, ReadOf
<1>2. dest[u] \in Dests /\ dest[u].files \in Contents
  BY DEF TypeOK, Dests
<1>3. dest'[u] = [dest[u] EXCEPT !.dir = TRUE, !.files[f] = b]
  BY <1>1, <1>2 DEF TypeOK, Dests, Overwrites
<1>4. dest'[u].dir = TRUE /\ dest'[u].files = [dest[u].files EXCEPT ![f] = b]
  BY <1>2, <1>3 DEF Dests
<1>5. dest'[u].files \in Contents
  BY <1>2, <1>4 DEF Contents
<1>6. dest'[u] = [dir |-> TRUE, files |-> dest'[u].files]
  BY <1>2, <1>3, <1>4, <1>5 DEF Dests
<1>7. dest'[u].files[f] = b /\ \A g \in Files \ {f} : dest'[u].files[g] = dest[u].files[g]
  BY <1>2, <1>4 DEF Contents
<1>8. ASSUME dest[u] = Whole(b) PROVE dest'[u] = Whole(b)
  <2>1. dest[u].files = Content(b)
    BY <1>8 DEF Whole
  <2>2. \A g \in Files : dest'[u].files[g] = Content(b)[g]
    BY <1>1, <1>7, <2>1 DEF Content
  <2>3. dest'[u].files = Content(b)
    BY <1>5, <2>2 DEF Contents, Content
  <2>4. QED BY <1>6, <1>8, <2>3 DEF Whole
<1>9. QED BY <1>1, <1>4, <1>7, <1>8

\* putFile: what open and committed sessions have staged is what they publish.
LEMMA PublishS3PutS3 ==
    ASSUME KInv, NEW r \in Reqs, PublishS3Put(r) PROVE Sharing' /\ Published'
<1>0. req[r].pc = "put"
  BY DEF PublishS3Put
<1>1. PICK u \in Uploads, b \in Bundles :
        /\ req[r].upload = u /\ req[r].bundle = b
        /\ req[r].todo \subseteq Files
        /\ Open(u) =>
             /\ b = row[u].staged /\ b # None
             /\ Kept(u) /\ Fits(u)
             /\ \A f \in FilesOf[b] \ req[r].todo :
                   dest[u].dir /\ dest[u].files[f] = b
  BY <1>0, Copier
<1>2. UNCHANGED <<row, stage, versions>>
  BY DEF PublishS3Put, db
<1>3. CASE Reply(r) /\ UNCHANGED dest
  BY <1>2, <1>3, ReplyEffect, QuietS3 DEF KInv
<1>4. ASSUME NEW f \in req[r].todo, stage[u].files[f] # None,
             dest' = [dest EXCEPT ![u].dir = TRUE,
                                  ![u].files[f] = ReadOf(stage[u].files[f])],
             req' = [req EXCEPT ![r].todo = @ \ {f}]
      PROVE  Sharing' /\ Published'
  <2>1. req[r] \in Active /\ f \in Files
    BY <1>0, <1>1, Busy DEF KInv
  <2>2. /\ req'[r].pc = "put" /\ req'[r].upload = u /\ req'[r].bundle = b
        /\ req'[r].todo = req[r].todo \ {f}
        /\ \A s \in Reqs \ {r} : req'[s] = req[s]
    BY <1>0, <1>1, <1>4, <2>1 DEF KInv, TypeOK, Active
  <2>3. \A v \in Uploads \ {u} : dest'[v] = dest[v]
    BY <1>4 DEF KInv, TypeOK
  <2>4. \A v \in Uploads : (Open(v)' <=> Open(v)) /\ row'[v] = row[v] /\ stage'[v] = stage[v]
    BY <1>2 DEF Open
  <2>5. \A v \in Uploads \ {u} : Spared(v)
    BY <2>3, <2>4, UnchangedSpared
  <2>6. ASSUME NEW c \in Bundles, Complete(u, c) \/ stage[u] = NoStage
        PROVE  /\ stage[u].dir /\ stage[u].files = Content(c)
               /\ f \in FilesOf[c] /\ dest'[u].dir /\ dest'[u].files[f] = c
               /\ \A g \in Files \ {f} : dest'[u].files[g] = dest[u].files[g]
               /\ dest[u] = Whole(c) => dest'[u] = Whole(c)
    <3>1. stage[u].dir /\ stage[u].files = Content(c)
      BY <1>4, <2>1, <2>6 DEF Complete, NoStage, Empty
    <3>2. f \in Files /\ stage[u].files[f] # None
      BY <1>4, <2>1
    <3>3. TypeOK
      BY DEF KInv
    <3>4. Overwrites(u, f)
      BY <1>4 DEF Overwrites
    <3>5. /\ f \in FilesOf[c] /\ dest'[u].dir /\ dest'[u].files[f] = c
          /\ \A g \in Files \ {f} : dest'[u].files[g] = dest[u].files[g]
          /\ dest[u] = Whole(c) => dest'[u] = Whole(c)
      BY <3>1, <3>2, <3>3, <3>4, PutObject
    <3>6. QED BY <3>1, <3>5
  <2>7. ASSUME Open(u)
        PROVE  /\ stage[u].dir /\ stage[u].files = Content(b)
               /\ f \in FilesOf[b] /\ dest'[u].dir /\ dest'[u].files[f] = b
               /\ \A g \in Files \ {f} : dest'[u].files[g] = dest[u].files[g]
               /\ dest[u] = Whole(b) => dest'[u] = Whole(b)
    BY <1>1, <2>6, <2>7 DEF Kept
  <2>8. ASSUME Open(u) PROVE Kept(u)' /\ Fits(u)'
    <3>1. Kept(u)'
      BY <1>1, <2>4, <2>7, <2>8 DEF Kept, Complete, Content
    <3>2. ASSUME NEW g \in Files PROVE dest'[u].files[g] \in {None, Content(b)[g]}
      BY <1>1, <2>7, <2>8, <3>2 DEF Fits, Content
    <3>3. Fits(u)'
      BY <1>1, <2>4, <2>8, <3>2 DEF Fits, Content
    <3>4. QED BY <3>1, <3>3
  <2>9. \A v \in Uploads : Open(v)' => Kept(v)' /\ Fits(v)'
    BY <2>4, <2>5, <2>8, KeptSpared
  <2>10. ASSUME NEW s \in Reqs, Open(u), req[s].upload = u,
                req[s].pc \in {"publish", "put", "commit"}
         PROVE  /\ req[s].bundle = b
                /\ req[s].pc = "put" =>
                     \A g \in FilesOf[b] \ req[s].todo :
                        dest'[u].dir /\ dest'[u].files[g] = b
                /\ req[s].pc = "commit" => dest'[u] = Whole(b)
    <3>1. /\ req[s].bundle = b
          /\ req[s].pc = "put" =>
               \A g \in FilesOf[b] \ req[s].todo :
                  dest[u].dir /\ dest[u].files[g] = b
          /\ req[s].pc = "commit" => dest[u] = Whole(b)
      BY <1>1, <2>10 DEF KInv, S3Inv, Sharing, Copies
    <3>2. FilesOf[b] \subseteq Files
      BY FilesOfType
    <3>3. QED BY <2>7, <2>10, <3>1, <3>2
  <2>11. ASSUME NEW s \in Reqs PROVE Copies(s)'
    <3>1. CASE s # r /\ req[s].pc \in {"publish", "put", "commit"}
      <4>1. req'[s] = req[s] /\ req[s].upload \in Uploads
        BY <2>2, <3>1, Busy DEF KInv
      <4>2. CASE req[s].upload = u
        <5>1. Open(u)' => Open(u) /\ row'[u].staged = b
          BY <1>1, <2>4
        <5>2. QED BY <2>10, <3>1, <4>1, <4>2, <5>1 DEF Copies, Whole, Content
      <4>3. CASE req[s].upload # u
        BY <2>4, <2>5, <3>1, <4>1, <4>3, CopierSpared
      <4>4. QED BY <4>2, <4>3
    <3>2. CASE s = r
      <4>1. Open(u) => \A g \in FilesOf[b] \ req'[r].todo : dest'[u].dir /\ dest'[u].files[g] = b
        <5>1. FilesOf[b] \subseteq Files
          BY FilesOfType
        <5>2. QED BY <1>1, <2>2, <2>7, <5>1
      <4>2. QED BY <1>1, <2>2, <2>4, <3>2, <4>1 DEF Copies
    <3>3. CASE s # r /\ req[s].pc \notin {"publish", "put", "commit"}
      BY <2>2, <3>3 DEF Copies
    <3>4. QED BY <3>1, <3>2, <3>3
  <2>12. Sharing'
    BY <2>9, <2>11 DEF Sharing
  <2>13. ASSUME NEW v \in Uploads, NEW c \in Bundles, Sealed(v, c) PROVE Sealed(v, c)'
    <3>1. \A s \in Reqs : Putting(s)' /\ req'[s].upload = v => Putting(s) /\ req[s].upload = v
      BY <2>2 DEF Putting
    <3>2. dest'[v] = dest[v]
      <4>1. CASE v = u
        <5>1. dest[u] = Whole(c) /\ (Complete(u, c) \/ stage[u] = NoStage)
          BY <2>13, <4>1 DEF Sealed
        <5>2. QED BY <2>6, <4>1, <5>1
      <4>2. QED BY <2>3, <4>1
    <3>3. QED BY <2>4, <2>13, <3>1, <3>2, SealedKept
  <2>14. QED BY <1>2, <2>12, <2>13, StaySealed
<1>5. QED BY <1>1, <1>3, <1>4 DEF PublishS3Put

\* CommitVersion: the version's objects are whole and no PUT is left to touch them.
LEMMA CommitVersionS3 ==
    ASSUME KInv, OnePut, NEW r \in Reqs, CommitVersion(r) PROVE Sharing' /\ Published'
<1>0. req[r].pc = "commit"
  BY DEF CommitVersion
<1>1. PICK u \in Uploads, b \in Bundles :
        /\ req[r].upload = u /\ req[r].bundle = b
        /\ Open(u) =>
             /\ b = row[u].staged /\ b # None
             /\ Kept(u) /\ dest[u] = Whole(b)
  BY <1>0, Copier
<1>2. PICK a \in Uploads : a = Target(u)
  BY DEF Target, KInv, TypeOK, Rows
<1>3. /\ UNCHANGED <<stage, dest>>
      /\ Open(u)
      /\ versions' = [versions EXCEPT ![a] = Append(@, [upload |-> u, bundle |-> b])]
  BY <1>1, <1>2 DEF CommitVersion, Open
<1>4. /\ row'[u].state = "live" /\ row'[u].staged = b /\ row'[u].version > 0
      /\ \A v \in Uploads \ {u} : row'[v] = row[v]
  <2>1. row[u] \in Rows /\ Len(versions[a]) \in Nat
    BY DEF KInv, TypeOK
  <2>2. row'[u] = [row[u] EXCEPT !.art = a, !.version = Len(versions[a]) + 1]
    BY <1>1, <1>2 DEF KInv, TypeOK, CommitVersion
  <2>3. row[u].state = "live" /\ row[u].staged = b
    BY <1>1, <1>3 DEF Open
  <2>4. \A v \in Uploads \ {u} : row'[v] = row[v]
    BY <1>1 DEF KInv, TypeOK, CommitVersion
  <2>5. QED BY <2>1, <2>2, <2>3, <2>4 DEF Rows
<1>5. req'[r] = Idle /\ \A s \in Reqs \ {r} : req'[s] = req[s]
  BY ReplyEffect DEF KInv, CommitVersion
<1>6. ASSUME NEW v \in Uploads, Open(v)' PROVE Open(v) /\ Spared(v)
  <2>1. v # u
    BY <1>4, <1>6 DEF Open
  <2>2. row'[v] = row[v]
    BY <1>4, <2>1
  <2>3. QED BY <1>3, <1>6, <2>2, UnchangedSpared DEF Open
<1>7. \A s \in Reqs : req'[s].pc \in {"publish", "put", "commit"} => req'[s] = req[s]
  BY <1>5, IdleValues
<1>8. Sharing'
  BY <1>6, <1>7, SharingSpared
<1>9. \A s \in Reqs : Putting(s)' => Putting(s) /\ req'[s] = req[s] /\ req[s].upload # u
  <2>1. \A s \in Reqs : Putting(s)' => Putting(s) /\ req'[s] = req[s]
    BY <1>5, IdleValues DEF Putting
  <2>2. row[u].staged # None
    BY <1>1, <1>3
  <2>3. QED BY <2>1, <2>2 DEF OnePut
<1>10. ASSUME NEW v \in Uploads, NEW c \in Bundles, Sealed(v, c) PROVE Sealed(v, c)'
  <2>1. row'[v].state = row[v].state /\ row'[v].staged = row[v].staged
    BY <1>1, <1>3, <1>4 DEF Open
  <2>2. QED BY <1>3, <1>9, <1>10, <2>1, SealedKept
<1>11. Sealed(u, b)'
  <2>1. stage[u] = NoStage \/ Complete(u, b)
    BY <1>1, <1>3 DEF Kept
  <2>2. \A s \in Reqs : Putting(s)' => req'[s].upload # u
    BY <1>9
  <2>3. dest'[u] = Whole(b) /\ stage'[u] = stage[u]
    BY <1>1, <1>3
  <2>4. b # None
    BY NoneAssumption
  <2>5. QED BY <1>4, <2>1, <2>2, <2>3, <2>4 DEF Sealed, Complete, Whole, Content
<1>12. ASSUME NEW c \in Uploads, NEW i \in 1..Len(versions'[c])
       PROVE  \E v \in Uploads, d \in Bundles :
                /\ versions'[c][i].upload = v /\ versions'[c][i].bundle = d
                /\ Sealed(v, d)'
  <2>1. versions[a] \in Seq(VersionRows) /\ versions[c] \in Seq(VersionRows)
    BY DEF KInv, TypeOK
  <2>2. \/ versions'[c][i] = [upload |-> u, bundle |-> b]
        \/ i \in 1..Len(versions[c]) /\ versions'[c][i] = versions[c][i]
    BY <1>3, <2>1 DEF KInv, TypeOK
  <2>3. CASE versions'[c][i] = [upload |-> u, bundle |-> b]
    BY <1>11, <2>3
  <2>4. CASE i \in 1..Len(versions[c]) /\ versions'[c][i] = versions[c][i]
    <3>1. versions[c][i] \in VersionRows
      BY <2>1, <2>4
    <3>2. PICK v \in Uploads, d \in Bundles : versions[c][i] = [upload |-> v, bundle |-> d]
      BY <3>1 DEF VersionRows
    <3>3. Sealed(v, d)
      BY <2>4, <3>2 DEF KInv, S3Inv, Published
    <3>4. Sealed(v, d)'
      BY <1>10, <3>3
    <3>5. QED BY <2>4, <3>2, <3>4
  <2>5. QED BY <2>2, <2>3, <2>4
<1>13. Published'
  <2> SUFFICES ASSUME NEW c \in Uploads, NEW i \in 1..Len(versions'[c])
               PROVE  Sealed(versions[c][i].upload, versions[c][i].bundle)'
    BY DEF Published
  <2>1. PICK v \in Uploads, d \in Bundles :
          /\ versions'[c][i].upload = v /\ versions'[c][i].bundle = d
          /\ Sealed(v, d)'
    BY <1>12
  <2>2. QED BY <2>1 DEF Sealed, Complete, Whole, Content
<1>14. QED BY <1>8, <1>13

-----------------------------------------------------------------------------
(* S3: the invariant.                                                      *)

LEMMA InitKInv == Init => KInv
<1> SUFFICES ASSUME Init PROVE KInv
  OBVIOUS
<1>1. TypeOK
  BY InitTypeOK
<1>2. Stores
  BY IdleValues
  DEF Init, Stores, Absent, Fresh, Condemned, Young, Live, NoRow, NoStage, NoDest,
      Resting
<1>3. Staging
  BY IdleValues
  DEF Init, Staging, Handlers, Knows, SoleStager, StagerOwns, Open, NoRow
<1>4. Sharing
  BY IdleValues DEF Init, Sharing, Copies, Open, NoRow
<1>5. Published
  BY DEF Init, Published
<1>6. QED BY <1>1, <1>2, <1>3, <1>4, <1>5 DEF KInv, S3Inv

\* What commits do with stages is no matter to a PUT, which has its session to itself.
LEMMA CommitsSpareStagers ==
    ASSUME S3, KInv, OnePut, NEW r \in Reqs, Commit(r)
    PROVE  \A v \in Uploads, s \in Reqs :
             Open(v) /\ Stager(s, v) => stage'[v] = stage[v]
<1> SUFFICES ASSUME NEW v \in Uploads, NEW s \in Reqs, Open(v), Stager(s, v)
             PROVE  stage'[v] = stage[v]
  OBVIOUS
<1>1. CASE PublishS3Done(r)
  <2>1. req[r].pc = "put"
    BY <1>1 DEF PublishS3Done
  <2>2. PICK u \in Uploads, b \in Bundles :
          req[r].upload = u /\ (Open(u) => b = row[u].staged /\ b # None)
    BY <2>1, Copier
  <2>3. row[v].staged = None
    BY DEF OnePut, Putting, Stager
  <2>4. v # u
    BY <2>2, <2>3
  <2>5. QED BY <1>1, <2>2, <2>4 DEF PublishS3Done, KInv, TypeOK
<1>2. CASE ~PublishS3Done(r)
  BY <1>2 DEF Commit, CommitLookup, PublishFs, PublishS3Walk, PublishS3Put,
              CommitVersion, CommitError, S3
<1>3. QED BY <1>1, <1>2

\* The invariant is inductive on the S3 backend under the discipline.
LEMMA NextKInv ==
    ASSUME S3, KInv, OnePut, OnePut', [Next]_vars PROVE KInv'
<1>1. TypeOK'
  BY NextTypeOK DEF KInv
<1>2. Stores'
  BY NextStores DEF KInv, S3Inv
<1>3. CASE \E usr \in Users, u \in Uploads, a \in Uploads \cup {None} :
             CreateUpload(usr, u, a)
  <2>1. Staging'
    BY <1>3, OtherStaging DEF KInv, S3Inv
  <2>2. QED BY <1>1, <1>2, <1>3, <2>1, CreateUploadS3 DEF KInv, S3Inv
<1>4. ASSUME NEW r \in Reqs, Put(r) PROVE KInv'
  <2>1. Staging'
    BY <1>4, PutStaging DEF KInv, S3Inv
  <2>2. Sharing' /\ Published'
    BY <1>4, PutLookupS3, PutStageS3, PutMarkS3 DEF Put
  <2>3. QED BY <1>1, <1>2, <2>1, <2>2 DEF KInv, S3Inv
<1>5. ASSUME NEW r \in Reqs, Commit(r) PROVE KInv'
  <2>1. Staging'
    BY <1>5, CommitsSpareStagers, CommitStaging DEF KInv, S3Inv
  <2>2. CommitError(r) => Sharing' /\ Published'
    BY ReplyEffect, QuietS3 DEF CommitError, db, KInv
  <2>3. ~PublishFs(r)
    BY DEF S3, PublishFs
  <2>4. Sharing' /\ Published'
    BY <1>5, <2>2, <2>3, CommitLookupS3, PublishS3WalkS3, PublishS3PutS3,
       PublishS3DoneS3, CommitVersionS3 DEF Commit
  <2>5. QED BY <1>1, <1>2, <2>1, <2>4 DEF KInv, S3Inv
<1>6. CASE \/ Maintenance \/ Tick \/ Crash \/ UNCHANGED vars
           \/ \E a \in Uploads : AdminDeleteArtifact(a)
  <2>1. Staging'
    BY <1>6, OtherStaging DEF KInv, S3Inv
  <2>2. UNCHANGED vars \/ (\E a \in Uploads : AdminDeleteArtifact(a)) =>
          Sharing' /\ Published'
    BY QuietS3 DEF AdminDeleteArtifact, vars
  <2>3. Sharing' /\ Published'
    BY <1>6, <2>2, MaintenanceS3, CrashS3
  <2>4. QED BY <1>1, <1>2, <2>1, <2>3 DEF KInv, S3Inv
<1>7. QED BY <1>3, <1>4, <1>5, <1>6 DEF Next

\* The discipline holds at first, and from then on by assumption.
LEMMA Disciplined == OnePutSpec => Spec /\ []OnePut
<1>1. Init => OnePut
  BY IdleValues DEF Init, OnePut, Putting
<1>2. OnePut /\ [Next /\ OnePut']_vars => OnePut'
  BY DEF OnePut, Putting, vars
<1>3. [Next /\ OnePut']_vars => [Next]_vars
  OBVIOUS
<1>4. QED BY <1>1, <1>2, <1>3, PTL DEF OnePutSpec, Spec

-----------------------------------------------------------------------------
(* S3: the theorems.                                                       *)

\* KInv holds in every state that publishing reaches with clients that send nothing
\* to a session once a bundle is acknowledged there (StageZIP's Mkdir,
\* MarkUploadStaged, S3Store.PublishUpload).
THEOREM S3Invariant ==
    ASSUME S3 PROVE OnePutSpec => []KInv
<1>1. Init => KInv
  BY InitKInv
<1>2. KInv /\ OnePut /\ OnePut' /\ [Next]_vars => KInv'
  BY NextKInv
<1>3. QED BY <1>1, <1>2, Disciplined, PTL DEF Spec

\* On S3, with such clients, every committed version has exactly the files of the
\* bundle its row records, however the commits of its session ran side by side and
\* died (commitForUser and S3Store.PublishUpload).
THEOREM S3VersionIntact ==
    ASSUME S3 PROVE OnePutSpec => []VersionIntact
<1>1. KInv => VersionIntact
  BY DEF KInv, S3Inv, Published, Sealed, VersionIntact, Whole
<1>2. QED BY <1>1, S3Invariant, PTL

\* On S3, with such clients, an acknowledged bundle is never lost before its session
\* expires, although commits remove the stage from under each other (putUpload,
\* PublishUpload, CleanupStages).
THEOREM S3AckedBundleKept ==
    ASSUME S3 PROVE OnePutSpec => []AckedBundleKept
<1>1. ASSUME KInv PROVE AckedBundleKept
  <2>1. ASSUME NEW u \in Uploads, Live(u), row[u].version = 0,
               row[u].staged # None
        PROVE  Complete(u, row[u].staged) \/ Holds(dest[u], row[u].staged)
    <3>1. PICK b \in Bundles : b = row[u].staged
      BY <1>1, <2>1, StagedType DEF KInv
    <3>2. dest[u] = Whole(b) => Holds(dest[u], b)
      BY FilesOfType DEF Whole, Holds, Content
    <3>3. QED BY <1>1, <2>1, <3>1, <3>2 DEF KInv, S3Inv, Sharing, Kept, Open, Live
  <2>2. QED BY <2>1 DEF AckedBundleKept
<1>2. QED BY <1>1, S3Invariant, PTL

\* On S3, with such clients, a step never changes a version row or one of its
\* objects, although late commits overwrite objects (README.md: "Existing artifact
\* versions are immutable").
THEOREM S3Immutable ==
    ASSUME S3 PROVE OnePutSpec => Immutable
BY S3VersionIntact, IntactImmutable, Disciplined, PTL

\* On S3, with such clients, the pipeline implements a growing list of whole bundles
\* (CommitVersion, Version and Open).
THEOREM S3ImplementsHistory ==
    ASSUME S3 PROVE OnePutSpec => ImplementsHistory
BY S3VersionIntact, IntactHistory, Disciplined, PTL
=============================================================================

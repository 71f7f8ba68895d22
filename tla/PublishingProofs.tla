-------------------------- MODULE PublishingProofs --------------------------
(***************************************************************************)
(* Theorems about Publishing, for every number of sessions, users,         *)
(* handlers and bundles and every TTL: first what holds on both backends,  *)
(* then what holds on the filesystem backend where MarkUploadStaged        *)
(* reports what it did (IInv is inductive, and what follows from it).      *)
(***************************************************************************)
EXTENDS PublishingFsInv, SequenceTheorems, TLAPS

Fs == Backend = "fs" /\ ~MarkReplyLost

-----------------------------------------------------------------------------
(* Type correctness, for both backends.                                    *)

\* The files of a bundle, and its contents, are well typed.
LEMMA FilesOfType ==
    ASSUME NEW b \in Bundles
    PROVE  /\ FilesOf[b] \subseteq Files
           /\ Content(b) \in Contents
           /\ Empty \in Contents
BY BundlesAssumption DEF Files, Content, Contents, Empty

\* So are the contents of a new directory.
LEMMA EmptyType == Empty \in Contents
BY DEF Contents, Empty

\* A file is filled, or abandoned, with something a path can have.
LEMMA FillType ==
    ASSUME NEW files \in Contents
    PROVE  /\ \A r \in Reqs, x \in Bundles \cup {Torn} : Fill(files, r, x) \in Contents
           /\ Abandon(files) \in Contents
BY DEF Fill, Abandon, Contents

\* Nothing is filled or abandoned in an empty directory.
LEMMA FillEmpty ==
    /\ \A r \in Reqs, x \in Bundles \cup {Torn} : Fill(Empty, r, x) = Empty
    /\ Abandon(Empty) = Empty
BY ContentsAssumption DEF Fill, Abandon, Empty

\* A stage is old later than twice the lifetime of a session.
LEMMA MaxAgeType == MaxAge \in Nat /\ MaxAge > 2 * TTL /\ 2 * TTL \in Nat
BY TTLAssumption DEF MaxAge

\* The values that rows, stages and handlers start from are well typed.
LEMMA ValueTypes ==
    /\ NoRow \in Rows /\ GoneRow \in Rows
    /\ NoStage \in Stages /\ NewStage \in Stages
    /\ NoDest \in Dests
    /\ Idle \in Requests
    /\ Resting \in Maintainers
<1>1. NoRow \in Rows /\ GoneRow \in Rows
  BY TTLAssumption DEF NoRow, GoneRow, Rows
<1>2. NoStage \in Stages /\ NewStage \in Stages
  BY EmptyType, MaxAgeType DEF NoStage, NewStage, Stages
<1>3. NoDest \in Dests /\ Idle \in Requests /\ Resting \in Maintainers
  BY EmptyType DEF NoDest, Dests, Requests, Resting, Maintainers
<1>4. QED BY <1>1, <1>2, <1>3

\* An empty system is well typed.
LEMMA InitTypeOK == Init => TypeOK
BY ValueTypes DEF Init, TypeOK

\* What is known of a handler that is not idle.
LEMMA Busy ==
    ASSUME TypeOK, NEW r \in Reqs, req[r].pc # "idle"
    PROVE  /\ req[r] \in Active
           /\ req[r].upload \in Uploads
           /\ req[r].bundle \in Bundles
           /\ req[r].todo \subseteq Files
<1>1. req[r] \in Active
  BY DEF TypeOK, Requests, Idle
<1>2. QED BY <1>1 DEF Active

\* The ways the handlers update their own state and the maintenance cutoff.
LEMMA GotoType ==
    ASSUME TypeOK, NEW r \in Reqs, NEW pc, Goto(r, pc), req[r].pc # "idle",
           pc \in {"extract", "copy", "mark", "cleanup", "put", "commit"}
    PROVE  req' \in [Reqs -> Requests]
<1>1. req[r] \in Active
  BY Busy
<1>2. [req[r] EXCEPT !.pc = pc] \in Active
  BY <1>1 DEF Active
<1>3. QED BY <1>2 DEF Goto, TypeOK, Requests

\* A reply leaves the handlers well typed.
LEMMA ReplyType ==
    ASSUME TypeOK, NEW r \in Reqs, Reply(r)
    PROVE  req' \in [Reqs -> Requests]
BY ValueTypes DEF Reply, TypeOK

\* A new modification time leaves the maintenance run well typed.
LEMMA TouchType ==
    ASSUME TypeOK, NEW u \in Uploads, Touch(u)
    PROVE  maint' \in Maintainers
BY DEF Touch, TypeOK, Maintainers

\* So does taking a file off a handler's list.
LEMMA TodoType ==
    ASSUME TypeOK, NEW r \in Reqs, NEW f, req[r].pc # "idle",
           req' = [req EXCEPT ![r].todo = @ \ {f}]
    PROVE  req' \in [Reqs -> Requests]
<1>1. req[r] \in Active
  BY Busy
<1>2. [req[r] EXCEPT !.todo = @ \ {f}] \in Active
  BY <1>1 DEF Active
<1>3. QED BY <1>2 DEF TypeOK, Requests

\* What becomes of the two directories when a handler's open file is closed.
LEMMA FillEffect ==
    ASSUME TypeOK, NEW r \in Reqs, NEW u \in Uploads, NEW x \in Bundles \cup {Torn},
           stage' = [stage EXCEPT ![u].files = Fill(@, r, x)],
           dest' = [dest EXCEPT ![u].files = Fill(@, r, x)]
    PROVE  /\ stage' \in [Uploads -> Stages]
           /\ dest' \in [Uploads -> Dests]
           /\ stage'[u] = [stage[u] EXCEPT !.files = Fill(stage[u].files, r, x)]
           /\ dest'[u] = [dest[u] EXCEPT !.files = Fill(dest[u].files, r, x)]
           /\ stage'[u].dir = stage[u].dir
           /\ stage'[u].zip = stage[u].zip
           /\ stage'[u].age = stage[u].age
           /\ stage'[u].files = Fill(stage[u].files, r, x)
           /\ dest'[u].dir = dest[u].dir
           /\ dest'[u].files = Fill(dest[u].files, r, x)
           /\ \A v \in Uploads \ {u} : stage'[v] = stage[v] /\ dest'[v] = dest[v]
<1> DEFINE sf == Fill(stage[u].files, r, x)
           df == Fill(dest[u].files, r, x)
<1>1. stage[u] \in Stages /\ dest[u] \in Dests
  BY DEF TypeOK
<1>2. stage[u].files \in Contents /\ dest[u].files \in Contents
  BY <1>1 DEF Stages, Dests
<1>3. sf \in Contents /\ df \in Contents
  BY <1>2, FillType
<1>4. /\ stage'[u] = [stage[u] EXCEPT !.files = sf]
      /\ dest'[u] = [dest[u] EXCEPT !.files = df]
      /\ \A v \in Uploads \ {u} : stage'[v] = stage[v] /\ dest'[v] = dest[v]
  BY DEF TypeOK
<1>5. /\ stage' = [stage EXCEPT ![u] = [stage[u] EXCEPT !.files = sf]]
      /\ dest' = [dest EXCEPT ![u] = [dest[u] EXCEPT !.files = df]]
  BY DEF TypeOK
<1> HIDE DEF sf, df
<1>6. [stage[u] EXCEPT !.files = sf] \in Stages /\ [dest[u] EXCEPT !.files = df] \in Dests
  BY <1>1, <1>3 DEF Stages, Dests
<1>7. stage' \in [Uploads -> Stages] /\ dest' \in [Uploads -> Dests]
  BY <1>5, <1>6 DEF TypeOK
<1>8. /\ stage'[u].dir = stage[u].dir
      /\ stage'[u].zip = stage[u].zip
      /\ stage'[u].age = stage[u].age
      /\ stage'[u].files = sf
      /\ dest'[u].dir = dest[u].dir
      /\ dest'[u].files = df
  BY <1>1, <1>4 DEF Stages, Dests
<1>9. QED BY <1>4, <1>7, <1>8 DEF sf, df

\* What becomes of them when the process dies.
LEMMA CrashEffect ==
    ASSUME TypeOK, Crash, NEW u \in Uploads
    PROVE  /\ stage'[u] \in Stages
           /\ dest'[u] \in Dests
           /\ stage'[u] = [stage[u] EXCEPT !.files = Abandon(stage[u].files)]
           /\ dest'[u] = [dest[u] EXCEPT !.files = Abandon(dest[u].files)]
           /\ stage'[u].dir = stage[u].dir
           /\ stage'[u].age = stage[u].age
           /\ stage'[u].files = Abandon(stage[u].files)
           /\ dest'[u].dir = dest[u].dir
           /\ dest'[u].files = Abandon(dest[u].files)
<1> DEFINE sf == Abandon(stage[u].files)
           df == Abandon(dest[u].files)
<1>1. stage[u] \in Stages /\ dest[u] \in Dests
  BY DEF TypeOK
<1>2. stage[u].files \in Contents /\ dest[u].files \in Contents
  BY <1>1 DEF Stages, Dests
<1>3. sf \in Contents /\ df \in Contents
  BY <1>2, FillType
<1>4. /\ stage'[u] = [stage[u] EXCEPT !.files = sf]
      /\ dest'[u] = [dest[u] EXCEPT !.files = df]
  BY DEF Crash
<1> HIDE DEF sf, df
<1>5. /\ stage'[u] \in Stages /\ dest'[u] \in Dests
      /\ stage'[u].dir = stage[u].dir
      /\ stage'[u].age = stage[u].age
      /\ stage'[u].files = sf
      /\ dest'[u].dir = dest[u].dir
      /\ dest'[u].files = df
  BY <1>1, <1>3, <1>4 DEF Stages, Dests
<1>6. QED BY <1>4, <1>5 DEF sf, df

\* Each handler, maintenance and environment step keeps every variable in its
\* type (no row, directory or request of a shape the code has no case for).
LEMMA NextTypeOK == TypeOK /\ [Next]_vars => TypeOK'
<1> SUFFICES ASSUME TypeOK, [Next]_vars PROVE TypeOK'
  OBVIOUS
<1> USE ValueTypes
<1>1. ASSUME NEW usr \in Users, NEW u \in Uploads,
             NEW a \in Uploads \cup {None}, CreateUpload(usr, u, a)
      PROVE  TypeOK'
  <2>1. [state |-> "live", by |-> usr, art |-> a, staged |-> None,
         version |-> 0, left |-> TTL] \in Rows
    BY TTLAssumption DEF Rows
  <2>2. QED BY <1>1, <2>1 DEF CreateUpload, TypeOK
<1>2. ASSUME NEW r \in Reqs, Put(r) PROVE TypeOK'
  <2>1. ASSUME NEW u \in Uploads, NEW b \in Bundles, PutLookup(r, u, b)
        PROVE  TypeOK'
    <3>1. [pc |-> "mkdir", upload |-> u, bundle |-> b, todo |-> FilesOf[b]]
            \in Requests
      BY FilesOfType DEF Requests, Active
    <3>2. QED BY <2>1, <3>1 DEF PutLookup, TypeOK, db
  <2>2. CASE PutMkdir(r)
    BY <2>2, Busy, GotoType, ReplyType, TouchType DEF PutMkdir, TypeOK, db
  <2>3. CASE PutCreate(r)
    <3> DEFINE u == req[r].upload
    <3>0. u \in Uploads /\ req[r] \in Active
      BY <2>3, Busy DEF PutCreate
    <3>1. PICK f \in req[r].todo :
            \/ Goto(r, "cleanup") /\ UNCHANGED <<stage, maint>>
            \/ /\ stage' = [stage EXCEPT ![u].files[f] = r, ![u].dir = TRUE]
               /\ IF stage[u].dir THEN UNCHANGED maint ELSE Touch(u)
               /\ req' = [req EXCEPT ![r].pc = "copy", ![r].todo = @ \ {f}]
      BY <2>3 DEF PutCreate
    <3>2. req' \in [Reqs -> Requests]
      <4>1. [req[r] EXCEPT !.pc = "copy", !.todo = @ \ {f}] \in Requests
        BY <3>0 DEF Active, Requests
      <4>2. CASE req' = [req EXCEPT ![r].pc = "copy", ![r].todo = @ \ {f}]
        <5>1. req' = [req EXCEPT ![r] = [req[r] EXCEPT !.pc = "copy", !.todo = @ \ {f}]]
          BY <4>2 DEF TypeOK
        <5>2. QED BY <4>1, <5>1 DEF TypeOK
      <4>3. CASE Goto(r, "cleanup")
        BY <2>3, <4>3, GotoType DEF PutCreate
      <4>4. QED BY <3>1, <4>2, <4>3
    <3>3. [stage[u] EXCEPT !.files[f] = r, !.dir = TRUE] \in Stages
      <4>1. stage[u] \in Stages
        BY <3>0 DEF TypeOK
      <4>2. [stage[u].files EXCEPT ![f] = r] \in Contents
        BY <4>1 DEF Stages, Contents
      <4>3. QED BY <4>1, <4>2 DEF Stages
    <3>4. stage' \in [Uploads -> Stages]
      <4>1. stage' = stage \/
            stage' = [stage EXCEPT ![u] =
                        [stage[u] EXCEPT !.files[f] = r, !.dir = TRUE]]
        BY <3>1 DEF TypeOK
      <4>2. QED BY <3>0, <3>3, <4>1 DEF TypeOK
    <3>5. maint' \in Maintainers
      BY <3>0, <3>1, TouchType DEF TypeOK
    <3>6. QED BY <2>3, <3>2, <3>4, <3>5 DEF PutCreate, TypeOK, db
  <2>9. CASE PutCopy(r)
    <3>1. req[r].upload \in Uploads /\ req[r].bundle \in Bundles
      BY <2>9, Busy DEF PutCopy
    <3>2. stage' \in [Uploads -> Stages] /\ dest' \in [Uploads -> Dests]
      BY <2>9, <3>1, FillEffect DEF PutCopy
    <3>3. req' \in [Reqs -> Requests]
      BY <2>9, GotoType DEF PutCopy
    <3>4. QED BY <2>9, <3>2, <3>3 DEF PutCopy, TypeOK, db
  <2>4. CASE PutFinish(r)
    <3> DEFINE u == req[r].upload
    <3>1. ASSUME NEW v \in Uploads
          PROVE  [stage[v] EXCEPT !.zip = FALSE, !.age = 0] \in Stages
      <4>1. stage[v] \in Stages
        BY DEF TypeOK
      <4>2. 0 \in 0..MaxAge
        BY MaxAgeType
      <4>3. QED BY <4>1, <4>2 DEF Stages
    <3>2. stage' \in [Uploads -> Stages]
      <4>1. stage' = stage \/
            stage' = [stage EXCEPT ![u] = [stage[u] EXCEPT
                        !.zip = FALSE, !.age = 0]]
        BY <2>4 DEF PutFinish, TypeOK
      <4>2. u \in Uploads
        BY <2>4, Busy DEF PutFinish
      <4>3. QED BY <3>1, <4>1, <4>2 DEF TypeOK
    <3>3. req' \in [Reqs -> Requests]
      BY <2>4, GotoType DEF PutFinish
    <3>4. maint' \in Maintainers
      BY <2>4, Busy, TouchType DEF PutFinish, TypeOK
    <3>5. QED BY <2>4, <3>2, <3>3, <3>4 DEF PutFinish, TypeOK, db
  <2>5. CASE PutStageError(r)
    <3>1. req[r].upload \in Uploads
      BY <2>5, Busy DEF PutStageError
    <3>2. stage' \in [Uploads -> Stages] /\ dest' \in [Uploads -> Dests]
      BY <2>5, <3>1, FillEffect DEF PutStageError
    <3>3. req' \in [Reqs -> Requests]
      BY <2>5, GotoType DEF PutStageError
    <3>4. QED BY <2>5, <3>2, <3>3 DEF PutStageError, TypeOK, db
  <2>6. CASE PutMark(r)
    <3>1. ASSUME NEW v \in Uploads
          PROVE  [row[v] EXCEPT !.staged = req[r].bundle] \in Rows
      BY <2>6, Busy DEF PutMark, TypeOK, Rows
    <3>2. row' \in [Uploads -> Rows]
      BY <2>6, <3>1 DEF PutMark, TypeOK
    <3>3. req' \in [Reqs -> Requests]
      BY <2>6, GotoType, ReplyType DEF PutMark
    <3>4. QED BY <2>6, <3>2, <3>3 DEF PutMark, TypeOK
  <2>7. CASE PutCleanup(r)
    BY <2>7, ReplyType DEF PutCleanup, TypeOK, db
  <2>8. QED BY <1>2, <2>1, <2>2, <2>3, <2>4, <2>5, <2>6, <2>7, <2>9 DEF Put
<1>3. ASSUME NEW r \in Reqs, Commit(r) PROVE TypeOK'
  <2> DEFINE u == req[r].upload
  <2>1. ASSUME NEW usr \in Users, NEW v \in Uploads, CommitLookup(r, usr, v)
        PROVE  TypeOK'
    <3>1. [pc |-> "publish", upload |-> v, bundle |-> row[v].staged,
           todo |-> {}] \in Requests
      BY <2>1 DEF CommitLookup, Requests, Active, TypeOK, Rows
    <3>2. QED BY <2>1, <3>1 DEF CommitLookup, TypeOK, db
  <2>2. CASE PublishFs(r)
    <3>1. ASSUME NEW v \in Uploads
          PROVE  [dir |-> TRUE, files |-> stage[v].files] \in Dests
      BY DEF TypeOK, Stages, Dests
    <3>2. dest' \in [Uploads -> Dests]
      <4>1. u \in Uploads
        BY <2>2, Busy DEF PublishFs
      <4>2. QED BY <2>2, <3>1, <4>1 DEF PublishFs, TypeOK
    <3>3. stage' \in [Uploads -> Stages]
      BY <2>2 DEF PublishFs, TypeOK
    <3>4. req' \in [Reqs -> Requests]
      BY <2>2, GotoType, ReplyType DEF PublishFs
    <3>5. QED BY <2>2, <3>2, <3>3, <3>4 DEF PublishFs, TypeOK, db
  <2>3. CASE PublishS3Walk(r)
    <3> DEFINE found == {f \in Files : stage[u].files[f] # None}
    <3>1. [req[r] EXCEPT !.pc = "put", !.todo = found] \in Requests
      <4>1. req[r] \in Active /\ found \subseteq Files
        BY <2>3, Busy DEF PublishS3Walk
      <4> HIDE DEF found
      <4>2. QED BY <4>1 DEF Active, Requests
    <3>2. req' \in [Reqs -> Requests]
      <4>1. CASE stage[u].dir
        <5>1. req' = [req EXCEPT ![r] =
                        [req[r] EXCEPT !.pc = "put", !.todo = found]]
          BY <2>3, <4>1 DEF PublishS3Walk, TypeOK
        <5>2. QED BY <3>1, <5>1 DEF TypeOK
      <4>2. CASE ~stage[u].dir
        BY <2>3, <4>2, ReplyType DEF PublishS3Walk
      <4>3. QED BY <4>1, <4>2
    <3>3. QED BY <2>3, <3>2 DEF PublishS3Walk, TypeOK, db
  <2>4. CASE PublishS3Put(r)
    <3>1. PICK f \in req[r].todo :
            \/ Reply(r) /\ UNCHANGED dest
            \/ /\ dest' = [dest EXCEPT ![u].dir = TRUE,
                                       ![u].files[f] = ReadOf(stage[u].files[f])]
               /\ req' = [req EXCEPT ![r].todo = @ \ {f}]
      BY <2>4 DEF PublishS3Put
    <3>2. req' \in [Reqs -> Requests]
      BY <2>4, <3>1, ReplyType, TodoType DEF PublishS3Put
    <3> DEFINE x == ReadOf(stage[u].files[f])
    <3>a. u \in Uploads /\ f \in Files
      BY <2>4, <3>1, Busy DEF PublishS3Put
    <3>b. x \in Bundles \cup {None, Torn}
      <4>1. stage[u].files \in Contents
        BY <3>a DEF TypeOK, Stages
      <4>2. QED BY <3>a, <4>1 DEF ReadOf, Contents
    <3>c. dest' = dest \/
          dest' = [dest EXCEPT ![u] = [dest[u] EXCEPT !.dir = TRUE, !.files[f] = x]]
      BY <3>1 DEF TypeOK
    <3> HIDE DEF x
    <3>3. [dest[u] EXCEPT !.dir = TRUE, !.files[f] = x] \in Dests
      <4>1. dest[u] \in Dests
        BY <3>a DEF TypeOK
      <4>2. [dest[u].files EXCEPT ![f] = x] \in Contents
        BY <3>b, <4>1 DEF Dests, Contents
      <4>3. QED BY <4>1, <4>2 DEF Dests
    <3>4. dest' \in [Uploads -> Dests]
      BY <3>3, <3>a, <3>c DEF TypeOK
    <3>5. QED BY <2>4, <3>2, <3>4 DEF PublishS3Put, TypeOK, db
  <2>5. CASE PublishS3Done(r)
    BY <2>5, GotoType DEF PublishS3Done, TypeOK, db
  <2>6. CASE CommitVersion(r)
    <3> DEFINE a == Target(u)
    <3>1. req' \in [Reqs -> Requests]
      BY <2>6, ReplyType DEF CommitVersion
    <3>2. u \in Uploads /\ req[r].bundle \in Bundles
      BY <2>6, Busy DEF CommitVersion
    <3>3. a \in Uploads /\ row[u].by \in Users \cup {None}
      BY <3>2 DEF Target, TypeOK, Rows
    <3>4. owner' \in [Uploads -> Users \cup {None}]
      BY <2>6, <3>3 DEF CommitVersion, TypeOK
    <3>5. Len(versions[a]) + 1 \in Nat
      BY <3>3 DEF TypeOK
    <3>6. [row[u] EXCEPT !.art = a, !.version = Len(versions[a]) + 1] \in Rows
      BY <3>2, <3>3, <3>5 DEF TypeOK, Rows
    <3>7. row' \in [Uploads -> Rows]
      BY <2>6, <3>6 DEF CommitVersion, TypeOK
    <3>8. [upload |-> u, bundle |-> req[r].bundle] \in VersionRows
      BY <3>2 DEF VersionRows
    <3>9. Append(versions[a], [upload |-> u, bundle |-> req[r].bundle])
            \in Seq(VersionRows)
      BY <3>3, <3>8 DEF TypeOK
    <3>10. versions' \in [Uploads -> Seq(VersionRows)]
      BY <2>6, <3>9 DEF CommitVersion, TypeOK
    <3>11. QED BY <2>6, <3>1, <3>4, <3>7, <3>10 DEF CommitVersion, TypeOK
  <2>7. CASE CommitError(r)
    BY <2>7, ReplyType DEF CommitError, TypeOK, db
  <2>8. QED BY <1>3, <2>1, <2>2, <2>3, <2>4, <2>5, <2>6, <2>7 DEF Commit
<1>4. CASE Maintenance
  <2>1. CASE MaintCleanup
    BY <2>1 DEF MaintCleanup, Maintainers, TypeOK
  <2>2. CASE MaintList
    BY <2>2 DEF MaintList, TypeOK, Maintainers, db
  <2>3. CASE MaintDone
    BY <2>3 DEF MaintDone, TypeOK, db
  <2>4. ASSUME NEW u \in Uploads, MaintRemove(u) PROVE TypeOK'
    <3>1. maint' \in Maintainers
      BY <2>4 DEF MaintRemove, TypeOK, Maintainers
    <3>2. QED BY <2>4, <3>1 DEF MaintRemove, TypeOK, db
  <2>5. ASSUME NEW u \in Uploads, MaintSweep(u) PROVE TypeOK'
    <3>1. maint' \in Maintainers
      BY <2>5 DEF MaintSweep, TypeOK, Maintainers
    <3>2. QED BY <2>5, <3>1 DEF MaintSweep, TypeOK, db
  <2>6. QED BY <1>4, <2>1, <2>2, <2>3, <2>4, <2>5 DEF Maintenance
<1>5. ASSUME NEW a \in Uploads, AdminDeleteArtifact(a) PROVE TypeOK'
  BY <1>5 DEF AdminDeleteArtifact, TypeOK
<1>6. CASE Tick
  <2>1. ASSUME NEW u \in Uploads
        PROVE  [row[u] EXCEPT !.left = IF @ > 0 THEN @ - 1 ELSE 0] \in Rows
    <3>1. row[u].left \in 0..TTL
      BY DEF TypeOK, Rows
    <3>2. (IF row[u].left > 0 THEN row[u].left - 1 ELSE 0) \in 0..TTL
      BY <3>1, TTLAssumption
    <3>3. QED BY <3>2 DEF TypeOK, Rows
  <2>2. ASSUME NEW u \in Uploads
        PROVE  [stage[u] EXCEPT !.age =
                  IF stage[u].dir /\ @ < MaxAge THEN @ + 1 ELSE @] \in Stages
    <3>1. stage[u].age \in 0..MaxAge
      BY DEF TypeOK, Stages
    <3>2. (IF stage[u].dir /\ stage[u].age < MaxAge
             THEN stage[u].age + 1 ELSE stage[u].age) \in 0..MaxAge
      BY <3>1, MaxAgeType
    <3>3. QED BY <3>2 DEF TypeOK, Stages
  <2>3. QED BY <1>6, <2>1, <2>2 DEF Tick, TypeOK
<1>7. CASE Crash
  <2>1. \A u \in Uploads : stage'[u] \in Stages /\ dest'[u] \in Dests
    BY <1>7, CrashEffect
  <2>2. QED BY <1>7, <2>1 DEF Crash, TypeOK, db
<1>8. CASE UNCHANGED vars
  BY <1>8 DEF vars, TypeOK
<1>9. QED BY <1>1, <1>2, <1>3, <1>4, <1>5, <1>6, <1>7, <1>8 DEF Next

\* Type correctness of the whole pipeline.
THEOREM TypeCorrect == Spec => []TypeOK
BY InitTypeOK, NextTypeOK, PTL DEF Spec

-----------------------------------------------------------------------------
(* A session is committed once, for both backends.                         *)

\* The only step that touches the version rows appends one.
LEMMA VersionsGrow ==
    ASSUME TypeOK, [Next]_vars
    PROVE  \/ versions' = versions
           \/ \E a \in Uploads, v \in VersionRows :
                versions' = [versions EXCEPT ![a] = Append(@, v)]
<1>1. ASSUME NEW r \in Reqs, CommitVersion(r)
      PROVE  \E a \in Uploads, v \in VersionRows :
               versions' = [versions EXCEPT ![a] = Append(@, v)]
  <2>1. req[r].upload \in Uploads /\ req[r].bundle \in Bundles
    BY <1>1, Busy DEF CommitVersion
  <2>2. Target(req[r].upload) \in Uploads
    BY <2>1 DEF Target, TypeOK, Rows
  <2>3. [upload |-> req[r].upload, bundle |-> req[r].bundle] \in VersionRows
    BY <2>1 DEF VersionRows
  <2>4. QED BY <1>1, <2>2, <2>3 DEF CommitVersion
<1>2. ASSUME NEW r \in Reqs, Put(r) \/ Commit(r), ~CommitVersion(r)
      PROVE  versions' = versions
  BY <1>2 DEF Put, PutLookup, PutMkdir, PutCreate, PutCopy, PutFinish, PutStageError,
              PutMark, PutCleanup, Commit, CommitLookup, PublishFs,
              PublishS3Walk, PublishS3Put, PublishS3Done, CommitError, db
<1>3. QED BY <1>1, <1>2
          DEF Next, CreateUpload, Maintenance, MaintCleanup, MaintList,
              MaintDone, MaintRemove, MaintSweep, AdminDeleteArtifact, Tick,
              Crash, vars, db

\* Where a version row comes from, for the sessions still in the table.
Provenance ==
    \A a \in Uploads : \A i \in 1..Len(versions[a]) :
        LET u == versions[a][i].upload IN
        /\ row[u].state # "none"
        /\ row[u].state = "live" => row[u].version > 0

\* A session with a version is still in the table and names its artifact.
Committed ==
    \A u \in Uploads :
        row[u].version > 0 => row[u].state = "live" /\ row[u].art \in Uploads

CInv == TypeOK /\ Provenance /\ Committed /\ CommitOnce

\* The invariant of CommitOnce holds of an empty system.
LEMMA InitCInv == Init => CInv
<1> SUFFICES ASSUME Init PROVE CInv
  OBVIOUS
<1>1. TypeOK
  BY InitTypeOK
<1>2. Provenance /\ Committed /\ CommitOnce
  BY DEF Init, Provenance, Committed, CommitOnce, NoRow
<1>3. QED BY <1>1, <1>2 DEF CInv

\* A step that leaves versions alone and each session's version and artifact,
\* or deletes a session or creates one.
LEMMA RowStep ==
    ASSUME CInv, UNCHANGED versions,
           \A u \in Uploads :
              \/ /\ row'[u].state = row[u].state
                 /\ row'[u].version = row[u].version
                 /\ row'[u].art = row[u].art
              \/ row'[u].state = "gone" /\ row'[u].version = 0
              \/ row[u].state = "none" /\ row'[u].state = "live"
                 /\ row'[u].version = 0
    PROVE  Provenance' /\ Committed' /\ CommitOnce'
<1>1. Provenance'
  <2> SUFFICES ASSUME NEW a \in Uploads, NEW i \in 1..Len(versions[a])
               PROVE  /\ row'[versions[a][i].upload].state # "none"
                      /\ row'[versions[a][i].upload].state = "live" =>
                           row'[versions[a][i].upload].version > 0
    BY DEF Provenance
  <2>1. versions[a][i] \in VersionRows
    BY DEF CInv, TypeOK
  <2>2. versions[a][i].upload \in Uploads
    BY <2>1 DEF VersionRows
  <2>3. QED BY <2>2 DEF CInv, Provenance
<1>2. Committed'
  BY DEF CInv, Committed
<1>3. CommitOnce'
  BY DEF CInv, CommitOnce
<1>4. QED BY <1>1, <1>2, <1>3

\* CommitVersion keeps the invariant of CommitOnce.
LEMMA CommitStep ==
    ASSUME CInv, NEW r \in Reqs, CommitVersion(r)
    PROVE  Provenance' /\ Committed' /\ CommitOnce'
<1> DEFINE u == req[r].upload
           a == Target(u)
           v == [upload |-> u, bundle |-> req[r].bundle]
           n == Len(versions[a])
<1>0. u \in Uploads /\ a \in Uploads /\ v \in VersionRows
  BY Busy DEF CInv, CommitVersion, Target, TypeOK, Rows, VersionRows
<1>a. row[u].state = "live" /\ row[u].version = 0
  BY DEF CommitVersion
<1>b. /\ row'[u].state = "live" /\ row'[u].version = n + 1 /\ row'[u].art = a
      /\ \A w \in Uploads \ {u} : row'[w] = row[w]
  <2>1. row[u] \in Rows
    BY <1>0 DEF CInv, TypeOK
  <2>2. row'[u] = [row[u] EXCEPT !.art = a, !.version = n + 1]
    BY <1>0 DEF CInv, TypeOK, CommitVersion
  <2>3. QED BY <1>0, <1>a, <2>1, <2>2 DEF CInv, TypeOK, Rows, CommitVersion
<1>c. \A c \in Uploads : versions[c] \in Seq(VersionRows)
  BY DEF CInv, TypeOK
<1>d. /\ versions'[a] = Append(versions[a], v)
      /\ \A c \in Uploads \ {a} : versions'[c] = versions[c]
  BY <1>0 DEF CInv, TypeOK, CommitVersion
<1>e. /\ n \in Nat /\ Len(versions'[a]) = n + 1
      /\ versions'[a][n + 1] = v
      /\ \A i \in 1..n : versions'[a][i] = versions[a][i]
  BY <1>0, <1>c, <1>d, AppendProperties
<1>f. ASSUME NEW c \in Uploads, NEW i \in 1..Len(versions[c])
      PROVE  versions[c][i].upload \in Uploads \ {u}
  <2>1. versions[c][i] \in VersionRows
    BY <1>c
  <2>2. QED BY <1>a, <2>1 DEF CInv, Provenance, VersionRows
<1>g. ASSUME NEW c \in Uploads, NEW i \in 1..Len(versions'[c])
      PROVE  \/ c = a /\ i = n + 1 /\ versions'[c][i] = v
             \/ i \in 1..Len(versions[c]) /\ versions'[c][i] = versions[c][i]
  <2>1. CASE c # a
    <3>1. versions'[c] = versions[c]
      BY <1>d, <2>1
    <3>2. QED BY <1>g, <3>1
  <2>2. CASE c = a
    <3>1. i \in 1..(n + 1)
      BY <1>e, <1>g, <2>2
    <3>2. CASE i = n + 1
      BY <1>e, <2>2, <3>2
    <3>3. CASE i \in 1..n
      BY <1>e, <2>2, <3>3
    <3>4. QED BY <1>e, <3>1, <3>2, <3>3
  <2>3. QED BY <2>1, <2>2
<1>1. Provenance'
  <2> SUFFICES ASSUME NEW c \in Uploads, NEW i \in 1..Len(versions'[c])
               PROVE  /\ row'[versions'[c][i].upload].state # "none"
                      /\ row'[versions'[c][i].upload].state = "live" =>
                           row'[versions'[c][i].upload].version > 0
    BY DEF Provenance
  <2>1. CASE versions'[c][i] = v
    BY <2>1, <1>b, <1>e
  <2>2. CASE i \in 1..Len(versions[c]) /\ versions'[c][i] = versions[c][i]
    BY <2>2, <1>b, <1>f DEF CInv, Provenance
  <2>3. QED BY <1>g, <2>1, <2>2
<1>2. Committed'
  BY <1>0, <1>b DEF CInv, Committed
<1>3. CommitOnce'
  <2>1. ASSUME NEW c \in Uploads, NEW d \in Uploads,
               NEW i \in 1..Len(versions'[c]), NEW j \in 1..Len(versions'[d]),
               versions'[c][i].upload = versions'[d][j].upload
        PROVE  c = d /\ i = j
    <3>1. CASE c = a /\ i = n + 1 /\ versions'[c][i] = v
      <4>1. ~(j \in 1..Len(versions[d]) /\ versions'[d][j] = versions[d][j])
        BY <1>f, <2>1, <3>1
      <4>2. QED BY <1>g, <3>1, <4>1
    <3>2. CASE i \in 1..Len(versions[c]) /\ versions'[c][i] = versions[c][i]
      <4>1. versions'[d][j] # v
        BY <1>f, <2>1, <3>2
      <4>2. j \in 1..Len(versions[d]) /\ versions'[d][j] = versions[d][j]
        BY <1>g, <4>1
      <4>3. QED BY <2>1, <3>2, <4>2 DEF CInv, CommitOnce
    <3>3. QED BY <1>g, <3>1, <3>2
  <2>2. ASSUME NEW w \in Uploads, row'[w].version > 0
        PROVE  /\ row'[w].version <= Len(versions'[row'[w].art])
               /\ versions'[row'[w].art][row'[w].version].upload = w
    <3>1. CASE w = u
      BY <3>1, <1>b, <1>e
    <3>2. CASE w # u
      <4>1. /\ row[w].version <= Len(versions[row[w].art])
            /\ versions[row[w].art][row[w].version].upload = w
            /\ row[w].art \in Uploads /\ row'[w] = row[w]
            /\ row[w].version \in Nat
        BY <2>2, <3>2, <1>b DEF CInv, CommitOnce, Committed, TypeOK, Rows
      <4>2. row[w].version > 0
        BY <2>2, <4>1
      <4>3. QED BY <4>1, <4>2, <1>d, <1>e
    <3>3. QED BY <3>1, <3>2
  <2>3. QED BY <2>1, <2>2 DEF CommitOnce
<1>4. QED BY <1>1, <1>2, <1>3

\* The invariant of CommitOnce is inductive.
LEMMA NextCInv == CInv /\ [Next]_vars => CInv'
<1> SUFFICES ASSUME CInv, [Next]_vars PROVE CInv'
  OBVIOUS
<1>1. TypeOK'
  BY NextTypeOK DEF CInv
<1>2. Provenance' /\ Committed' /\ CommitOnce'
  <2>a. \A u \in Uploads : row[u] \in Rows
    BY DEF CInv, TypeOK
  <2>1. ASSUME NEW usr \in Users, NEW v \in Uploads,
               NEW a \in Uploads \cup {None}, CreateUpload(usr, v, a)
        PROVE  Provenance' /\ Committed' /\ CommitOnce'
    <3>1. /\ UNCHANGED versions
          /\ row[v].state = "none"
          /\ row'[v].state = "live" /\ row'[v].version = 0
          /\ \A u \in Uploads \ {v} : row'[u] = row[u]
      BY <2>1 DEF CreateUpload, NoRow, CInv, TypeOK
    <3>2. QED BY <3>1, RowStep
  <2>2. ASSUME NEW r \in Reqs, PutMark(r)
        PROVE  Provenance' /\ Committed' /\ CommitOnce'
    <3>1. UNCHANGED versions
      BY <2>2 DEF PutMark
    <3>2. ASSUME NEW u \in Uploads
          PROVE  /\ row'[u].state = row[u].state
                 /\ row'[u].version = row[u].version
                 /\ row'[u].art = row[u].art
      <4>1. row'[u] = row[u] \/
            row'[u] = [row[u] EXCEPT !.staged = req[r].bundle]
        BY <2>2 DEF PutMark, CInv, TypeOK
      <4>2. QED BY <2>a, <4>1 DEF Rows
    <3>3. QED BY <3>1, <3>2, RowStep
  <2>3. CASE MaintCleanup
    <3>1. UNCHANGED versions /\ GoneRow.state = "gone" /\ GoneRow.version = 0
      BY <2>3 DEF MaintCleanup, GoneRow, NoRow
    <3>2. \A u \in Uploads : row'[u] = row[u] \/ row'[u] = GoneRow
      BY <2>3 DEF MaintCleanup
    <3>3. QED BY <3>1, <3>2, RowStep
  <2>4. CASE Tick
    <3>1. UNCHANGED versions
      BY <2>4 DEF Tick
    <3>2. ASSUME NEW u \in Uploads
          PROVE  /\ row'[u].state = row[u].state
                 /\ row'[u].version = row[u].version
                 /\ row'[u].art = row[u].art
      <4>1. row'[u] = [row[u] EXCEPT !.left = IF @ > 0 THEN @ - 1 ELSE 0]
        BY <2>4 DEF Tick
      <4>2. QED BY <2>a, <4>1 DEF Rows
    <3>3. QED BY <3>1, <3>2, RowStep
  <2>5. CASE UNCHANGED <<row, versions>>
    BY <2>5, RowStep
  <2>6. ASSUME NEW r \in Reqs, Put(r)
        PROVE  PutMark(r) \/ UNCHANGED <<row, versions>>
    BY <2>6 DEF Put, PutLookup, PutMkdir, PutCreate, PutCopy, PutFinish, PutStageError,
                PutCleanup, db
  <2>7. ASSUME NEW r \in Reqs, Commit(r)
        PROVE  CommitVersion(r) \/ UNCHANGED <<row, versions>>
    BY <2>7 DEF Commit, CommitLookup, PublishFs, PublishS3Walk, PublishS3Put,
                PublishS3Done, CommitError, db
  <2>8. CASE Maintenance
    <3>1. MaintCleanup \/ UNCHANGED <<row, versions>>
      BY <2>8 DEF Maintenance, MaintList, MaintDone, MaintRemove, MaintSweep, db
    <3>2. QED BY <3>1, <2>3, <2>5
  <2>9. ASSUME \/ \E a \in Uploads : AdminDeleteArtifact(a)
               \/ Crash
               \/ UNCHANGED vars
        PROVE  UNCHANGED <<row, versions>>
    BY <2>9 DEF AdminDeleteArtifact, Crash, vars, db
  <2>10. QED BY <2>1, <2>2, <2>4, <2>5, <2>6, <2>7, <2>8, <2>9, CommitStep
             DEF Next
<1>3. QED BY <1>1, <1>2 DEF CInv

\* On either backend, and also when the reply of MarkUploadStaged may be lost, a
\* session yields at most one version and remembers which (CommitVersion).
THEOREM CommittedOnce == Spec => []CommitOnce
<1>1. CInv => CommitOnce
  BY DEF CInv
<1>2. QED BY InitCInv, NextCInv, <1>1, PTL DEF Spec

-----------------------------------------------------------------------------
(* Effects, function application by function application.                  *)

\* An idle handler names no session.
LEMMA IdleValues == Idle.pc = "idle" /\ Idle.upload \notin Uploads
BY NoneAssumption DEF Idle

\* What Goto does to each handler.
LEMMA GotoEffect ==
    ASSUME TypeOK, NEW r \in Reqs, NEW pc, Goto(r, pc), req[r].pc # "idle"
    PROVE  /\ req'[r].pc = pc
           /\ req'[r].upload = req[r].upload
           /\ req'[r].bundle = req[r].bundle
           /\ req'[r].todo = req[r].todo
           /\ \A s \in Reqs \ {r} : req'[s] = req[s]
<1>1. req[r] \in Active
  BY Busy
<1>2. QED BY <1>1 DEF Goto, TypeOK, Active

\* What Reply does to each handler.
LEMMA ReplyEffect ==
    ASSUME TypeOK, NEW r \in Reqs, Reply(r)
    PROVE  /\ req'[r] = Idle
           /\ \A s \in Reqs \ {r} : req'[s] = req[s]
BY DEF Reply, TypeOK

\* A new modification time takes a stage off the list of old ones at most.
LEMMA TouchEffect ==
    ASSUME TypeOK, NEW u \in Uploads, Touch(u)
    PROVE  maint'.ids = maint.ids /\ maint'.old \subseteq maint.old
BY DEF Touch, TypeOK, Maintainers

-----------------------------------------------------------------------------
(* Traces of a session, on both backends.                                  *)

\* A step that creates no session, takes none away and makes no stage older.
LEMMA StoresKept ==
    ASSUME TypeOK, Stores,
           \A u \in Uploads :
             /\ row'[u] = row[u] \/ row'[u].state # "none"
             /\ row[u].state = "gone" => row'[u].state = "gone"
             /\ Live(u)' => Live(u) /\ row'[u].left = row[u].left
             /\ \/ stage'[u] = stage[u] \/ stage'[u] = NoStage
                \/ /\ row[u].state # "none"
                   /\ stage'[u].dir
                   /\ stage'[u].age = stage[u].age \/ stage'[u].age = 0
             /\ dest'[u] = dest[u] \/ (row[u].state # "none" /\ dest'[u].dir),
           \A r \in Reqs :
             req'[r].upload \in Uploads =>
               \/ req'[r].upload = req[r].upload
               \/ row[req'[r].upload].state # "none",
           maint'.ids \subseteq maint.ids, maint'.old \subseteq maint.old
    PROVE  Stores'
<1>1. Absent'
  BY DEF Stores, Absent
<1>2. Fresh'
  <2>1. ASSUME NEW u \in Uploads, row'[u].state = "none"
        PROVE  /\ row'[u] = row[u] /\ row[u].state = "none"
               /\ stage'[u] = stage[u] \/ stage'[u] = NoStage
               /\ dest'[u] = dest[u]
               /\ \A r \in Reqs : req'[r].upload # u
    BY <2>1 DEF Stores, Fresh
  <2>2. QED BY <2>1 DEF Stores, Fresh, NoStage
<1>3. Condemned'
  <2>1. maint.ids \subseteq Uploads /\ maint.old \subseteq Uploads
    BY DEF TypeOK, Maintainers
  <2>2. QED BY <2>1 DEF Stores, Condemned
<1>4. Young'
  <2>1. ASSUME NEW u \in Uploads, Live(u)', stage'[u].dir
        PROVE  stage'[u].age + row'[u].left <= TTL
    <3>1. row[u].left \in 0..TTL /\ stage[u].age \in Nat
      BY MaxAgeType DEF TypeOK, Rows, Stages
    <3>2. Live(u) /\ row'[u].left = row[u].left
      BY <2>1
    <3>3. stage'[u].age = 0 \/ (stage'[u].age = stage[u].age /\ stage[u].dir)
           \/ (stage'[u].age = stage[u].age /\ stage[u] = NoStage)
      BY <2>1 DEF Stores, Absent, NoStage
    <3>4. QED BY <3>1, <3>2, <3>3, TTLAssumption
              DEF Stores, Young, NoStage
  <2>2. QED BY <2>1 DEF Young
<1>5. QED BY <1>1, <1>2, <1>3, <1>4 DEF Stores

\* A handler that is busy has a session, and one that is there.
LEMMA BusyStores ==
    ASSUME TypeOK, Stores, NEW r \in Reqs, req[r].pc # "idle"
    PROVE  /\ req[r].upload \in Uploads
           /\ row[req[r].upload].state # "none"
BY Busy DEF Stores, Fresh

\* The handlers' updates of their own state name no other session.
LEMMA SameUpload ==
    ASSUME TypeOK, NEW r \in Reqs,
           \/ Reply(r)
           \/ req[r].pc # "idle" /\ \E pc : Goto(r, pc)
           \/ req[r].pc # "idle" /\ \E t : req' = [req EXCEPT ![r].todo = t]
           \/ req[r].pc # "idle" /\ \E pc, t :
                req' = [req EXCEPT ![r].pc = pc, ![r].todo = t]
    PROVE  \A s \in Reqs :
             req'[s].upload \in Uploads => req'[s].upload = req[s].upload
<1>1. CASE Reply(r)
  BY <1>1, ReplyEffect, IdleValues
<1>2. CASE req[r].pc # "idle"
  <2>1. req[r] \in Active
    BY <1>2, Busy
  <2>2. ASSUME NEW a, req' = [req EXCEPT ![r] = a], a.upload = req[r].upload
        PROVE  \A s \in Reqs : req'[s].upload = req[s].upload
    BY <2>2 DEF TypeOK
  <2>3. \A pc, t :
          /\ [req[r] EXCEPT !.pc = pc].upload = req[r].upload
          /\ [req[r] EXCEPT !.todo = t].upload = req[r].upload
          /\ [req[r] EXCEPT !.pc = pc, !.todo = t].upload = req[r].upload
    BY <2>1 DEF Active
  <2>4. ASSUME NEW pc, Goto(r, pc)
        PROVE  \A s \in Reqs : req'[s].upload = req[s].upload
    <3>1. req' = [req EXCEPT ![r] = [req[r] EXCEPT !.pc = pc]]
      BY <2>4 DEF Goto, TypeOK
    <3>2. QED BY <2>2, <2>3, <3>1
  <2>5. ASSUME NEW t, req' = [req EXCEPT ![r].todo = t]
        PROVE  \A s \in Reqs : req'[s].upload = req[s].upload
    <3>1. req' = [req EXCEPT ![r] = [req[r] EXCEPT !.todo = t]]
      BY <2>5 DEF TypeOK
    <3>2. QED BY <2>2, <2>3, <3>1
  <2>6. ASSUME NEW pc, NEW t, req' = [req EXCEPT ![r].pc = pc, ![r].todo = t]
        PROVE  \A s \in Reqs : req'[s].upload = req[s].upload
    <3>1. req' = [req EXCEPT ![r] = [req[r] EXCEPT !.pc = pc, !.todo = t]]
      BY <2>6 DEF TypeOK
    <3>2. QED BY <2>2, <2>3, <3>1
  <2>7. QED BY <1>1, <2>4, <2>5, <2>6
<1>3. QED BY <1>1, <1>2

\* A handler that closes its open file leaves the directories where they are.
LEMMA FillStores ==
    ASSUME TypeOK, Stores, NEW r \in Reqs, req[r].pc # "idle",
           NEW x \in Bundles \cup {Torn}, NEW pc, Goto(r, pc),
           stage' = [stage EXCEPT ![req[r].upload].files = Fill(@, r, x)],
           dest' = [dest EXCEPT ![req[r].upload].files = Fill(@, r, x)],
           UNCHANGED <<row, maint>>
    PROVE  Stores'
<1> DEFINE u == req[r].upload
<1>1. u \in Uploads /\ row[u].state # "none"
  BY BusyStores
<1>2. \A s \in Reqs :
         req'[s].upload \in Uploads => req'[s].upload = req[s].upload
  BY SameUpload
<1>3. /\ stage'[u] = [stage[u] EXCEPT !.files = Fill(stage[u].files, r, x)]
      /\ dest'[u] = [dest[u] EXCEPT !.files = Fill(dest[u].files, r, x)]
      /\ stage'[u].dir = stage[u].dir /\ stage'[u].age = stage[u].age
      /\ dest'[u].dir = dest[u].dir
      /\ \A v \in Uploads \ {u} : stage'[v] = stage[v] /\ dest'[v] = dest[v]
  BY <1>1, FillEffect
<1>4. /\ ~stage[u].dir => stage'[u] = stage[u]
      /\ ~dest[u].dir => dest'[u] = dest[u]
  BY <1>1, <1>3, FillEmpty DEF Stores, Absent, NoStage, NoDest
<1>5. QED BY <1>1, <1>2, <1>3, <1>4, StoresKept DEF Live

\* So does the death of the process.
LEMMA CrashStores ==
    ASSUME TypeOK, Stores, Crash PROVE Stores'
<1>1. \A s \in Reqs : req'[s].upload \notin Uploads
  BY NoneAssumption DEF Crash, Idle
<1>2. maint'.ids = {} /\ maint'.old = {} /\ UNCHANGED row
  BY DEF Crash, Resting, db
<1>3. ASSUME NEW u \in Uploads
      PROVE  /\ stage'[u] = stage[u] \/ (stage[u].dir /\ stage'[u].dir
                                           /\ stage'[u].age = stage[u].age)
             /\ dest'[u] = dest[u] \/ (dest[u].dir /\ dest'[u].dir)
  <2>1. /\ stage'[u] = [stage[u] EXCEPT !.files = Abandon(stage[u].files)]
        /\ dest'[u] = [dest[u] EXCEPT !.files = Abandon(dest[u].files)]
        /\ stage'[u].dir = stage[u].dir /\ stage'[u].age = stage[u].age
        /\ dest'[u].dir = dest[u].dir
    BY CrashEffect
  <2>2. /\ ~stage[u].dir => stage[u] = NoStage
        /\ ~dest[u].dir => dest[u] = NoDest
    BY DEF Stores, Absent
  <2>3. ~stage[u].dir => stage'[u] = stage[u]
    BY <2>1, <2>2, FillEmpty DEF NoStage
  <2>4. ~dest[u].dir => dest'[u] = dest[u]
    BY <2>1, <2>2, FillEmpty DEF NoDest
  <2>5. QED BY <2>1, <2>3, <2>4
<1>4. \A u \in Uploads : stage[u].dir \/ dest[u].dir => row[u].state # "none"
  BY DEF Stores, Fresh
<1>5. QED BY <1>1, <1>2, <1>3, <1>4, StoresKept DEF Live

\* putUpload, step by step.
LEMMA PutStores ==
    ASSUME TypeOK, Stores, NEW r \in Reqs, Put(r) PROVE Stores'
<1>1. ASSUME NEW u \in Uploads, NEW b \in Bundles, PutLookup(r, u, b)
      PROVE  Stores'
  <2>1. \A s \in Reqs : req'[s].upload = req[s].upload \/ req'[s].upload = u
    BY <1>1 DEF PutLookup, TypeOK
  <2>2. QED BY <1>1, <2>1, StoresKept DEF PutLookup, db, Live
<1>2. CASE PutMkdir(r)
  <2>1. req[r].upload \in Uploads /\ row[req[r].upload].state # "none"
    BY <1>2, BusyStores DEF PutMkdir
  <2>2. \A s \in Reqs :
           req'[s].upload \in Uploads => req'[s].upload = req[s].upload
    BY <1>2, SameUpload DEF PutMkdir
  <2>3. maint'.ids \subseteq maint.ids /\ maint'.old \subseteq maint.old
    BY <1>2, <2>1, TouchEffect DEF PutMkdir
  <2>4. QED BY <1>2, <2>1, <2>2, <2>3, StoresKept
            DEF PutMkdir, db, TypeOK, NewStage, Live
<1>3. CASE PutCreate(r)
  <2> DEFINE u == req[r].upload
  <2>1. u \in Uploads /\ row[u].state # "none"
    BY <1>3, BusyStores DEF PutCreate
  <2>2. \A s \in Reqs :
           req'[s].upload \in Uploads => req'[s].upload = req[s].upload
    <3>1. PICK f \in req[r].todo :
            Goto(r, "cleanup") \/ req' = [req EXCEPT ![r].pc = "copy", ![r].todo = @ \ {f}]
      BY <1>3 DEF PutCreate
    <3>2. CASE req' = [req EXCEPT ![r].pc = "copy", ![r].todo = @ \ {f}]
      <4>1. req[r] \in Active
        BY <1>3, Busy DEF PutCreate
      <4>2. req' = [req EXCEPT ![r].pc = "copy", ![r].todo = req[r].todo \ {f}]
        BY <3>2 DEF TypeOK
      <4>3. QED BY <1>3, <4>2, SameUpload DEF PutCreate
    <3>3. QED BY <1>3, <3>1, <3>2, SameUpload DEF PutCreate
  <2>3. maint'.ids \subseteq maint.ids /\ maint'.old \subseteq maint.old
    BY <1>3, <2>1, TouchEffect DEF PutCreate
  <2>4. \A v \in Uploads :
          \/ stage'[v] = stage[v]
          \/ v = u /\ stage'[v].dir /\ stage'[v].age = stage[v].age
    <3>1. PICK f \in req[r].todo :
            \/ stage' = stage
            \/ stage' = [stage EXCEPT ![u].files[f] = r, ![u].dir = TRUE]
      BY <1>3 DEF PutCreate
    <3>2. stage[u] \in Stages
      BY <2>1 DEF TypeOK
    <3>3. /\ [stage[u] EXCEPT !.files[f] = r, !.dir = TRUE].dir
          /\ [stage[u] EXCEPT !.files[f] = r, !.dir = TRUE].age = stage[u].age
      BY <3>2 DEF Stages
    <3>4. CASE stage' # stage
      <4>1. /\ stage'[u] = [stage[u] EXCEPT !.files[f] = r, !.dir = TRUE]
            /\ \A v \in Uploads \ {u} : stage'[v] = stage[v]
        BY <2>1, <3>1, <3>4 DEF TypeOK
      <4>2. QED BY <3>3, <4>1
    <3>5. QED BY <3>4
  <2>5. QED BY <1>3, <2>1, <2>2, <2>3, <2>4, StoresKept DEF PutCreate, db, Live
<1>9. CASE PutCopy(r)
  <2>1. req[r].pc # "idle" /\ req[r].bundle \in Bundles \cup {Torn}
    BY <1>9, Busy DEF PutCopy
  <2>2. QED BY <1>9, <2>1, FillStores DEF PutCopy, db
<1>4. CASE PutFinish(r)
  <2> DEFINE u == req[r].upload
  <2>1. u \in Uploads /\ row[u].state # "none"
    BY <1>4, BusyStores DEF PutFinish
  <2>2. \A s \in Reqs :
           req'[s].upload \in Uploads => req'[s].upload = req[s].upload
    BY <1>4, SameUpload DEF PutFinish
  <2>3. maint'.ids \subseteq maint.ids /\ maint'.old \subseteq maint.old
    BY <1>4, <2>1, TouchEffect DEF PutFinish
  <2>4. \A v \in Uploads :
          \/ stage'[v] = stage[v]
          \/ v = u /\ stage'[v].dir /\ stage'[v].age = 0
    <3>1. stage[u] \in Stages
      BY <2>1 DEF TypeOK
    <3>2. /\ [stage[u] EXCEPT !.zip = FALSE, !.age = 0].dir = stage[u].dir
          /\ [stage[u] EXCEPT !.zip = FALSE, !.age = 0].age = 0
      BY <3>1 DEF Stages
    <3>3. CASE stage' # stage
      <4>1. /\ stage[u].dir
            /\ stage'[u] = [stage[u] EXCEPT !.zip = FALSE, !.age = 0]
            /\ \A v \in Uploads \ {u} : stage'[v] = stage[v]
        BY <1>4, <2>1, <3>3 DEF PutFinish, TypeOK
      <4>2. QED BY <3>2, <4>1
    <3>4. QED BY <3>3
  <2>5. QED BY <1>4, <2>1, <2>2, <2>3, <2>4, StoresKept DEF PutFinish, db, Live
<1>5. CASE PutStageError(r)
  <2>1. req[r].pc # "idle"
    BY <1>5 DEF PutStageError
  <2>2. QED BY <1>5, <2>1, FillStores DEF PutStageError, db
<1>6. CASE PutMark(r)
  <2> DEFINE u == req[r].upload
  <2>1. u \in Uploads /\ row[u].state # "none"
    BY <1>6, BusyStores DEF PutMark
  <2>2. \A s \in Reqs :
           req'[s].upload \in Uploads => req'[s].upload = req[s].upload
    BY <1>6, SameUpload DEF PutMark
  <2>3. \A v \in Uploads :
          row'[v] = row[v] \/ (v = u /\ row'[v].state = row[v].state
                                   /\ row'[v].left = row[v].left)
    <3>1. row[u] \in Rows
      BY <2>1 DEF TypeOK
    <3>2. QED BY <1>6, <2>1, <3>1 DEF PutMark, TypeOK, Rows
  <2>4. UNCHANGED <<stage, dest, maint>>
    BY <1>6 DEF PutMark
  <2>5. QED BY <2>1, <2>2, <2>3, <2>4, StoresKept DEF Live
<1>7. CASE PutCleanup(r)
  <2>1. \A v \in Uploads : stage'[v] = stage[v] \/ stage'[v] = NoStage
    BY <1>7 DEF PutCleanup, TypeOK
  <2>2. \A s \in Reqs :
           req'[s].upload \in Uploads => req'[s].upload = req[s].upload
    BY <1>7, SameUpload DEF PutCleanup
  <2>3. QED BY <1>7, <2>1, <2>2, StoresKept DEF PutCleanup, db, Live
<1>8. QED BY <1>1, <1>2, <1>3, <1>4, <1>5, <1>6, <1>7, <1>9 DEF Put

\* commitForUser, step by step, with either object store.
LEMMA CommitStores ==
    ASSUME TypeOK, Stores, NEW r \in Reqs, Commit(r) PROVE Stores'
<1> DEFINE u == req[r].upload
<1>a. ASSUME req[r].pc # "idle" PROVE u \in Uploads /\ row[u].state # "none"
  BY <1>a, BusyStores
<1>1. ASSUME NEW usr \in Users, NEW v \in Uploads, CommitLookup(r, usr, v)
      PROVE  Stores'
  <2>1. \A s \in Reqs : req'[s].upload = req[s].upload \/ req'[s].upload = v
    BY <1>1 DEF CommitLookup, TypeOK
  <2>2. QED BY <1>1, <2>1, StoresKept DEF CommitLookup, db, Live
<1>2. CASE PublishFs(r)
  <2>1. \A s \in Reqs :
           req'[s].upload \in Uploads => req'[s].upload = req[s].upload
    BY <1>2, SameUpload DEF PublishFs
  <2>2. \A v \in Uploads :
          /\ stage'[v] = stage[v] \/ stage'[v] = NoStage
          /\ dest'[v] = dest[v] \/ (v = u /\ dest'[v].dir)
    BY <1>2 DEF PublishFs, TypeOK
  <2>3. QED BY <1>2, <1>a, <2>1, <2>2, StoresKept DEF PublishFs, db, Live
<1>3. CASE PublishS3Walk(r)
  <2>1. \A s \in Reqs :
           req'[s].upload \in Uploads => req'[s].upload = req[s].upload
    BY <1>3, SameUpload DEF PublishS3Walk
  <2>2. QED BY <1>3, <2>1, StoresKept DEF PublishS3Walk, db, Live
<1>4. CASE PublishS3Put(r)
  <2>1. \A s \in Reqs :
           req'[s].upload \in Uploads => req'[s].upload = req[s].upload
    BY <1>4, SameUpload DEF PublishS3Put
  <2>2. u \in Uploads
    BY <1>4, <1>a DEF PublishS3Put
  <2>3. \A v \in Uploads : dest'[v] = dest[v] \/ (v = u /\ dest'[v].dir)
    <3>1. PICK f \in req[r].todo :
            \/ dest' = dest
            \/ dest' = [dest EXCEPT ![u].dir = TRUE, ![u].files[f] = ReadOf(stage[u].files[f])]
      BY <1>4 DEF PublishS3Put
    <3>2. dest[u] \in Dests
      BY <2>2 DEF TypeOK
    <3>3. [dest[u] EXCEPT !.dir = TRUE, !.files[f] = ReadOf(stage[u].files[f])].dir
      BY <3>2 DEF Dests
    <3>4. CASE dest' # dest
      <4>1. /\ dest'[u] = [dest[u] EXCEPT !.dir = TRUE,
                                          !.files[f] = ReadOf(stage[u].files[f])]
            /\ \A v \in Uploads \ {u} : dest'[v] = dest[v]
        BY <2>2, <3>1, <3>4 DEF TypeOK
      <4>2. QED BY <3>3, <4>1
    <3>5. QED BY <3>4
  <2>4. UNCHANGED <<row, stage, maint>> /\ row[u].state # "none"
    BY <1>4, <1>a DEF PublishS3Put, db
  <2>5. QED BY <2>1, <2>3, <2>4, StoresKept DEF Live
<1>5. CASE PublishS3Done(r)
  <2>1. \A s \in Reqs :
           req'[s].upload \in Uploads => req'[s].upload = req[s].upload
    BY <1>5, SameUpload DEF PublishS3Done
  <2>2. \A v \in Uploads : stage'[v] = stage[v] \/ stage'[v] = NoStage
    BY <1>5 DEF PublishS3Done, TypeOK
  <2>3. QED BY <1>5, <2>1, <2>2, StoresKept DEF PublishS3Done, db, Live
<1>6. CASE CommitVersion(r)
  <2>1. \A s \in Reqs :
           req'[s].upload \in Uploads => req'[s].upload = req[s].upload
    BY <1>6, SameUpload DEF CommitVersion
  <2>2. \A v \in Uploads : row'[v].state = row[v].state /\ row'[v].left = row[v].left
    <3>1. u \in Uploads /\ row[u] \in Rows
      BY <1>6, <1>a DEF CommitVersion, TypeOK
    <3> DEFINE a == Target(u)
               n == Len(versions[a]) + 1
    <3>2. row'[u] = [row[u] EXCEPT !.art = a, !.version = n]
      BY <1>6, <3>1 DEF CommitVersion, TypeOK
    <3>3. \A v \in Uploads \ {u} : row'[v] = row[v]
      BY <1>6, <3>1 DEF CommitVersion, TypeOK
    <3> HIDE DEF a, n
    <3>4. row'[u].state = row[u].state /\ row'[u].left = row[u].left
      BY <3>1, <3>2 DEF Rows
    <3>5. QED BY <3>3, <3>4
  <2>3. \A v \in Uploads : row'[v] = row[v] \/ row'[v].state # "none"
    <3>1. u \in Uploads /\ row[u].state # "none"
      BY <1>6, <1>a DEF CommitVersion
    <3>2. \A v \in Uploads \ {u} : row'[v] = row[v]
      BY <1>6 DEF CommitVersion, TypeOK
    <3>3. QED BY <2>2, <3>1, <3>2
  <2>4. UNCHANGED <<stage, dest, maint>>
    BY <1>6 DEF CommitVersion
  <2>5. QED BY <2>1, <2>2, <2>3, <2>4, StoresKept DEF Live
<1>7. CASE CommitError(r)
  <2>1. \A s \in Reqs :
           req'[s].upload \in Uploads => req'[s].upload = req[s].upload
    BY <1>7, SameUpload DEF CommitError
  <2>2. QED BY <1>7, <2>1, StoresKept DEF CommitError, db, Live
<1>8. QED BY <1>1, <1>2, <1>3, <1>4, <1>5, <1>6, <1>7 DEF Commit

\* runMaintenance: what it deletes has expired, and a stage older than two
\* lifetimes belongs to a session that has.
LEMMA MaintenanceStores ==
    ASSUME TypeOK, Stores, Maintenance PROVE Stores'
<1>1. CASE MaintCleanup
  <2> DEFINE expired == {u \in Uploads : row[u].state = "live" /\ row[u].left = 0}
  <2>0. /\ UNCHANGED <<stage, dest, req>>
        /\ \A u \in Uploads : row'[u] = IF u \in expired THEN GoneRow ELSE row[u]
        /\ maint'.ids = expired
        /\ maint'.old = {u \in Uploads : StageIsOld(u)}
    BY <1>1 DEF MaintCleanup
  <2>a. GoneRow.state = "gone"
    BY DEF GoneRow, NoRow
  <2>1. Absent' /\ Fresh' /\ Young'
    BY <2>0, <2>a DEF Stores, Absent, Fresh, Young, Live
  <2>2. ASSUME NEW u \in Uploads, StageIsOld(u) PROVE row'[u].state = "gone"
    <3>1. row[u] \in Rows /\ stage[u] \in Stages
      BY DEF TypeOK
    <3>2. /\ row[u].state \in {"none", "live", "gone"} /\ row[u].left \in Nat
          /\ stage[u].age \in Nat
      BY <3>1, TTLAssumption, MaxAgeType DEF Rows, Stages
    <3>3. row[u].state # "none"
      BY <2>2 DEF Stores, Fresh, StageIsOld
    <3>4. ~Live(u)
      BY <2>2, <3>2, TTLAssumption DEF Stores, Young, StageIsOld
    <3>5. QED BY <2>0, <2>a, <3>2, <3>3, <3>4 DEF Live
  <2>3. Condemned'
    BY <2>0, <2>a, <2>2 DEF Condemned
  <2>4. QED BY <2>1, <2>3 DEF Stores
<1>2. ASSUME UNCHANGED <<row, dest, req>>,
             \A u \in Uploads : stage'[u] = stage[u] \/ stage'[u] = NoStage,
             maint'.ids \subseteq maint.ids, maint'.old \subseteq maint.old
      PROVE  Stores'
  BY <1>2, StoresKept DEF Live
<1>3. maint \in Maintainers /\ Resting.ids = {} /\ Resting.old = {}
  BY DEF TypeOK, Resting
<1>4. CASE MaintList
  BY <1>2, <1>3, <1>4 DEF MaintList, db, Maintainers
<1>5. CASE MaintDone
  BY <1>2, <1>3, <1>5 DEF MaintDone, db
<1>6. ASSUME NEW u \in Uploads, MaintRemove(u) PROVE Stores'
  <2>1. maint'.ids \subseteq maint.ids /\ maint'.old \subseteq maint.old
    BY <1>3, <1>6 DEF MaintRemove, Maintainers
  <2>2. \A v \in Uploads : stage'[v] = stage[v] \/ stage'[v] = NoStage
    BY <1>6 DEF MaintRemove, TypeOK
  <2>3. QED BY <1>2, <1>6, <2>1, <2>2 DEF MaintRemove, db
<1>7. ASSUME NEW u \in Uploads, MaintSweep(u) PROVE Stores'
  <2>1. maint'.ids \subseteq maint.ids /\ maint'.old \subseteq maint.old
    <3>1. CASE maint' = Resting
      BY <1>3, <3>1
    <3>2. CASE maint' = [maint EXCEPT !.list = @ \ {u}]
      BY <1>3, <3>2 DEF Maintainers
    <3>3. QED BY <1>7, <3>1, <3>2 DEF MaintSweep
  <2>2. \A v \in Uploads : stage'[v] = stage[v] \/ stage'[v] = NoStage
    BY <1>7 DEF MaintSweep, TypeOK
  <2>3. QED BY <1>2, <1>7, <2>1, <2>2 DEF MaintSweep, db
<1>8. QED BY <1>1, <1>4, <1>5, <1>6, <1>7 DEF Maintenance

\* What a tick does to a row and to a stage.
LEMMA TickEffect ==
    ASSUME TypeOK, Tick, NEW u \in Uploads
    PROVE  /\ row'[u].state = row[u].state
           /\ row'[u].version = row[u].version
           /\ row'[u].staged = row[u].staged
           /\ row[u].left \in Nat
           /\ row'[u].left = IF row[u].left > 0 THEN row[u].left - 1 ELSE 0
           /\ row[u] = NoRow => row'[u] = NoRow
           /\ stage'[u].dir = stage[u].dir
           /\ stage'[u].files = stage[u].files
           /\ stage'[u].zip = stage[u].zip
           /\ stage[u].age \in Nat /\ stage'[u].age \in Nat
           /\ stage'[u].age <= stage[u].age + 1
           /\ ~stage[u].dir => stage'[u] = stage[u]
<1> DEFINE less == IF row[u].left > 0 THEN row[u].left - 1 ELSE 0
           more == IF stage[u].dir /\ stage[u].age < MaxAge
                     THEN stage[u].age + 1 ELSE stage[u].age
<1>1. row[u] \in Rows /\ stage[u] \in Stages
  BY DEF TypeOK
<1>2. row'[u] = [row[u] EXCEPT !.left = less]
  BY DEF Tick
<1>3. stage'[u] = [stage[u] EXCEPT !.age = more]
  BY DEF Tick
<1>4. row[u].left \in Nat /\ (row[u] = NoRow => less = 0)
  BY <1>1, TTLAssumption DEF Rows, NoRow
<1>5. /\ stage[u].age \in Nat /\ more \in Nat /\ more <= stage[u].age + 1
      /\ ~stage[u].dir => more = stage[u].age
  BY <1>1, MaxAgeType DEF Stages
<1>6. row'[u].left = less => row'[u].left = IF row[u].left > 0 THEN row[u].left - 1 ELSE 0
  OBVIOUS
<1> HIDE DEF less, more
<1>7. /\ row'[u].state = row[u].state
      /\ row'[u].version = row[u].version
      /\ row'[u].staged = row[u].staged
      /\ row'[u].left = less
  BY <1>1, <1>2 DEF Rows
<1>8. row[u] = NoRow => row'[u] = NoRow
  BY <1>2, <1>4 DEF NoRow
<1>9. /\ stage'[u].dir = stage[u].dir
      /\ stage'[u].files = stage[u].files
      /\ stage'[u].zip = stage[u].zip
      /\ stage'[u].age = more
  BY <1>1, <1>3 DEF Stages
<1>10. ~stage[u].dir => stage'[u] = stage[u]
  BY <1>1, <1>3, <1>5 DEF Stages
<1>11. QED BY <1>4, <1>5, <1>6, <1>7, <1>8, <1>9, <1>10

\* Stores is inductive on both backends, whatever PUTs and commits do to each other.
LEMMA NextStores ==
    ASSUME TypeOK, Stores, [Next]_vars PROVE Stores'
<1>1. ASSUME NEW usr \in Users, NEW u \in Uploads,
             NEW a \in Uploads \cup {None}, CreateUpload(usr, u, a)
      PROVE  Stores'
  <2>0. /\ UNCHANGED <<stage, dest, req, maint>>
        /\ row[u].state = "none" /\ row'[u].state = "live"
        /\ \A v \in Uploads \ {u} : row'[v] = row[v]
    BY <1>1 DEF TypeOK, CreateUpload, NoRow
  <2>a. ~stage[u].dir
    BY <2>0 DEF Stores, Fresh
  <2>1. Absent' /\ Fresh'
    BY <2>0 DEF Stores, Absent, Fresh
  <2>2. Condemned'
    BY <2>0 DEF Stores, Condemned, TypeOK, Maintainers
  <2>3. Young'
    BY <2>0, <2>a DEF Stores, Young, Live
  <2>4. QED BY <2>1, <2>2, <2>3 DEF Stores
<1>2. CASE Tick
  <2>0. UNCHANGED <<dest, req, maint>>
    BY <1>2 DEF Tick
  <2>1. Absent'
    BY <1>2, <2>0, TickEffect DEF Stores, Absent
  <2>2. Fresh'
    BY <1>2, <2>0, TickEffect DEF Stores, Fresh
  <2>3. Condemned'
    BY <1>2, <2>0, TickEffect DEF Stores, Condemned, TypeOK, Maintainers
  <2>4. Young'
    BY <1>2, TickEffect, TTLAssumption DEF Stores, Young, Live
  <2>5. QED BY <2>1, <2>2, <2>3, <2>4 DEF Stores
<1>3. ASSUME UNCHANGED <<row, stage, dest>>,
             \A r \in Reqs : req'[r] = req[r] \/ req'[r] = Idle,
             maint'.ids \subseteq maint.ids, maint'.old \subseteq maint.old
      PROVE  Stores'
  BY <1>3, IdleValues, StoresKept DEF Live
<1>4. CASE \E a \in Uploads : AdminDeleteArtifact(a)
  BY <1>3, <1>4 DEF AdminDeleteArtifact
<1>5. CASE UNCHANGED vars
  BY <1>3, <1>5 DEF vars
<1>6. QED BY <1>1, <1>2, <1>4, <1>5, PutStores, CommitStores, CrashStores,
             MaintenanceStores DEF Next

\* Whatever the backend, and whoever shares a stage: an absent directory is empty,
\* maintenance holds only sessions that are deleted for good, and no stage of a
\* session that can still be used is old enough to be swept (runMaintenance,
\* CleanupStages, CleanupExpired).
THEOREM StoresHold == Spec => [](TypeOK /\ Stores)
<1>1. Init => TypeOK /\ Stores
  <2>1. Init => Stores
    BY IdleValues
    DEF Init, Stores, Absent, Fresh, Condemned, Young, Live, NoRow, NoStage, NoDest,
        Resting
  <2>2. QED BY <2>1, InitTypeOK
<1>2. TypeOK /\ Stores /\ [Next]_vars => (TypeOK /\ Stores)'
  BY NextTypeOK, NextStores
<1>3. QED BY <1>1, <1>2, PTL DEF Spec

-----------------------------------------------------------------------------
(* What has been committed does not change, on any backend whose versions *)
(* are whole.                                                              *)

\* A step changes neither a version row nor one of its objects when versions are
\* whole before and after it.
LEMMA VersionKept ==
    ASSUME TypeOK, VersionIntact, VersionIntact', [Next]_vars,
           NEW a \in Uploads, NEW i \in 1..Len(versions[a])
    PROVE  /\ versions'[a][i] = versions[a][i]
           /\ dest'[versions[a][i].upload] = dest[versions[a][i].upload]
<1>1. versions'[a][i] = versions[a][i] /\ i \in 1..Len(versions'[a])
  <2>1. CASE versions' = versions
    BY <2>1
  <2>2. ASSUME NEW b \in Uploads, NEW v \in VersionRows,
               versions' = [versions EXCEPT ![b] = Append(@, v)]
        PROVE  versions'[a][i] = versions[a][i] /\ i \in 1..Len(versions'[a])
    <3>1. versions[a] \in Seq(VersionRows)
      BY DEF TypeOK
    <3>2. versions'[a] = IF a = b THEN Append(versions[a], v) ELSE versions[a]
      BY <2>2 DEF TypeOK
    <3>3. QED BY <3>1, <3>2, AppendProperties
  <2>3. QED BY <2>1, <2>2, VersionsGrow
<1>2. dest[versions[a][i].upload] =
        [dir |-> TRUE, files |-> Content(versions[a][i].bundle)]
  BY DEF VersionIntact
<1>3. dest'[versions'[a][i].upload] =
        [dir |-> TRUE, files |-> Content(versions'[a][i].bundle)]
  BY <1>1 DEF VersionIntact, Content
<1>4. QED BY <1>1, <1>2, <1>3

\* Where versions are always whole, a step never changes a version row or one of
\* its objects (README.md: "Existing artifact versions are immutable").
LEMMA IntactImmutable == Spec /\ []VersionIntact => Immutable
<1>1. TypeOK /\ VersionIntact /\ VersionIntact' /\ [Next]_vars =>
        [\A a \in Uploads : \A i \in 1..Len(versions[a]) :
           /\ versions'[a][i] = versions[a][i]
           /\ dest'[versions[a][i].upload] = dest[versions[a][i].upload]]_vars
  BY VersionKept
<1>2. QED BY <1>1, TypeCorrect, PTL DEF Spec, Immutable

\* Where versions are always whole, the pipeline implements a growing list of whole
\* bundles (CommitVersion, Version and Open).
LEMMA IntactHistory == Spec /\ []VersionIntact => ImplementsHistory
<1>1. Init => History!Init
  BY DEF Init, History!Init, Served
<1>2. ASSUME TypeOK, VersionIntact, VersionIntact', [Next]_vars
      PROVE  History!Next \/ Served' = Served
  <2>a. \A a \in Uploads : versions[a] \in Seq(VersionRows)
    BY <1>2 DEF TypeOK
  <2>b. ASSUME NEW a \in Uploads, NEW i \in 1..Len(versions[a])
        PROVE  dest'[versions[a][i].upload] = dest[versions[a][i].upload]
    BY <1>2, VersionKept
  <2>1. CASE versions' = versions
    BY <2>1, <2>b DEF Served
  <2>2. ASSUME NEW a \in Uploads, NEW v \in VersionRows,
               versions' = [versions EXCEPT ![a] = Append(@, v)]
        PROVE  History!Next
    <3> DEFINE n == Len(versions[a])
               c == Content(v.bundle)
    <3>1. /\ n \in Nat
          /\ Len(versions'[a]) = n + 1
          /\ versions'[a][n + 1] = v
          /\ \A i \in 1..n : versions'[a][i] = versions[a][i]
      <4>1. versions[a] \in Seq(VersionRows)
        BY <2>a
      <4>2. versions'[a] = Append(versions[a], v)
        BY <1>2, <2>2 DEF TypeOK
      <4>3. QED BY <4>1, <4>2, AppendProperties
    <3>2. \A b \in Uploads \ {a} : versions'[b] = versions[b]
      BY <1>2, <2>2 DEF TypeOK
    <3>3. dest'[v.upload].files = c
      <4>1. n + 1 \in 1..Len(versions'[a])
        BY <3>1
      <4>2. dest'[versions'[a][n + 1].upload] =
              [dir |-> TRUE, files |-> Content(versions'[a][n + 1].bundle)]
        BY <1>2, <4>1 DEF VersionIntact, Content
      <4>3. QED BY <3>1, <4>2
    <3>4. Served'[a] = Append(Served[a], c)
      <4>1. Served[a] = [i \in 1..n |-> dest[versions[a][i].upload].files]
        BY DEF Served
      <4>2. Served'[a] = [i \in 1..(n + 1) |->
                            dest'[versions'[a][i].upload].files]
        BY <3>1 DEF Served
      <4>3. Served'[a] = [i \in 1..(n + 1) |->
                            IF i <= n THEN dest[versions[a][i].upload].files
                                      ELSE c]
        <5>1. ASSUME NEW i \in 1..(n + 1)
              PROVE  dest'[versions'[a][i].upload].files =
                       IF i <= n THEN dest[versions[a][i].upload].files ELSE c
          <6>1. CASE i \in 1..n
            BY <6>1, <2>b, <3>1
          <6>2. CASE i = n + 1
            BY <6>2, <3>1, <3>3
          <6>3. QED BY <3>1, <6>1, <6>2
        <5>2. QED BY <4>2, <5>1
      <4>4. \A i \in 1..n : dest[versions[a][i].upload].files \in Contents
        <5>1. ASSUME NEW i \in 1..n
              PROVE  dest[versions[a][i].upload].files \in Contents
          <6>1. versions[a][i] \in VersionRows
            BY <2>a
          <6>2. versions[a][i].upload \in Uploads
            BY <6>1 DEF VersionRows
          <6>3. QED BY <1>2, <6>2 DEF TypeOK, Dests
        <5>2. QED BY <5>1
      <4>5. Served[a] \in Seq(Contents) /\ Len(Served[a]) = n
        BY <3>1, <4>1, <4>4
      <4>6. QED BY <3>1, <4>1, <4>3, <4>5
    <3>5. \A b \in Uploads \ {a} : Served'[b] = Served[b]
      BY <3>2, <2>b DEF Served
    <3>6. Served' = [Served EXCEPT ![a] = Append(@, c)]
      BY <3>4, <3>5 DEF Served
    <3>7. c \in {Content(b) : b \in Bundles}
      BY DEF VersionRows
    <3>8. QED BY <3>6, <3>7 DEF History!Next, History!Publish
  <2>3. QED BY <1>2, <2>1, <2>2, VersionsGrow
<1>3. TypeOK /\ VersionIntact /\ VersionIntact' /\ [Next]_vars => [History!Next]_Served
  BY <1>2
<1>4. QED BY <1>1, <1>3, TypeCorrect, PTL
          DEF Spec, ImplementsHistory, History!Spec
-----------------------------------------------------------------------------
(* The stage protocol, on both backends.                                   *)

\* A whole bundle has no file that is still being copied.
LEMMA FillWhole ==
    ASSUME NEW b \in Bundles
    PROVE  /\ \A r \in Reqs, x \in Bundles \cup {Torn} :
                Fill(Content(b), r, x) = Content(b)
           /\ Abandon(Content(b)) = Content(b)
BY ContentsAssumption DEF Fill, Abandon, Content

\* A handler that creates a file and copies it has extracted one file more.
LEMMA CreateFill ==
    ASSUME NEW r \in Reqs, NEW b \in Bundles, NEW todo, NEW f \in todo,
           todo \subseteq FilesOf[b]
    PROVE  Fill([Written(b, todo) EXCEPT ![f] = r], r, b) = Written(b, todo \ {f})
<1>1. f \in Files /\ f \in FilesOf[b]
  BY FilesOfType
<1>2. r # b /\ r # None
  BY ContentsAssumption
<1>3. \A g \in Files : Written(b, todo)[g] = IF g \in FilesOf[b] \ todo THEN b ELSE None
  BY DEF Written
<1>4. \A g \in Files : [Written(b, todo) EXCEPT ![f] = r][g] =
                         IF g = f THEN r ELSE Written(b, todo)[g]
  BY <1>1 DEF Written
<1>5. \A g \in Files :
         (IF [Written(b, todo) EXCEPT ![f] = r][g] = r
            THEN b ELSE [Written(b, todo) EXCEPT ![f] = r][g])
           = IF g \in FilesOf[b] \ (todo \ {f}) THEN b ELSE None
  BY <1>1, <1>2, <1>3, <1>4
<1>6. QED BY <1>5 DEF Fill, Written

\* Nothing written is an empty directory, everything written is the bundle.
LEMMA WrittenEnds ==
    ASSUME NEW b \in Bundles
    PROVE  Written(b, FilesOf[b]) = Empty /\ Written(b, {}) = Content(b)
BY DEF Written, Empty, Content

\* The protocol survives a step that moves no handler among those past Mkdir and
\* touches none of their stages.
LEMMA StagingKept ==
    ASSUME Staging,
           \A s \in Reqs : req'[s] = req[s] \/ Knows(req'[s]),
           \A v \in Uploads, s \in Reqs :
             Open(v)' /\ Stager(s, v)' =>
               /\ Open(v) /\ Stager(s, v) /\ req'[s] = req[s]
               /\ stage'[v].dir = stage[v].dir
               /\ stage'[v].zip = stage[v].zip
               /\ stage'[v].files = stage[v].files
    PROVE  Staging'
<1>1. Handlers'
  BY DEF Staging, Handlers, Knows
<1>2. SoleStager'
  BY DEF Staging, SoleStager
<1>3. StagerOwns'
  <2> SUFFICES ASSUME NEW v \in Uploads, NEW s \in Reqs, Open(v)', Stager(s, v)'
               PROVE  Owns(s, v)'
    BY DEF StagerOwns
  <2>1. Owns(s, v)
    BY DEF Staging, StagerOwns
  <2>2. QED BY <2>1 DEF Owns, Fill, Written, Content
<1>4. QED BY <1>1, <1>2, <1>3 DEF Staging

\* It survives a step of the one handler that holds a stage, or takes it.
LEMMA StagerMoves ==
    ASSUME Staging, NEW r \in Reqs, NEW u \in Uploads,
           Stager(r, u) \/ (Open(u) => \A s \in Reqs : ~Stager(s, u)),
           req'[r].upload = u, Knows(req'[r]),
           \A s \in Reqs \ {r} : req'[s] = req[s],
           \A v \in Uploads : Open(v)' => Open(v),
           \A v \in Uploads \ {u} : stage'[v] = stage[v],
           Open(u) => Owns(r, u)'
    PROVE  Staging'
<1>1. Handlers'
  BY DEF Staging, Handlers, Knows
<1>2. ASSUME NEW v \in Uploads, NEW s \in Reqs, s # r, Open(v)', Stager(s, v)'
      PROVE  Open(v) /\ Stager(s, v) /\ v # u
  BY <1>2 DEF Staging, SoleStager, Stager
<1>3. SoleStager'
  <2> SUFFICES ASSUME NEW v \in Uploads, NEW s \in Reqs, NEW t \in Reqs,
                      Open(v)', Stager(s, v)', Stager(t, v)'
               PROVE  s = t
    BY DEF SoleStager
  <2>1. CASE s = r \/ t = r
    BY <1>2, <2>1 DEF Stager
  <2>2. CASE s # r /\ t # r
    BY <1>2, <2>2 DEF Staging, SoleStager
  <2>3. QED BY <2>1, <2>2
<1>4. StagerOwns'
  <2> SUFFICES ASSUME NEW v \in Uploads, NEW s \in Reqs, Open(v)', Stager(s, v)'
               PROVE  Owns(s, v)'
    BY DEF StagerOwns
  <2>1. CASE s = r
    BY <2>1 DEF Stager
  <2>2. CASE s # r
    <3>1. Owns(s, v) /\ v # u
      BY <1>2, <2>2 DEF Staging, StagerOwns
    <3>2. stage'[v] = stage[v] /\ req'[s] = req[s]
      BY <2>2, <3>1
    <3>3. QED BY <3>1, <3>2 DEF Owns, Fill, Written, Content
  <2>3. QED BY <2>1, <2>2
<1>5. QED BY <1>1, <1>3, <1>4 DEF Staging

\* A handler past Mkdir that leaves its directory in place has nothing more to know
\* about it before it removes it.
LEMMA GiveUpStaging ==
    ASSUME TypeOK, Staging, NEW r \in Reqs,
           req[r].pc \in {"extract", "copy", "mark"}, Goto(r, "cleanup"),
           \A v \in Uploads : Open(v)' => Open(v),
           \A v \in Uploads \ {req[r].upload} : stage'[v] = stage[v],
           stage'[req[r].upload].dir = stage[req[r].upload].dir
    PROVE  Staging'
<1> DEFINE u == req[r].upload
<1>1. u \in Uploads /\ Stager(r, u) /\ req[r].bundle \in Bundles
  BY Busy DEF Stager
<1>2. /\ req'[r].pc = "cleanup" /\ req'[r].upload = u
      /\ req'[r].bundle = req[r].bundle
      /\ \A s \in Reqs \ {r} : req'[s] = req[s]
  BY GotoEffect
<1>3. Knows(req'[r])
  BY <1>1, <1>2 DEF Knows
<1>4. Open(u) => Owns(r, u)
  BY <1>1 DEF Staging, StagerOwns
<1>5. Open(u) => Owns(r, u)'
  BY <1>2, <1>4 DEF Owns
<1>6. QED BY <1>1, <1>2, <1>3, <1>5, StagerMoves

\* Every step of putUpload keeps to the protocol: Mkdir admits one handler, which
\* finds in the directory what it has written there.
LEMMA PutStaging ==
    ASSUME TypeOK, Staging, NEW r \in Reqs, Put(r) PROVE Staging'
<1> DEFINE u == req[r].upload
           b == req[r].bundle
<1> USE IdleValues
<1>k. Knows(req[r]) /\ Knows(Idle)
  BY DEF Staging, Handlers, Knows
<1>1. ASSUME NEW v \in Uploads, NEW c \in Bundles, PutLookup(r, v, c)
      PROVE  Staging'
  <2>1. /\ UNCHANGED <<row, stage>>
        /\ req'[r] = [pc |-> "mkdir", upload |-> v, bundle |-> c, todo |-> FilesOf[c]]
        /\ \A s \in Reqs \ {r} : req'[s] = req[s]
    BY <1>1 DEF TypeOK, PutLookup, db
  <2>2. Knows(req'[r])
    BY <2>1 DEF Knows
  <2>3. QED BY <2>1, <2>2, StagingKept DEF Stager, Open
<1>2. CASE PutMkdir(r)
  <2>a. u \in Uploads /\ b \in Bundles /\ UNCHANGED row
    BY <1>2, Busy DEF PutMkdir, db
  <2>1. CASE stage[u].dir
    <3>1. /\ UNCHANGED stage /\ req'[r] = Idle
          /\ \A s \in Reqs \ {r} : req'[s] = req[s]
      BY <1>2, <2>1, ReplyEffect DEF PutMkdir
    <3>2. QED BY <1>k, <2>a, <3>1, StagingKept DEF Stager, Open
  <2>2. CASE ~stage[u].dir
    <3>1. /\ req'[r].pc = "extract" /\ req'[r].upload = u
          /\ req'[r].bundle = b /\ req'[r].todo = FilesOf[b]
          /\ \A s \in Reqs \ {r} : req'[s] = req[s]
      BY <1>2, <1>k, <2>2, GotoEffect DEF PutMkdir, Knows
    <3>2. stage'[u] = NewStage /\ \A v \in Uploads \ {u} : stage'[v] = stage[v]
      BY <1>2, <2>2, <2>a DEF PutMkdir, TypeOK
    <3>3. Open(u) => \A s \in Reqs : ~Stager(s, u)
      BY <2>2, <2>a DEF Staging, StagerOwns, Owns
    <3>4. Knows(req'[r])
      BY <2>a, <3>1 DEF Knows
    <3>5. Owns(r, u)'
      BY <2>a, <3>1, <3>2, WrittenEnds DEF Owns, NewStage
    <3>6. QED BY <2>a, <3>1, <3>2, <3>3, <3>4, <3>5, StagerMoves DEF Open
  <2>3. QED BY <2>1, <2>2
<1>3. CASE PutCreate(r)
  <2>a. /\ u \in Uploads /\ b \in Bundles /\ UNCHANGED row /\ Stager(r, u)
        /\ req[r] \in Active /\ req[r].todo \subseteq FilesOf[b]
    BY <1>3, <1>k, Busy DEF PutCreate, db, Stager, Knows
  <2>1. CASE Goto(r, "cleanup") /\ UNCHANGED stage
    BY <1>3, <2>a, <2>1, GiveUpStaging DEF PutCreate, Open
  <2>2. ASSUME NEW f \in req[r].todo,
               stage' = [stage EXCEPT ![u].files[f] = r, ![u].dir = TRUE],
               req' = [req EXCEPT ![r].pc = "copy", ![r].todo = @ \ {f}]
        PROVE  Staging'
    <3>1. /\ req'[r].pc = "copy" /\ req'[r].upload = u
          /\ req'[r].bundle = b /\ req'[r].todo = req[r].todo \ {f}
          /\ \A s \in Reqs \ {r} : req'[s] = req[s]
      <4>1. req'[r] = [req[r] EXCEPT !.pc = "copy", !.todo = @ \ {f}]
        BY <2>2 DEF TypeOK
      <4>2. QED BY <2>a, <2>2, <4>1 DEF TypeOK, Active
    <3>2. /\ stage'[u].dir /\ stage'[u].zip = stage[u].zip
          /\ stage'[u].files = [stage[u].files EXCEPT ![f] = r]
          /\ \A v \in Uploads \ {u} : stage'[v] = stage[v]
      <4>1. stage[u] \in Stages
        BY <2>a DEF TypeOK
      <4>2. stage'[u] = [stage[u] EXCEPT !.files[f] = r, !.dir = TRUE]
        BY <2>a, <2>2 DEF TypeOK
      <4>3. QED BY <2>a, <2>2, <4>1, <4>2 DEF TypeOK, Stages
    <3>3. Knows(req'[r])
      BY <2>a, <3>1 DEF Knows
    <3>4. Open(u) => Owns(r, u)'
      <4>1. Open(u) => stage[u].zip /\ stage[u].files = Written(b, req[r].todo)
        BY <1>3, <2>a DEF Staging, StagerOwns, Owns, PutCreate
      <4>2. Open(u) => Fill(stage'[u].files, r, b) = Written(b, req'[r].todo)
        <5>1. Fill([Written(b, req[r].todo) EXCEPT ![f] = r], r, b)
                = Written(b, req[r].todo \ {f})
          <6> DEFINE t == req[r].todo
          <6>1. b \in Bundles /\ f \in t /\ t \subseteq FilesOf[b]
            BY <2>a, <2>2
          <6> HIDE DEF t, b
          <6>2. Fill([Written(b, t) EXCEPT ![f] = r], r, b) = Written(b, t \ {f})
            BY <6>1, CreateFill
          <6>3. QED BY <6>2 DEF t, b
        <5>2. QED BY <3>1, <3>2, <4>1, <5>1
      <4>3. QED BY <3>1, <3>2, <4>1, <4>2 DEF Owns, Fill, Written
    <3>5. QED BY <2>a, <3>1, <3>2, <3>3, <3>4, StagerMoves DEF Open
  <2>3. QED BY <1>3, <2>1, <2>2 DEF PutCreate
<1>4. CASE PutCopy(r)
  <2>a. /\ u \in Uploads /\ b \in Bundles /\ UNCHANGED row /\ Stager(r, u)
        /\ req[r].todo \subseteq FilesOf[b]
    BY <1>4, <1>k, Busy DEF PutCopy, db, Stager, Knows
  <2>1. /\ req'[r].pc = "extract" /\ req'[r].upload = u
        /\ req'[r].bundle = b /\ req'[r].todo = req[r].todo
        /\ \A s \in Reqs \ {r} : req'[s] = req[s]
    BY <1>4, GotoEffect DEF PutCopy
  <2>2. /\ stage'[u].dir = stage[u].dir /\ stage'[u].zip = stage[u].zip
        /\ stage'[u].files = Fill(stage[u].files, r, b)
        /\ \A v \in Uploads \ {u} : stage'[v] = stage[v]
    <3>1. b \in Bundles \cup {Torn}
      BY <2>a
    <3>2. /\ stage' = [stage EXCEPT ![u].files = Fill(@, r, b)]
          /\ dest' = [dest EXCEPT ![u].files = Fill(@, r, b)]
      BY <1>4 DEF PutCopy
    <3>3. u \in Uploads
      BY <2>a
    <3> HIDE DEF b, u
    <3>4. QED BY <3>1, <3>2, <3>3, FillEffect
  <2>3. Knows(req'[r])
    BY <2>a, <2>1 DEF Knows
  <2>4. Open(u) => Owns(r, u)'
    <3>1. Open(u) => /\ stage[u].dir /\ stage[u].zip
                     /\ Fill(stage[u].files, r, b) = Written(b, req[r].todo)
      BY <1>4, <2>a DEF Staging, StagerOwns, Owns, PutCopy
    <3>2. QED BY <2>1, <2>2, <3>1 DEF Owns, Written
  <2>5. QED BY <2>a, <2>1, <2>2, <2>3, <2>4, StagerMoves DEF Open
<1>5. CASE PutFinish(r)
  <2>a. u \in Uploads /\ b \in Bundles /\ UNCHANGED row /\ Stager(r, u)
    BY <1>5, Busy DEF PutFinish, db, Stager
  <2>1. CASE ~(stage[u].dir /\ stage[u].zip)
    BY <1>5, <2>a, <2>1, GiveUpStaging DEF PutFinish, Open
  <2>2. CASE stage[u].dir /\ stage[u].zip
    <3>1. /\ req'[r].pc = "mark" /\ req'[r].upload = u /\ req'[r].bundle = b
          /\ \A s \in Reqs \ {r} : req'[s] = req[s]
      BY <1>5, <2>2, GotoEffect DEF PutFinish
    <3>2. /\ stage'[u].dir /\ stage'[u].files = stage[u].files
          /\ \A v \in Uploads \ {u} : stage'[v] = stage[v]
      <4>1. stage[u] \in Stages
        BY <2>a DEF TypeOK
      <4>2. stage'[u] = [stage[u] EXCEPT !.zip = FALSE, !.age = 0]
        BY <1>5, <2>a, <2>2 DEF TypeOK, PutFinish
      <4>3. QED BY <1>5, <2>a, <2>2, <4>1, <4>2 DEF TypeOK, Stages, PutFinish
    <3>3. Knows(req'[r])
      BY <2>a, <3>1 DEF Knows
    <3>4. Open(u) => Owns(r, u)'
      <4>1. Open(u) => stage[u].files = Written(b, req[r].todo)
        BY <1>5, <2>a DEF Staging, StagerOwns, Owns, PutFinish
      <4>2. req[r].todo = {}
        BY <1>5 DEF PutFinish
      <4>3. QED BY <2>a, <3>1, <3>2, <4>1, <4>2, WrittenEnds DEF Owns, Content
    <3>5. QED BY <2>a, <3>1, <3>2, <3>3, <3>4, StagerMoves DEF Open
  <2>3. QED BY <2>1, <2>2
<1>6. CASE PutStageError(r)
  <2>1. u \in Uploads /\ UNCHANGED row
    BY <1>6, Busy DEF PutStageError, db
  <2>2. /\ stage'[u].dir = stage[u].dir
        /\ \A v \in Uploads \ {u} : stage'[v] = stage[v]
    BY <1>6, <2>1, FillEffect DEF PutStageError
  <2>3. QED BY <1>6, <2>1, <2>2, GiveUpStaging DEF PutStageError, Open
<1>7. CASE PutMark(r)
  <2>a. u \in Uploads /\ UNCHANGED stage
    BY <1>7, Busy DEF PutMark
  <2>1. \A v \in Uploads : Open(v)' <=> Open(v)
    <3>1. row[u] \in Rows
      BY <2>a DEF TypeOK
    <3>2. \A v \in Uploads : row'[v].state = row[v].state /\ row'[v].version = row[v].version
      BY <1>7, <2>a, <3>1 DEF PutMark, TypeOK, Rows
    <3>3. QED BY <3>2 DEF Open
  <2>2. CASE Reply(r)
    <3>1. req'[r] = Idle /\ \A s \in Reqs \ {r} : req'[s] = req[s]
      BY <2>2, ReplyEffect
    <3>2. QED BY <1>k, <2>a, <2>1, <3>1, StagingKept DEF Stager
  <2>3. CASE Goto(r, "cleanup")
    BY <1>7, <2>a, <2>1, <2>3, GiveUpStaging DEF PutMark
  <2>4. QED BY <1>7, <2>2, <2>3 DEF PutMark
<1>8. CASE PutCleanup(r)
  <2>a. u \in Uploads /\ UNCHANGED row /\ Stager(r, u)
    BY <1>8, Busy DEF PutCleanup, db, Stager
  <2>1. req'[r] = Idle /\ \A s \in Reqs \ {r} : req'[s] = req[s]
    BY <1>8, ReplyEffect DEF PutCleanup
  <2>2. \A v \in Uploads \ {u} : stage'[v] = stage[v]
    BY <1>8 DEF PutCleanup, TypeOK
  <2>3. ASSUME NEW v \in Uploads, NEW s \in Reqs, Open(v)', Stager(s, v)'
        PROVE  Open(v) /\ Stager(s, v) /\ req'[s] = req[s] /\ v # u
    <3>1. s # r /\ Open(v) /\ Stager(s, v)
      BY <2>a, <2>1, <2>3 DEF Stager, Open
    <3>2. QED BY <2>a, <2>1, <3>1 DEF Staging, SoleStager
  <2>4. QED BY <1>k, <2>1, <2>2, <2>3, StagingKept
<1>9. QED BY <1>1, <1>2, <1>3, <1>4, <1>5, <1>6, <1>7, <1>8 DEF Put

\* A commit keeps to it when it takes no stage from under a PUT.
LEMMA CommitStaging ==
    ASSUME TypeOK, Staging, NEW r \in Reqs, Commit(r),
           \A v \in Uploads, s \in Reqs :
             Open(v) /\ Stager(s, v) => stage'[v] = stage[v]
    PROVE  Staging'
<1>k. Knows(req[r]) /\ Knows(Idle)
  BY DEF Staging, Handlers, Knows, Idle
<1>1. ASSUME NEW usr \in Users, NEW u \in Uploads, CommitLookup(r, usr, u)
      PROVE  Staging'
  <2>1. /\ UNCHANGED row /\ row[u].staged \in Bundles
        /\ req'[r] = [pc |-> "publish", upload |-> u, bundle |-> row[u].staged, todo |-> {}]
        /\ \A s \in Reqs \ {r} : req'[s] = req[s]
    BY <1>1 DEF TypeOK, Rows, CommitLookup, db
  <2>2. Knows(req'[r])
    BY <2>1 DEF Knows
  <2>3. QED BY <2>1, <2>2, StagingKept DEF Stager, Open
<1>2. ASSUME req[r].pc \in {"publish", "put", "commit"},
             \/ Reply(r)
             \/ Goto(r, "commit")
             \/ \E t : req' = [req EXCEPT ![r].pc = "put", ![r].todo = t],
             \A v \in Uploads : Open(v)' => Open(v)
      PROVE  Staging'
  <2>1. req[r] \in Active
    BY <1>2, Busy
  <2>2. /\ req'[r].pc \notin {"mkdir", "extract", "copy", "mark", "cleanup"}
        /\ Knows(req'[r])
        /\ \A s \in Reqs \ {r} : req'[s] = req[s]
    <3>1. CASE Reply(r)
      BY <1>k, <3>1, ReplyEffect DEF Idle
    <3>2. CASE Goto(r, "commit")
      <4>1. /\ req'[r].pc = "commit" /\ req'[r].upload = req[r].upload
            /\ req'[r].bundle = req[r].bundle
            /\ \A s \in Reqs \ {r} : req'[s] = req[s]
        BY <1>2, <3>2, GotoEffect
      <4>2. QED BY <2>1, <4>1 DEF Knows, Active
    <3>3. ASSUME NEW t, req' = [req EXCEPT ![r].pc = "put", ![r].todo = t]
          PROVE  /\ req'[r].pc = "put" /\ req'[r].upload = req[r].upload
                 /\ req'[r].bundle = req[r].bundle
                 /\ \A s \in Reqs \ {r} : req'[s] = req[s]
      <4>1. req'[r] = [req[r] EXCEPT !.pc = "put", !.todo = t]
        BY <3>3 DEF TypeOK
      <4>2. QED BY <2>1, <3>3, <4>1 DEF TypeOK, Active
    <3>4. QED BY <1>2, <2>1, <3>1, <3>2, <3>3 DEF Knows, Active
  <2>3. QED BY <1>2, <2>2, StagingKept DEF Stager
<1>3. \A v \in Uploads : Open(v)' => Open(v)
  <2>1. CASE CommitVersion(r)
    <3>1. req[r].upload \in Uploads
      BY <2>1, Busy DEF CommitVersion
    <3>2. \A v \in Uploads \ {req[r].upload} : row'[v] = row[v]
      BY <2>1 DEF CommitVersion, TypeOK
    <3>3. Open(req[r].upload)
      BY <2>1 DEF CommitVersion, Open
    <3>4. QED BY <3>2, <3>3 DEF Open
  <2>2. CASE ~CommitVersion(r)
    <3>1. UNCHANGED row
      BY <2>2 DEF Commit, CommitLookup, PublishFs, PublishS3Walk, PublishS3Put,
                  PublishS3Done, CommitError, db
    <3>2. QED BY <3>1 DEF Open
  <2>3. QED BY <2>1, <2>2
<1>4. CASE PublishFs(r)
  BY <1>2, <1>3, <1>4 DEF PublishFs
<1>5. CASE PublishS3Walk(r)
  BY <1>2, <1>3, <1>5 DEF PublishS3Walk
<1>6. CASE PublishS3Put(r)
  <2>1. req[r] \in Active /\ req[r].pc = "put"
    BY <1>6, Busy DEF PublishS3Put
  <2>2. ASSUME NEW f, req' = [req EXCEPT ![r].todo = @ \ {f}]
        PROVE  req' = [req EXCEPT ![r].pc = "put", ![r].todo = req[r].todo \ {f}]
    <3>1. [req[r] EXCEPT !.todo = @ \ {f}] =
            [req[r] EXCEPT !.pc = "put", !.todo = req[r].todo \ {f}]
      BY <2>1 DEF Active
    <3>2. QED BY <2>2, <3>1 DEF TypeOK
  <2>3. QED BY <1>2, <1>3, <1>6, <2>2 DEF PublishS3Put
<1>7. CASE PublishS3Done(r)
  BY <1>2, <1>3, <1>7 DEF PublishS3Done
<1>8. CASE CommitVersion(r)
  BY <1>2, <1>3, <1>8 DEF CommitVersion
<1>9. CASE CommitError(r)
  BY <1>2, <1>3, <1>9 DEF CommitError
<1>10. QED BY <1>1, <1>4, <1>5, <1>6, <1>7, <1>8, <1>9 DEF Commit

\* Maintenance, time, administrators and crashes keep to it, and new sessions do.
LEMMA OtherStaging ==
    ASSUME TypeOK, Stores, Staging,
           \/ \E usr \in Users, u \in Uploads, a \in Uploads \cup {None} :
                CreateUpload(usr, u, a)
           \/ Maintenance
           \/ \E a \in Uploads : AdminDeleteArtifact(a)
           \/ Tick \/ Crash \/ UNCHANGED vars
    PROVE  Staging'
<1>1. ASSUME NEW usr \in Users, NEW u \in Uploads, NEW a \in Uploads \cup {None},
             CreateUpload(usr, u, a)
      PROVE  Staging'
  <2>1. /\ UNCHANGED <<stage, req>> /\ row[u].state = "none"
        /\ \A v \in Uploads \ {u} : row'[v] = row[v]
    BY <1>1 DEF TypeOK, CreateUpload, NoRow
  <2>2. \A r \in Reqs : req[r].upload # u
    BY <2>1 DEF Stores, Fresh
  <2>3. QED BY <2>1, <2>2, StagingKept DEF Stager, Open
<1>2. CASE Maintenance
  <2>1. UNCHANGED req
    BY <1>2 DEF Maintenance, MaintCleanup, MaintList, MaintDone, MaintRemove, MaintSweep
  <2>2. \A v \in Uploads : Open(v)' => Open(v)
    <3>1. CASE MaintCleanup
      BY <3>1 DEF MaintCleanup, Open, GoneRow, NoRow
    <3>2. CASE ~MaintCleanup
      BY <1>2, <3>2 DEF Maintenance, MaintList, MaintDone, MaintRemove, MaintSweep, db, Open
    <3>3. QED BY <3>1, <3>2
  <2>3. \A v \in Uploads : Open(v) => stage'[v] = stage[v]
    <3>1. ASSUME NEW u \in Uploads, MaintRemove(u) \/ MaintSweep(u)
          PROVE  \A v \in Uploads : Open(v) => stage'[v] = stage[v]
      <4>1. CASE stage' # stage
        <5>1. stage' = [stage EXCEPT ![u] = NoStage] /\ u \in maint.ids \cup maint.old
          BY <3>1, <4>1 DEF MaintRemove, MaintSweep
        <5>2. ~Open(u)
          BY <5>1 DEF Stores, Condemned, Open
        <5>3. QED BY <5>1, <5>2 DEF TypeOK
      <4>2. QED BY <4>1
    <3>2. QED BY <1>2, <3>1 DEF Maintenance, MaintCleanup, MaintList, MaintDone
  <2>4. QED BY <2>1, <2>2, <2>3, StagingKept DEF Stager
<1>3. CASE Tick
  <2>1. /\ UNCHANGED req
        /\ \A v \in Uploads : /\ row'[v].state = row[v].state
                              /\ row'[v].version = row[v].version
                              /\ stage'[v].dir = stage[v].dir
                              /\ stage'[v].files = stage[v].files
                              /\ stage'[v].zip = stage[v].zip
    BY <1>3, TickEffect DEF Tick
  <2>2. QED BY <2>1, StagingKept DEF Stager, Open
<1>4. CASE Crash
  <2>1. \A r \in Reqs : req'[r] = Idle
    BY <1>4 DEF Crash
  <2>2. QED BY <2>1, IdleValues, StagingKept DEF Stager, Knows
<1>5. CASE UNCHANGED <<row, stage, req>>
  BY <1>5, StagingKept DEF Stager, Open
<1>6. QED BY <1>1, <1>2, <1>3, <1>4, <1>5 DEF AdminDeleteArtifact, vars

-----------------------------------------------------------------------------
(* The filesystem backend.                                                 *)

\* Only the handler past Mkdir works on the stage of an open session.
LEMMA Alone ==
    ASSUME IInv, NEW r \in Reqs, NEW u \in Uploads, Stager(r, u), Open(u)
    PROVE  /\ \A s \in Reqs \ {r} : ~Stager(s, u)
           /\ stage[u].dir
           /\ row[u].staged # None => dest[u] = Whole(row[u].staged)
BY DEF IInv, FsInv, Staging, SoleStager, StagerOwns, Owns, Safe

\* Published directories that stay whole carry VersionIntact along.
LEMMA VersionsKept ==
    ASSUME TypeOK, VersionIntact, UNCHANGED versions,
           \A u \in Uploads, b \in Bundles : dest[u] = Whole(b) => dest'[u] = Whole(b)
    PROVE  VersionIntact'
<1> SUFFICES ASSUME NEW a \in Uploads, NEW i \in 1..Len(versions[a])
             PROVE  dest'[versions[a][i].upload] =
                      [dir |-> TRUE, files |-> Content(versions[a][i].bundle)]
  BY DEF VersionIntact, Content
<1>1. versions[a][i] \in VersionRows
  BY DEF TypeOK
<1>2. versions[a][i].upload \in Uploads /\ versions[a][i].bundle \in Bundles
  BY <1>1 DEF VersionRows
<1>3. dest[versions[a][i].upload] = Whole(versions[a][i].bundle)
  BY DEF VersionIntact, Whole
<1>4. QED BY <1>2, <1>3 DEF Whole

\* A whole object directory stays whole when an open file is closed.
LEMMA FilledWhole ==
    ASSUME TypeOK, NEW r \in Reqs, NEW u \in Uploads, NEW x \in Bundles \cup {Torn},
           stage' = [stage EXCEPT ![u].files = Fill(@, r, x)],
           dest' = [dest EXCEPT ![u].files = Fill(@, r, x)]
    PROVE  \A v \in Uploads, b \in Bundles : dest[v] = Whole(b) => dest'[v] = Whole(b)
<1> SUFFICES ASSUME NEW b \in Bundles, dest[u] = Whole(b) PROVE dest'[u] = Whole(b)
  BY FillEffect
<1>1. /\ dest'[u] \in Dests /\ dest'[u].dir = dest[u].dir
      /\ dest'[u].files = Fill(dest[u].files, r, x)
  BY FillEffect
<1>2. dest[u].dir /\ dest[u].files = Content(b)
  BY DEF Whole
<1>3. Fill(Content(b), r, x) = Content(b)
  BY FillWhole
<1>4. dest'[u].dir = TRUE /\ dest'[u].files = Content(b)
  BY <1>1, <1>2, <1>3 DEF Dests
<1>5. dest'[u] = [dir |-> TRUE, files |-> Content(b)]
  BY <1>1, <1>4 DEF Dests
<1>6. QED BY <1>5 DEF Whole, Content

-----------------------------------------------------------------------------
(* Steps that only end requests, or forget what maintenance was to do.     *)

\* The invariant survives a step that leaves rows, directories and versions alone.
LEMMA QuietStep ==
    ASSUME IInv, Stores', Staging', UNCHANGED <<row, stage, dest, versions>>,
           \A r \in Reqs : req'[r] = req[r] \/ req'[r] = Idle
    PROVE  FsInv'
<1> USE IdleValues
<1>1. Safe'
  BY DEF IInv, FsInv, Safe, Stager, Open, Complete, Content, Whole
<1>2. Committers'
  BY DEF IInv, FsInv, Committers, Stager, Open, Content, Whole
<1>3. VersionIntact'
  BY DEF IInv, FsInv, VersionIntact, Content
<1>4. QED BY <1>1, <1>2, <1>3 DEF FsInv

\* The death of the process keeps the invariant: what is whole has no open file.
LEMMA CrashStep ==
    ASSUME IInv, Stores', Staging', Crash PROVE FsInv'
<1>0. UNCHANGED <<row, versions>> /\ \A r \in Reqs : req'[r] = Idle
  BY DEF Crash, db
<1>1. \A u \in Uploads, b \in Bundles :
         /\ dest[u] = Whole(b) => dest'[u] = Whole(b)
         /\ Complete(u, b) => Complete(u, b)'
  <2> SUFFICES ASSUME NEW u \in Uploads, NEW b \in Bundles
               PROVE  /\ dest[u] = Whole(b) => dest'[u] = Whole(b)
                      /\ Complete(u, b) => Complete(u, b)'
    OBVIOUS
  <2>1. /\ stage'[u].dir = stage[u].dir
        /\ stage'[u].files = Abandon(stage[u].files)
        /\ dest'[u] = [dest[u] EXCEPT !.files = Abandon(dest[u].files)]
    BY CrashEffect DEF IInv
  <2>2. Abandon(Content(b)) = Content(b)
    BY FillWhole
  <2>3. QED BY <2>1, <2>2 DEF Whole, Complete, Content
<1>2. Safe'
  <2>1. \A u \in Uploads : row[u].staged \in Bundles \cup {None}
    BY DEF IInv, TypeOK, Rows
  <2>2. QED BY <1>0, <1>1, <2>1, IdleValues
            DEF IInv, FsInv, Safe, Stager, Open, Complete, Content, Whole
<1>3. Committers'
  BY <1>0, IdleValues DEF Committers
<1>4. VersionIntact'
  BY <1>0, <1>1, VersionsKept DEF IInv, FsInv
<1>5. QED BY <1>2, <1>3, <1>4 DEF FsInv

\* A stage is removed by maintenance: its session is gone.
LEMMA RemovalStep ==
    ASSUME IInv, Stores', Staging', UNCHANGED <<row, dest, versions, req>>,
           NEW u \in Uploads, row[u].state = "gone",
           stage' = [stage EXCEPT ![u] = NoStage]
    PROVE  FsInv'
<1>0. stage'[u] = NoStage /\ \A v \in Uploads \ {u} : stage'[v] = stage[v]
  BY DEF IInv, TypeOK
<1>a. ~Open(u) /\ ~Live(u)
  BY DEF Open, Live
<1>1. Safe'
  BY <1>0, <1>a DEF IInv, FsInv, Safe, Stager, Open, Complete, Content, Whole
<1>2. Committers'
  <2>1. ASSUME NEW r \in Reqs, req[r].pc \in {"publish", "commit"}
        PROVE  req[r].upload \in Uploads
    BY <2>1, Busy DEF IInv
  <2>2. QED BY <1>0, <1>a, <2>1
            DEF IInv, FsInv, Committers, Stager, Open, Content, Whole
<1>3. VersionIntact'
  BY DEF IInv, FsInv, VersionIntact, Content
<1>4. QED BY <1>1, <1>2, <1>3 DEF FsInv

-----------------------------------------------------------------------------
(* createUpload.                                                           *)

\* createUpload keeps the invariant.
LEMMA CreateUploadStep ==
    ASSUME IInv, Stores', Staging', NEW usr \in Users, NEW u \in Uploads,
           NEW a \in Uploads \cup {None}, CreateUpload(usr, u, a)
    PROVE  FsInv'
<1>0. /\ UNCHANGED <<stage, dest, versions, req, maint>>
      /\ row[u].state = "none"
      /\ row'[u].state = "live" /\ row'[u].staged = None
      /\ \A v \in Uploads \ {u} : row'[v] = row[v]
  BY DEF IInv, TypeOK, CreateUpload, NoRow
<1>a. ~stage[u].dir /\ ~dest[u].dir /\ \A r \in Reqs : req[r].upload # u
  BY <1>0 DEF IInv, FsInv, Stores, Fresh
<1>1. Safe'
  BY <1>0, <1>a DEF IInv, FsInv, Safe, Stager, Open, Complete, Content, Whole
<1>2. Committers'
  <2>1. ASSUME NEW r \in Reqs, req[r].pc \in {"publish", "commit"}
        PROVE  req[r].upload \in Uploads \ {u}
    BY <2>1, <1>a, Busy DEF IInv
  <2>2. QED BY <1>0, <2>1
            DEF IInv, FsInv, Committers, Stager, Open, Content, Whole
<1>3. VersionIntact'
  <2>1. UNCHANGED <<dest, versions>>
    BY <1>0
  <2>2. QED BY <2>1, VersionsKept DEF IInv, FsInv, Whole, Content
<1>4. QED BY <1>1, <1>2, <1>3 DEF FsInv

-----------------------------------------------------------------------------
(* putUpload.                                                              *)

\* A PUT that found its session keeps the invariant.
LEMMA PutLookupStep ==
    ASSUME IInv, Stores', Staging', NEW r \in Reqs, NEW u \in Uploads, NEW b \in Bundles,
           PutLookup(r, u, b)
    PROVE  FsInv'
<1>0. /\ UNCHANGED <<row, stage, dest, versions, maint>>
      /\ Live(u)
      /\ req'[r] = [pc |-> "mkdir", upload |-> u, bundle |-> b,
                    todo |-> FilesOf[b]]
      /\ \A s \in Reqs \ {r} : req'[s] = req[s]
  BY DEF IInv, TypeOK, PutLookup, db
<1>1. Safe'
  BY <1>0 DEF IInv, FsInv, Safe, Stager, Open, Complete, Content, Whole
<1>2. Committers'
  BY <1>0 DEF IInv, FsInv, Committers, Stager, Open, Content, Whole
<1>3. VersionIntact'
  BY <1>0 DEF IInv, FsInv, VersionIntact, Content
<1>4. QED BY <1>1, <1>2, <1>3 DEF FsInv

\* Mkdir, made or refused, keeps the invariant.
LEMMA PutMkdirStep ==
    ASSUME IInv, Stores', Staging', NEW r \in Reqs, PutMkdir(r) PROVE FsInv'
<1> DEFINE u == req[r].upload
<1>a. u \in Uploads /\ req[r].bundle \in Bundles
  BY Busy DEF IInv, PutMkdir
<1>b. CASE stage[u].dir
  BY <1>b, ReplyEffect, QuietStep DEF PutMkdir, db, IInv
<1>c. CASE ~stage[u].dir
  <2>0. /\ UNCHANGED <<row, dest, versions>>
        /\ stage'[u] = NewStage
        /\ \A v \in Uploads \ {u} : stage'[v] = stage[v]
    BY <1>a, <1>c DEF PutMkdir, db, IInv, TypeOK
  <2>a. /\ req'[r].pc = "extract"
        /\ req'[r].upload = u
        /\ \A s \in Reqs \ {r} : req'[s] = req[s]
    BY <1>c, GotoEffect DEF PutMkdir, IInv
  <2>b. Open(u) => \A s \in Reqs : ~Stager(s, u)
    BY <1>c, <1>a DEF IInv, FsInv, Staging, StagerOwns, Owns
  <2>1. Safe'
    BY <2>0, <2>a, <2>b, <1>a, <1>c
    DEF IInv, FsInv, Safe, Stager, Open, Complete, Content, Whole
  <2>2. Committers'
    <3>1. ASSUME NEW s \in Reqs \ {r}, req[s].pc = "publish",
                 Open(req[s].upload), req[s].upload \in Uploads
          PROVE  \/ req[s].bundle = row[req[s].upload].staged
                 \/ /\ stage'[req[s].upload].dir /\ dest[req[s].upload].dir
                    /\ \A t \in Reqs : ~Stager(t, req[s].upload)'
      BY <3>1, <2>0, <2>a, <1>c DEF IInv, FsInv, Committers, Stager
    <3>2. ASSUME NEW s \in Reqs, req[s].pc \in {"publish", "commit"}
          PROVE  req[s].upload \in Uploads
      BY <3>2, Busy DEF IInv
    <3>3. QED BY <2>0, <2>a, <3>1, <3>2
              DEF IInv, FsInv, Committers, Open, Content, Whole
  <2>3. VersionIntact'
    BY <2>0 DEF IInv, FsInv, VersionIntact, Content
  <2>4. QED BY <2>1, <2>2, <2>3 DEF FsInv
<1>d. QED BY <1>b, <1>c

\* The handler that holds a stage works on it: what is whole in the object
\* directory stays there.
LEMMA StagerStep ==
    ASSUME IInv, Stores', Staging', NEW r \in Reqs, NEW u \in Uploads, Stager(r, u),
           UNCHANGED <<row, versions>>,
           req'[r].upload = u, req'[r].pc \in {"extract", "copy", "mark", "cleanup"},
           \A s \in Reqs \ {r} : req'[s] = req[s],
           \A v \in Uploads \ {u} : stage'[v] = stage[v] /\ dest'[v] = dest[v],
           \A v \in Uploads, b \in Bundles : dest[v] = Whole(b) => dest'[v] = Whole(b)
    PROVE  FsInv'
<1>a. \A s \in Reqs, v \in Uploads : Stager(s, v)' <=> Stager(s, v)
  BY DEF Stager
<1>b. \A v \in Uploads : row[v].staged \in Bundles \cup {None}
  BY DEF IInv, TypeOK, Rows
<1>1. Safe'
  <2> SUFFICES ASSUME NEW v \in Uploads, Open(v), row[v].staged # None
               PROVE  \/ dest'[v] = Whole(row[v].staged)
                      \/ Complete(v, row[v].staged)' /\ \A s \in Reqs : ~Stager(s, v)
    BY <1>a DEF Safe, Open, Complete, Content, Whole
  <2>1. CASE v = u
    BY <1>b, <2>1, Alone
  <2>2. CASE v # u
    BY <1>b, <2>2 DEF IInv, FsInv, Safe, Complete, Content
  <2>3. QED BY <2>1, <2>2
<1>2. Committers'
  <2>1. ASSUME NEW s \in Reqs, req'[s].pc \in {"publish", "commit"}
        PROVE  /\ req'[s] = req[s] /\ req[s].upload \in Uploads
               /\ req[s].bundle \in Bundles
    BY <2>1, Busy DEF IInv
  <2>2. ASSUME NEW s \in Reqs, req[s].pc = "publish", Open(req[s].upload),
               req[s].upload \in Uploads
        PROVE  \/ req[s].bundle = row[req[s].upload].staged
               \/ /\ req[s].upload # u
                  /\ stage[req[s].upload].dir /\ dest[req[s].upload].dir
                  /\ \A t \in Reqs : ~Stager(t, req[s].upload)
    BY <2>2 DEF IInv, FsInv, Committers
  <2>3. ASSUME NEW s \in Reqs, req[s].pc = "commit", Open(req[s].upload)
        PROVE  dest[req[s].upload] = Whole(req[s].bundle)
    BY <2>3 DEF IInv, FsInv, Committers
  <2>4. ASSUME NEW s \in Reqs, req'[s].pc = "publish", Open(req[s].upload)
        PROVE  \/ req[s].bundle = row[req[s].upload].staged
               \/ /\ stage'[req[s].upload].dir /\ dest'[req[s].upload].dir
                  /\ \A t \in Reqs : ~Stager(t, req[s].upload)
    <3>1. req'[s] = req[s] /\ req[s].upload \in Uploads
      BY <2>1, <2>4
    <3>2. QED BY <2>2, <2>4, <3>1
  <2>5. ASSUME NEW s \in Reqs, req'[s].pc = "commit", Open(req[s].upload)
        PROVE  dest'[req[s].upload] = Whole(req[s].bundle)
    BY <2>1, <2>3, <2>5
  <2>6. QED BY <1>a, <2>1, <2>4, <2>5 DEF Committers, Open, Content, Whole
<1>3. VersionIntact'
  BY VersionsKept DEF IInv, FsInv
<1>4. QED BY <1>1, <1>2, <1>3 DEF FsInv

\* Extracting entries, finishing and giving up keep the invariant.
LEMMA PutStagerStep ==
    ASSUME IInv, Stores', Staging', NEW r \in Reqs,
           \/ PutCreate(r) \/ PutCopy(r) \/ PutFinish(r) \/ PutStageError(r)
           \/ req[r].pc = "mark" /\ Goto(r, "cleanup")
              /\ UNCHANGED <<row, stage, dest, versions>>
    PROVE  FsInv'
<1> DEFINE u == req[r].upload
<1>1. /\ u \in Uploads /\ Stager(r, u) /\ UNCHANGED <<row, versions>>
      /\ req[r].bundle \in Bundles /\ req[r] \in Active
  <2>1. req[r].pc \in {"extract", "copy", "mark"}
    BY DEF PutCreate, PutCopy, PutFinish, PutStageError
  <2>2. UNCHANGED <<row, versions>>
    BY DEF PutCreate, PutCopy, PutFinish, PutStageError, db
  <2>3. QED BY <2>1, <2>2, Busy DEF IInv, Stager
<1>2. /\ req'[r].upload = u /\ req'[r].pc \in {"extract", "copy", "mark", "cleanup"}
      /\ \A s \in Reqs \ {r} : req'[s] = req[s]
  <2>1. ASSUME NEW pc \in {"extract", "copy", "mark", "cleanup"}, Goto(r, pc)
        PROVE  /\ req'[r].upload = u
               /\ req'[r].pc \in {"extract", "copy", "mark", "cleanup"}
               /\ \A s \in Reqs \ {r} : req'[s] = req[s]
    <3>1. req[r].pc # "idle"
      BY <1>1 DEF Stager
    <3>2. QED BY <2>1, <3>1, GotoEffect DEF IInv
  <2>2. ASSUME NEW f, req' = [req EXCEPT ![r].pc = "copy", ![r].todo = @ \ {f}]
        PROVE  /\ req'[r].upload = u /\ req'[r].pc = "copy"
               /\ \A s \in Reqs \ {r} : req'[s] = req[s]
    <3>1. req'[r] = [req[r] EXCEPT !.pc = "copy", !.todo = @ \ {f}]
      BY <2>2 DEF IInv, TypeOK
    <3>2. QED BY <1>1, <2>2, <3>1 DEF IInv, TypeOK, Active
  <2>3. QED BY <2>1, <2>2 DEF PutCreate, PutCopy, PutFinish, PutStageError
<1>3. /\ \A v \in Uploads \ {u} : stage'[v] = stage[v] /\ dest'[v] = dest[v]
      /\ \A v \in Uploads, b \in Bundles : dest[v] = Whole(b) => dest'[v] = Whole(b)
  <2>1. CASE PutCopy(r)
    BY <1>1, <2>1, FillEffect, FilledWhole DEF PutCopy, IInv
  <2>2. CASE PutStageError(r)
    BY <1>1, <2>2, FillEffect, FilledWhole DEF PutStageError, IInv
  <2>3. CASE ~PutCopy(r) /\ ~PutStageError(r)
    <3>1. UNCHANGED dest
      BY <2>3 DEF PutCreate, PutFinish
    <3>2. \A v \in Uploads \ {u} : stage'[v] = stage[v]
      BY <2>3 DEF PutCreate, PutFinish, IInv, TypeOK
    <3>3. QED BY <3>1, <3>2
  <2>4. QED BY <2>1, <2>2, <2>3
<1>4. QED BY <1>1, <1>2, <1>3, StagerStep

\* MarkUploadStaged keeps the invariant.
LEMMA PutMarkStep ==
    ASSUME Fs, IInv, Stores', Staging', NEW r \in Reqs, PutMark(r) PROVE FsInv'
<1> DEFINE u == req[r].upload
           b == req[r].bundle
<1>a. /\ u \in Uploads /\ b \in Bundles /\ req[r].pc = "mark"
      /\ UNCHANGED <<stage, dest, versions, maint>>
  BY Busy DEF IInv, PutMark
<1>b. CASE Goto(r, "cleanup") /\ UNCHANGED row
  BY <1>a, <1>b, PutStagerStep
<1>c. CASE /\ Live(u) /\ row[u].version = 0
           /\ row' = [row EXCEPT ![u].staged = b]
           /\ Reply(r)
  <2>0. /\ row'[u].staged = b
        /\ row'[u].state = row[u].state
        /\ row'[u].version = row[u].version
        /\ row'[u].left = row[u].left
        /\ \A v \in Uploads \ {u} : row'[v] = row[v]
    <3>1. row[u] \in Rows
      BY <1>a DEF IInv, TypeOK
    <3>2. row'[u] = [row[u] EXCEPT !.staged = b]
      BY <1>a, <1>c DEF IInv, TypeOK
    <3>3. QED BY <1>a, <1>c, <3>1, <3>2 DEF IInv, TypeOK, Rows
  <2>a. req'[r] = Idle /\ \A s \in Reqs \ {r} : req'[s] = req[s]
    BY <1>c, ReplyEffect DEF IInv
  <2>b. \A v \in Uploads : Open(v)' <=> Open(v)
    BY <2>0 DEF Open
  <2>c. Open(u) /\ Stager(r, u) /\ b # None
    BY <1>a, <1>c, NoneAssumption DEF Open, Live, Stager
  <2>d. /\ \A s \in Reqs \ {r} : ~Stager(s, u)
        /\ stage[u].dir
        /\ row[u].staged # None => dest[u] = Whole(row[u].staged)
    BY <1>a, <2>c, Alone
  <2>e. Complete(u, b)
    BY <1>a, <2>c DEF IInv, FsInv, Staging, StagerOwns, Owns, Complete
  <2>f. \A s \in Reqs, v \in Uploads :
           Stager(s, v)' => s # r /\ v # u /\ Stager(s, v)
    BY <2>a, <2>d, IdleValues DEF Stager
  <2>1. Safe'
    BY <1>a, <2>0, <2>b, <2>e, <2>f
    DEF IInv, FsInv, Safe, Complete, Content, Whole
  <2>2. Committers'
    <3>1. ASSUME NEW s \in Reqs, req'[s].pc \in {"publish", "commit"}
          PROVE  s # r /\ req'[s] = req[s] /\ req[s].upload \in Uploads
                 /\ req[s].bundle # None
      BY <3>1, <2>a, Busy, IdleValues, NoneAssumption DEF IInv
    <3>2. ASSUME NEW s \in Reqs, s # r, req[s].pc = "publish",
                 req[s].upload = u, req[s].bundle # None
          PROVE  stage[u].dir /\ dest[u].dir
      <4>1. row[u].staged # None
        BY <3>2, <2>c DEF IInv, FsInv, Committers
      <4>2. QED BY <2>d, <4>1 DEF Whole
    <3>3. QED BY <1>a, <2>0, <2>b, <2>f, <3>1, <3>2
              DEF IInv, FsInv, Committers, Content, Whole
  <2>3. VersionIntact'
    BY <1>a DEF IInv, FsInv, VersionIntact, Content
  <2>4. QED BY <2>1, <2>2, <2>3 DEF FsInv
<1>d. QED BY <1>b, <1>c DEF PutMark, Fs

\* The cleanup of a failed PUT keeps the invariant.
LEMMA PutCleanupStep ==
    ASSUME IInv, Stores', Staging', NEW r \in Reqs, PutCleanup(r) PROVE FsInv'
<1> DEFINE u == req[r].upload
<1>0. /\ u \in Uploads
      /\ UNCHANGED <<row, dest, versions, maint>>
      /\ stage'[u] = NoStage
      /\ \A v \in Uploads \ {u} : stage'[v] = stage[v]
  BY Busy DEF IInv, TypeOK, PutCleanup, db
<1>a. req'[r] = Idle /\ \A s \in Reqs \ {r} : req'[s] = req[s]
  BY ReplyEffect DEF PutCleanup, IInv
<1>b. Stager(r, u)
  BY DEF Stager, PutCleanup
<1>c. \A s \in Reqs, v \in Uploads : Stager(s, v)' => s # r /\ Stager(s, v)
  BY <1>a, IdleValues DEF Stager
<1>d. Open(u) => /\ \A s \in Reqs \ {r} : ~Stager(s, u)
                 /\ row[u].staged # None => dest[u] = Whole(row[u].staged)
  BY <1>0, <1>b, Alone
<1>1. Safe'
  <2>1. ASSUME NEW v \in Uploads, Open(v), row[v].staged # None
        PROVE  \/ dest[v] = Whole(row[v].staged)
               \/ /\ v # u
                  /\ Complete(v, row[v].staged) /\ \A s \in Reqs : ~Stager(s, v)
    BY <2>1, <1>d DEF IInv, FsInv, Safe
  <2>2. QED BY <1>0, <1>c, <2>1 DEF Safe, Open, Complete, Content, Whole
<1>2. Committers'
  <2>1. ASSUME NEW s \in Reqs, req'[s].pc \in {"publish", "commit"}
        PROVE  req'[s] = req[s] /\ req[s].upload \in Uploads
    BY <2>1, <1>a, Busy, IdleValues DEF IInv
  <2>2. QED BY <1>0, <1>b, <1>c, <2>1
            DEF IInv, FsInv, Committers, Open, Content, Whole
<1>3. VersionIntact'
  BY <1>0 DEF IInv, FsInv, VersionIntact, Content
<1>4. QED BY <1>1, <1>2, <1>3 DEF FsInv

-----------------------------------------------------------------------------
(* commitForUser.                                                          *)

\* A commit that read its session keeps the invariant.
LEMMA CommitLookupStep ==
    ASSUME IInv, Stores', Staging', NEW r \in Reqs, NEW usr \in Users, NEW u \in Uploads,
           CommitLookup(r, usr, u)
    PROVE  FsInv'
<1>0. /\ UNCHANGED <<row, stage, dest, versions, maint>>
      /\ Live(u)
      /\ row[u].staged \in Bundles
      /\ req'[r] = [pc |-> "publish", upload |-> u, bundle |-> row[u].staged,
                    todo |-> {}]
      /\ \A s \in Reqs \ {r} : req'[s] = req[s]
  BY DEF IInv, TypeOK, Rows, CommitLookup, db
<1>a. \A s \in Reqs, v \in Uploads : Stager(s, v)' => Stager(s, v)
  BY <1>0 DEF Stager
<1>1. Safe'
  BY <1>0, <1>a DEF IInv, FsInv, Safe, Open, Complete, Content, Whole
<1>2. Committers'
  BY <1>0 DEF IInv, FsInv, Committers, Stager, Open, Content, Whole
<1>3. VersionIntact'
  BY <1>0 DEF IInv, FsInv, VersionIntact, Content
<1>4. QED BY <1>1, <1>2, <1>3 DEF FsInv

\* A rename publishes the bundle the handler read, or the handler's session is
\* closed; where it finds a published directory, that is its bundle too.
LEMMA Renames ==
    ASSUME IInv, NEW r \in Reqs, req[r].pc = "publish", Open(req[r].upload),
           ~(stage[req[r].upload].dir /\ dest[req[r].upload].dir)
    PROVE  /\ req[r].bundle = row[req[r].upload].staged
           /\ \/ dest[req[r].upload] = Whole(req[r].bundle)
              \/ /\ Complete(req[r].upload, req[r].bundle)
                 /\ \A s \in Reqs : ~Stager(s, req[r].upload)
<1>1. req[r].upload \in Uploads /\ req[r].bundle # None
  BY Busy, NoneAssumption DEF IInv
<1>2. req[r].bundle = row[req[r].upload].staged
  BY DEF IInv, FsInv, Committers
<1>3. QED BY <1>1, <1>2 DEF IInv, FsInv, Safe

\* The rename into the object directory, done or refused, keeps the invariant.
LEMMA PublishFsStep ==
    ASSUME IInv, Stores', NEW r \in Reqs, PublishFs(r) PROVE FsInv'
<1> DEFINE u == req[r].upload
           b == req[r].bundle
<1>a. /\ u \in Uploads /\ b \in Bundles /\ req[r].pc = "publish"
      /\ UNCHANGED <<row, versions, maint>>
  BY Busy DEF IInv, PublishFs, db
<1>b. CASE stage[u].dir = dest[u].dir
  <2>1. Reply(r) /\ UNCHANGED <<stage, dest>>
    BY <1>b DEF PublishFs
  <2>2. Staging'
    BY <2>1, CommitStaging DEF Commit, IInv, FsInv
  <2>3. QED BY <1>a, <2>1, <2>2, ReplyEffect, QuietStep DEF IInv
<1>c. CASE stage[u].dir # dest[u].dir
  <2>0. /\ stage[u].dir \in BOOLEAN /\ dest[u].dir \in BOOLEAN
        /\ \/ /\ stage[u].dir /\ ~dest[u].dir
              /\ dest'[u] = [dir |-> TRUE, files |-> stage[u].files]
              /\ stage'[u] = NoStage
           \/ ~stage[u].dir /\ dest[u].dir /\ UNCHANGED <<stage, dest>>
        /\ \A v \in Uploads \ {u} : stage'[v] = stage[v] /\ dest'[v] = dest[v]
    BY <1>a, <1>c DEF PublishFs, IInv, TypeOK, Stages, Dests
  <2>a. /\ req'[r].pc = "commit" /\ req'[r].upload = u /\ req'[r].bundle = b
        /\ \A s \in Reqs \ {r} : req'[s] = req[s]
    BY <1>a, <1>c, <2>0, GotoEffect DEF PublishFs, IInv
  <2>b. \A s \in Reqs, v \in Uploads : Stager(s, v)' <=> Stager(s, v)
    BY <1>a, <2>a DEF Stager
  <2>c. Open(u) => /\ b = row[u].staged
                   /\ \/ dest[u] = Whole(b)
                      \/ Complete(u, b) /\ \A s \in Reqs : ~Stager(s, u)
    BY <1>a, <2>0, <1>c, Renames
  <2>d. Open(u) => dest'[u] = Whole(b)
    <3>1. CASE stage[u].dir
      <4>1. ~dest[u].dir /\ dest'[u] = [dir |-> TRUE, files |-> stage[u].files]
        BY <2>0, <3>1
      <4>2. dest[u] # Whole(b)
        BY <4>1 DEF Whole
      <4>3. QED BY <2>c, <4>1, <4>2 DEF Whole, Complete
    <3>2. CASE ~stage[u].dir
      <4>1. dest'[u] = dest[u]
        BY <2>0, <3>2
      <4>2. QED BY <2>c, <3>2, <4>1 DEF Complete
    <3>3. QED BY <3>1, <3>2
  <2>e. \A v \in Uploads : dest[v].dir => dest'[v] = dest[v]
    BY <2>0
  <2>f. Open(u) /\ (\E s \in Reqs : Stager(s, u)) => stage'[u] = stage[u]
    BY <2>0, <2>c, <1>a DEF Whole
  <2>g. Staging'
    BY <1>a, <2>0, <2>f, CommitStaging DEF Commit, IInv, FsInv
  <2>1. Safe'
    <3>1. ASSUME NEW v \in Uploads, v # u
          PROVE  stage'[v] = stage[v] /\ dest'[v] = dest[v]
      BY <3>1, <2>0
    <3>2. ASSUME NEW v \in Uploads, Open(v), row[v].staged # None, v # u
          PROVE  \/ dest'[v] = Whole(row[v].staged)
                 \/ /\ stage'[v].dir /\ stage'[v].files = Content(row[v].staged)
                    /\ \A s \in Reqs : ~Stager(s, v)
      BY <3>1, <3>2 DEF IInv, FsInv, Safe, Complete
    <3>3. ASSUME Open(u) PROVE dest'[u] = Whole(row[u].staged)
      BY <3>3, <2>c, <2>d
    <3>4. QED BY <1>a, <2>b, <3>2, <3>3 DEF Safe, Open, Complete, Content, Whole
  <2>2. Committers'
    <3>1. ASSUME NEW s \in Reqs, req'[s].pc = "publish"
          PROVE  req'[s] = req[s] /\ req[s].upload \in Uploads
      BY <3>1, <1>a, <2>a, Busy DEF IInv
    <3>2. ASSUME NEW s \in Reqs, req'[s].pc = "commit"
          PROVE  s = r \/ (req'[s] = req[s] /\ req[s].upload \in Uploads)
      BY <3>2, <1>a, <2>a, Busy DEF IInv
    <3>3. \A v \in Uploads : stage[v].dir /\ dest[v].dir => stage'[v] = stage[v]
      BY <2>0
    <3>4. Committers
      BY DEF IInv, FsInv
    <3>5. ASSUME NEW s \in Reqs, req'[s].pc = "publish", Open(req[s].upload)
          PROVE  \/ req[s].bundle = row[req[s].upload].staged
                 \/ /\ stage'[req[s].upload].dir /\ dest'[req[s].upload].dir
                    /\ \A t \in Reqs : ~Stager(t, req[s].upload)
      BY <2>e, <3>1, <3>3, <3>4, <3>5 DEF Committers
    <3>6. ASSUME NEW s \in Reqs, req'[s].pc = "commit", Open(req'[s].upload)
          PROVE  dest'[req'[s].upload] = Whole(req'[s].bundle)
      <4>1. CASE s = r
        BY <4>1, <2>a, <2>d, <3>6
      <4>2. CASE s # r
        <5>1. dest[req[s].upload] = Whole(req[s].bundle)
          BY <4>2, <3>2, <3>4, <3>6 DEF Committers
        <5>2. dest[req[s].upload].dir
          BY <5>1 DEF Whole
        <5>3. QED BY <4>2, <3>2, <3>6, <2>e, <5>1, <5>2
      <4>3. QED BY <4>1, <4>2
    <3>7. QED BY <1>a, <2>b, <3>1, <3>2, <3>5, <3>6
              DEF Committers, Open, Content, Whole
  <2>3. VersionIntact'
    BY <1>a, <2>e, VersionsKept DEF IInv, FsInv, Whole
  <2>4. QED BY <2>g, <2>1, <2>2, <2>3 DEF FsInv
<1>d. QED BY <1>b, <1>c

\* The transaction that adds a version keeps the invariant.
LEMMA CommitVersionStep ==
    ASSUME IInv, Stores', Staging', NEW r \in Reqs, CommitVersion(r) PROVE FsInv'
<1> DEFINE u == req[r].upload
           a == Target(u)
           v == [upload |-> u, bundle |-> req[r].bundle]
<1>0. u \in Uploads /\ req[r].bundle \in Bundles /\ a \in Uploads
  BY Busy DEF IInv, CommitVersion, Target, TypeOK, Rows
<1>a. /\ UNCHANGED <<stage, dest, maint>>
      /\ Open(u)
      /\ versions' = [versions EXCEPT ![a] = Append(@, v)]
  BY DEF CommitVersion, Open
<1>b. /\ row'[u].state = "live" /\ row'[u].version > 0
      /\ row'[u].left = row[u].left
      /\ \A w \in Uploads \ {u} : row'[w] = row[w]
  <2>1. row[u] \in Rows /\ Len(versions[a]) \in Nat
    BY <1>0 DEF IInv, TypeOK
  <2>2. row'[u] = [row[u] EXCEPT !.art = a, !.version = Len(versions[a]) + 1]
    BY <1>0 DEF IInv, TypeOK, CommitVersion
  <2>3. QED BY <1>0, <2>1, <2>2 DEF IInv, TypeOK, Rows, CommitVersion
<1>c. req'[r] = Idle /\ \A s \in Reqs \ {r} : req'[s] = req[s]
  BY ReplyEffect DEF IInv, CommitVersion
<1>d. \A s \in Reqs, w \in Uploads : Stager(s, w)' => Stager(s, w) /\ s # r
  BY <1>c, IdleValues DEF Stager
<1>e. \A w \in Uploads : Open(w)' => w # u /\ Open(w) /\ row'[w] = row[w]
  BY <1>b DEF Open
<1>1. Safe'
  BY <1>a, <1>d, <1>e DEF IInv, FsInv, Safe, Complete, Content, Whole
<1>2. Committers'
  <2>1. ASSUME NEW s \in Reqs, req'[s].pc \in {"publish", "commit"}
        PROVE  req'[s] = req[s] /\ req[s].upload \in Uploads
    BY <2>1, <1>c, Busy, IdleValues DEF IInv
  <2>2. QED BY <1>a, <1>d, <1>e, <2>1
            DEF IInv, FsInv, Committers, Content, Whole
<1>3. VersionIntact'
  <2>1. dest[u] = Whole(req[r].bundle)
    BY <1>a DEF IInv, FsInv, Committers, CommitVersion
  <2>2. ASSUME NEW c \in Uploads, NEW i \in 1..Len(versions'[c])
        PROVE  \/ versions'[c][i] = v
               \/ i \in 1..Len(versions[c]) /\ versions'[c][i] = versions[c][i]
    <3>1. versions[a] \in Seq(VersionRows) /\ versions[c] \in Seq(VersionRows)
      BY <1>0 DEF IInv, TypeOK
    <3>2. QED BY <1>0, <1>a, <3>1 DEF IInv, TypeOK
  <2>3. ASSUME NEW c \in Uploads, NEW i \in 1..Len(versions'[c])
        PROVE  dest[versions'[c][i].upload] =
                 [dir |-> TRUE, files |-> Content(versions'[c][i].bundle)]
    <3>1. CASE versions'[c][i] = v
      BY <3>1, <2>1 DEF Whole
    <3>2. CASE i \in 1..Len(versions[c]) /\ versions'[c][i] = versions[c][i]
      BY <3>2 DEF IInv, FsInv, VersionIntact
    <3>3. QED BY <2>2, <3>1, <3>2
  <2>4. QED BY <1>a, <2>3 DEF VersionIntact, Content
<1>4. QED BY <1>1, <1>2, <1>3 DEF FsInv

-----------------------------------------------------------------------------
(* Maintenance and the environment.                                        *)

\* CleanupExpired keeps the invariant.
LEMMA MaintCleanupStep ==
    ASSUME IInv, Stores', Staging', MaintCleanup PROVE FsInv'
<1> DEFINE expired == {u \in Uploads : row[u].state = "live" /\ row[u].left = 0}
<1>0. /\ UNCHANGED <<stage, dest, versions, req>>
      /\ \A u \in Uploads : row'[u] = IF u \in expired THEN GoneRow ELSE row[u]
      /\ maint'.ids = expired
      /\ maint'.old = {u \in Uploads : StageIsOld(u)}
  BY DEF MaintCleanup
<1>a. GoneRow.state = "gone"
  BY DEF GoneRow, NoRow
<1>b. \A u \in Uploads : Open(u)' => Open(u) /\ row'[u] = row[u]
  BY <1>0, <1>a DEF Open
<1>1. Safe'
  BY <1>0, <1>b DEF IInv, FsInv, Safe, Stager, Complete, Content, Whole
<1>2. Committers'
  <2>1. ASSUME NEW s \in Reqs, req[s].pc \in {"publish", "commit"}
        PROVE  req[s].upload \in Uploads
    BY <2>1, Busy DEF IInv
  <2>2. QED BY <1>0, <1>b, <2>1
            DEF IInv, FsInv, Committers, Stager, Content, Whole
<1>3. VersionIntact'
  <2>1. UNCHANGED <<dest, versions>>
    BY <1>0
  <2>2. QED BY <2>1, VersionsKept DEF IInv, FsInv
<1>4. QED BY <1>1, <1>2, <1>3 DEF FsInv

\* The passage of time keeps the invariant.
LEMMA TickStep ==
    ASSUME IInv, Stores', Staging', Tick PROVE FsInv'
<1>0. UNCHANGED <<dest, versions, req, maint>>
  BY DEF Tick
<1>a. \A u \in Uploads :
         /\ row'[u].state = row[u].state
         /\ row'[u].version = row[u].version
         /\ row'[u].staged = row[u].staged
         /\ stage'[u].dir = stage[u].dir
         /\ stage'[u].files = stage[u].files
         /\ stage'[u].zip = stage[u].zip
  BY TickEffect DEF IInv
<1>b. \A u \in Uploads : Open(u)' <=> Open(u)
  BY <1>a DEF Open
<1>1. Safe'
  BY <1>0, <1>a, <1>b
  DEF IInv, FsInv, Safe, Stager, Complete, Content, Whole
<1>2. Committers'
  <2>1. ASSUME NEW s \in Reqs, req[s].pc \in {"publish", "commit"}
        PROVE  req[s].upload \in Uploads
    BY <2>1, Busy DEF IInv
  <2>2. QED BY <1>0, <1>a, <1>b, <2>1
            DEF IInv, FsInv, Committers, Stager, Content, Whole
<1>3. VersionIntact'
  <2>1. UNCHANGED <<dest, versions>>
    BY <1>0
  <2>2. QED BY <2>1, VersionsKept DEF IInv, FsInv
<1>4. QED BY <1>1, <1>2, <1>3 DEF FsInv

-----------------------------------------------------------------------------
(* The theorems.                                                           *)

\* The invariant holds of an empty store.
LEMMA InitIInv == Init => IInv
<1> SUFFICES ASSUME Init PROVE IInv
  OBVIOUS
<1>1. TypeOK
  BY InitTypeOK
<1>2. Stores
  BY IdleValues
  DEF Init, Stores, Absent, Fresh, Condemned, Young, Live, NoRow, NoStage, NoDest, Resting
<1>3. Staging /\ Safe /\ Committers
  BY IdleValues
  DEF Init, Staging, Handlers, Knows, SoleStager, StagerOwns, Safe, Committers, Open,
      Stager, NoRow
<1>4. VersionIntact
  BY DEF Init, VersionIntact
<1>5. QED BY <1>1, <1>2, <1>3, <1>4 DEF IInv, FsInv

\* The invariant is inductive on the filesystem backend.
LEMMA NextIInv ==
    ASSUME Fs, IInv, [Next]_vars PROVE IInv'
<1>1. TypeOK'
  BY NextTypeOK DEF IInv
<1>a. Stores'
  BY NextStores DEF IInv, FsInv
<1>2. FsInv'
  <2> USE <1>a
  <2>s. ASSUME \/ \E usr \in Users, u \in Uploads, a \in Uploads \cup {None} :
                    CreateUpload(usr, u, a)
               \/ Maintenance
               \/ \E a \in Uploads : AdminDeleteArtifact(a)
               \/ Tick \/ Crash \/ UNCHANGED vars
        PROVE  Staging'
    BY <2>s, OtherStaging DEF IInv, FsInv
  <2>1. CASE \E usr \in Users, u \in Uploads, a \in Uploads \cup {None} :
               CreateUpload(usr, u, a)
    BY <2>1, <2>s, CreateUploadStep
  <2>2. ASSUME NEW r \in Reqs, Put(r) PROVE FsInv'
    <3>1. Staging'
      BY <2>2, PutStaging DEF IInv, FsInv
    <3>2. QED BY <2>2, <3>1, PutLookupStep, PutMkdirStep, PutStagerStep, PutMarkStep,
                 PutCleanupStep DEF Put
  <2>3. ASSUME NEW r \in Reqs, Commit(r) PROVE FsInv'
    <3>1. CASE PublishFs(r)
      BY <3>1, PublishFsStep
    <3>2. ~PublishS3Walk(r) /\ ~PublishS3Put(r) /\ ~PublishS3Done(r)
      BY DEF Fs, PublishS3Walk, PublishS3Put, PublishS3Done
    <3>3. ASSUME ~PublishFs(r) PROVE Staging'
      <4>1. UNCHANGED stage
        BY <2>3, <3>2, <3>3 DEF Commit, CommitLookup, CommitVersion, CommitError
      <4>2. QED BY <2>3, <4>1, CommitStaging DEF IInv, FsInv
    <3>4. CASE CommitError(r) /\ ~PublishFs(r)
      BY <3>3, <3>4, ReplyEffect, QuietStep DEF CommitError, db, IInv
    <3>5. QED BY <2>3, <3>1, <3>2, <3>3, <3>4, CommitLookupStep, CommitVersionStep
              DEF Commit
  <2>4. CASE Maintenance
    <3>1. Staging'
      BY <2>4, <2>s
    <3>3. ASSUME NEW u \in Uploads, MaintRemove(u) \/ MaintSweep(u) PROVE FsInv'
      <4>1. UNCHANGED <<row, dest, versions, req>>
        BY <3>3 DEF MaintRemove, MaintSweep, db
      <4>2. CASE stage' # stage
        <5>1. /\ stage' = [stage EXCEPT ![u] = NoStage]
              /\ u \in maint.ids \cup maint.old
          BY <3>3, <4>2 DEF MaintRemove, MaintSweep
        <5>2. row[u].state = "gone"
          BY <5>1 DEF IInv, FsInv, Stores, Condemned
        <5>3. QED BY <3>1, <4>1, <5>1, <5>2, RemovalStep
      <4>3. QED BY <3>1, <4>1, <4>2, QuietStep
    <3>4. CASE MaintList \/ MaintDone
      BY <3>1, <3>4, QuietStep DEF MaintList, MaintDone, db
    <3>5. QED BY <2>4, <3>1, <3>3, <3>4, MaintCleanupStep DEF Maintenance
  <2>5. ASSUME NEW a \in Uploads, AdminDeleteArtifact(a) PROVE FsInv'
    BY <2>5, <2>s, QuietStep DEF AdminDeleteArtifact
  <2>6. CASE Crash
    BY <2>6, <2>s, CrashStep
  <2>7. CASE UNCHANGED vars
    BY <2>7, <2>s, QuietStep DEF vars
  <2>8. QED BY <2>1, <2>2, <2>3, <2>4, <2>5, <2>6, <2>7, <2>s, TickStep DEF Next
<1>3. QED BY <1>1, <1>2 DEF IInv

\* IInv holds in every reachable state on the filesystem backend (StageZIP's
\* Mkdir, MarkUploadStaged's guard and the rename of Store.PublishUpload).
THEOREM FsInvariant ==
    ASSUME Fs PROVE Spec => []IInv
<1>1. Init => IInv
  BY InitIInv
<1>2. IInv /\ [Next]_vars => IInv'
  BY NextIInv
<1>3. QED BY <1>1, <1>2, PTL DEF Spec

\* On the filesystem backend every committed version has exactly the files of
\* the bundle its row records (commitForUser and Store.PublishUpload).
THEOREM FsVersionIntact ==
    ASSUME Fs PROVE Spec => []VersionIntact
<1>1. IInv => VersionIntact
  BY DEF IInv, FsInv
<1>2. QED BY <1>1, FsInvariant, PTL

\* On the filesystem backend an acknowledged bundle is never lost before its
\* session expires (putUpload, RemoveStage, CleanupStages).
THEOREM FsAckedBundleKept ==
    ASSUME Fs PROVE Spec => []AckedBundleKept
<1>1. ASSUME IInv PROVE AckedBundleKept
  <2>1. ASSUME NEW u \in Uploads, Live(u), row[u].version = 0,
               row[u].staged # None
        PROVE  Complete(u, row[u].staged) \/ Holds(dest[u], row[u].staged)
    <3>1. row[u].staged \in Bundles
      BY <1>1, <2>1 DEF IInv, TypeOK, Rows
    <3>2. dest[u] = Whole(row[u].staged) => Holds(dest[u], row[u].staged)
      BY <3>1, FilesOfType DEF Whole, Holds, Content
    <3>3. QED BY <1>1, <2>1, <3>2 DEF IInv, FsInv, Safe, Open, Live
  <2>2. QED BY <2>1 DEF AckedBundleKept
<1>2. QED BY <1>1, FsInvariant, PTL

\* On the filesystem backend a step never changes a version row or one of its
\* objects (README.md: "Existing artifact versions are immutable").
THEOREM FsImmutable ==
    ASSUME Fs PROVE Spec => Immutable
BY FsVersionIntact, IntactImmutable, PTL

\* On the filesystem backend the pipeline implements a growing list of whole
\* bundles: stages, sessions, retries, maintenance and crashes do not show
\* (CommitVersion, Version and Open).
THEOREM FsImplementsHistory ==
    ASSUME Fs PROVE Spec => ImplementsHistory
BY FsVersionIntact, IntactHistory, PTL
=============================================================================

# Rendercase in TLA+

TLA+ models of Rendercase (a self-hosted server that publishes, shares and
reviews HTML bundles), checked with TLC and, as far as the prover reaches, proved
with TLAPS. Every module is a translation of the Go, SQL and JavaScript code under
`src/`; `PROJECT.json` maps each definition to its lines.

## Inventory

| Component | State | Operations | What is hard | What makes it correct |
|---|---|---|---|---|
| Publishing pipeline (`app/server.go`, `app/mcp.go`, `blob/`, `store/postgres.go`) | `upload_sessions`, `artifacts`, `artifact_versions`; staging directories; object directories or S3 objects | create upload, PUT bundle, commit, maintenance | three stores and no common transaction; retries; crashes; a cleaner that deletes by age | versions are whole and immutable; one version per session; an acknowledged bundle is not lost |
| Capability shares (`store/postgres.go`, `app/server.go`, `securetoken/`) | `shares`, `share_sessions`, signed tickets | create, exchange, view, revoke, delete artifact | transactions that overlap at READ COMMITTED; opposite lock orders; tickets that outlive rows | view limits; revocation is complete and final; deletion revokes |
| Comments (`store/comments.go`, `app/comments.go`) | `comment_threads`, `comments` | post, edit, delete, resolve, reopen | checks made before a lock is taken; UPDATEs that re-read a row | the limit; deleted stays deleted; the first resolver; hidden threads |
| Branding (`store/postgres.go`, `app/server.go`) | `instance_branding`, `branding_themes`; one cache per process | save, activate, delete theme; read | a cache behind a mutex that is invalidated after the commit and that saves draw on; a DELETE with a subquery | theme limit; no stale answer, and no stale logo saved, after an acknowledged change; the active theme exists |
| Sign-in and identity (`app/server.go`, `app/cloudflare_access.go`, `app/mcp.go`) | `users`, `sessions`, `oidc_states` | login, callback, logout, delegation, visibility | concurrent callbacks; persons and services claiming one subject | a state is used once; no subject changes its kind; private stays private |
| Publisher viewer grants (`store/publisher_viewers.go`) | `artifact_grants` | backfill at start-up, grant at commit | several replicas starting while artifacts are published | every artifact of a mapped publisher is granted |
| S3 object reader (`blob/s3.go`, `content` in `app/server.go`) | size, position, open body; the response | Open, Read, Seek, Close; content, http.ServeContent | any order of calls, errors half way, an object replaced meanwhile | it is a file with a position; a response is a stretch of one object |
| Comment bridge (`app/bridge.go`, `web/comments.js`, `web/bridge.js`) | thread list, pin generation, frame readiness; the frame's pins and document | load, pin, report, navigate; inject | messages and answers for older lists and older documents | the list shown is fresh; reports are about it; the two sides settle in agreement; the script lands where the design's rule puts it |
| ZIP validation (`blob/fs.go`) | bytes on disk, running total | extract entry by entry, clean names | limits declared and measured; `..` | never more than the limit is written; names stay inside |
| Configuration, CLI, mTLS proxy, audit log, templates, agent skill | none, or append-only | | | |

The components meet in PostgreSQL rows (an artifact's row is locked by commits,
comments and deletions), in the staging directory (handlers and maintenance) and
in what a viewer page combines: a share, a version, a ticket, the branding.

## Modules

| Module | Models |
|---|---|
| `ArtifactHistory` | the promise of publishing: each artifact is a list of whole bundles to which only one more is ever appended |
| `Publishing` | createUpload, putUpload, commitForUser, both object stores, CommitVersion, runMaintenance, crashes |
| `PublishingFsInv`, `PublishingS3Inv` | the inductive invariants of the two backends |
| `PublishingProofs` | what holds on either backend, then the filesystem |
| `PublishingS3Proofs` | S3, for clients that send nothing to a session once a bundle is acknowledged there |
| `ShareLinks` | shares, their sessions and tickets, revocation and artifact deletion |
| `ShareLinksProofs` | row locks exclude, revocations are complete and final, views are within the limit |
| `CommentThreads` | comment threads of one artifact |
| `CommentThreadsProofs` | the limit of comments, and what no step does to a comment or a thread |
| `CommentPanel` | the browser's side of comments: the panel, the frame's bridge and what they post to each other |
| `CommentPanelProofs` | the list shown is fresh, what is reported of it is about it, and panel and frame agree when they rest |
| `Branding` | themes, the active theme and the cached branding of several processes |
| `BrandingProofs` | the limit of themes, and caches that follow what was acknowledged |
| `Identity` | OIDC sign-in, sessions, persons and service users, who sees which artifact, publisher viewers, redeployments |
| `IdentityProofs` | the inductive invariant of `Identity` and what follows from it |
| `BundlePaths` | names of files, cleaned |
| `BundleIntake` | StageZIP from the inside: one archive, entry by entry |
| `SeekableFile` | the promise of an opened object: a file with a position |
| `ObjectReader` | S3Store.Open and s3ReadSeeker over a bucket whose objects are replaced |
| `BridgeInjection` | injectBridge, and the design's rule it is compared with |
| `BundleContent` | intake, bucket, reader and the content handler together |
| `BundleContentProofs` | the inductive invariant of `BundleContent` and what follows from it; what `Clean` makes of names and `injectBridge` of documents |
| `MC...` | constants, symmetry and constraints for TLC |

### Publishing

`row`, `owner`, `deleted` and `versions` are the database, `stage` is
`<root>/.uploads/<id>` and `dest` is `<artifact>/objects/<id>`; `req` holds the
program counter of every handler and `maint` that of the maintenance goroutine.
A step is one database statement or transaction, one directory operation or one
object request. A bundle is a set of paths and the contents of a directory are a
function from paths to the bundle that wrote them, to the handler that is still
writing the file, or to `Torn` where it never will finish; so a mixture of two
bundles, a missing, a surplus and a half-written file can all be told from a whole
one.

A PUT is `PutLookup`, `PutMkdir`, for each path `PutCreate` (the file is there, under
its name and empty) and `PutCopy` (it is whole), then `PutFinish` and `PutMark`; every
failure goes through `PutCleanup`, which removes the directory by its name whoever made
it. A file stays the handler's through a rename of its directory, as an open file does;
when the handler fails or dies it is `Torn`. An upload to S3 that reads a file before it
is whole puts a torn object (`ReadOf`), for putFile takes the size from Stat.
`PutCreate` may bring a removed directory back (`MkdirAll` of an entry's parent) and
`PutFinish` then fails because `bundle.zip` is gone. A commit is `CommitLookup`, the
backend's publish steps (`PublishFs`, or `PublishS3Walk`, `PublishS3Put` per object and
`PublishS3Done`) and `CommitVersion`. `Crash` drops all handlers and the maintenance run
and keeps every store. `Served` composes the last two reads of a viewer, `Version` and
`Open`, and is the refinement mapping to `ArtifactHistory`.

### ShareLinks, CommentThreads, Branding

These are about transactions at READ COMMITTED. A statement reads what is
committed and, if it finds rows, locks them; what a transaction wrote shows when
it commits. ShareLinks has a step per statement and per row lock, with the locks
in `held` and `reads`; `Deadlocked` finds cycles of waiting transactions and
`DeadlockAbort` is the server's answer. In CommentThreads and Branding an UPDATE
or DELETE with a subquery is two steps, because PostgreSQL evaluates it on the
statement's snapshot and, when the row was changed meanwhile, re-evaluates only
the row's own columns. Single statements without such a wait are one step.

In Branding `rev` counts commits, and a cached copy is the revision it was read at;
`acked` records what each process has answered. Every page, and every change an
administrator makes on the branding page, begins with the process's cached copy
(`Begin`, `Use`, `Cached`, `Query`): a save keeps that copy's logo when it brings
none. An activation through MCP reads the theme at once, which is `ReadTheme`
without the copy in use.

### BundleIntake, ObjectReader, BridgeInjection, BundleContent

`Publishing` has the directory operations of StageZIP and who competes for the
directory; `BundleIntake` has what one handler does in it. An archive is met
entry by entry: the name, the declared size and the size an entry really has are
chosen when the loop gets there. `zip`, `part`, `total` and `files` are the bytes on
disk; sizes are compared as `uint64` (`Word`), so a total beyond the limit would
let everything through. `BundlePaths` has cleanRelative on sequences of segments.

`object` is the bucket, where every PutObject gets a number; `reader` is the
`s3ReadSeeker`, whose body remembers which object it came from and where it stands;
`result` is what its last Read returned. `page` is the content handler: `Request`
opens the object, and then either the whole file is read for the bridge (`Inject`)
or http.ServeContent measures, rewinds, sniffs, seeks to a range and copies. A request
for several ranges is answered in parts (`ServeRanges`, `ServePart`): a seek before
each drops the body, and the next Read is another GET, without an ETag. So what is
checked is each part; the parts of one response may come from two objects of one size
when the object is replaced between them. http.ServeContent writes such parts from a
goroutine of its own, which may still be reading when the client has gone and `content`
closes the reader; that race is not modelled.
`SeekableFile` is the abstract file; `ObjectReader!File` is the refinement mapping, in
which bodies and objects vanish.

`BridgeInjection` translates injectBridge over tokens and states beside it the rule of
comments-design.md as one would apply it to the text: behind the first tag of the head,
else of the root, else the doctype, of the scanned bytes, where a comment lasts from
`<!--` to the next `-->` and tags count outside comments only. The code gets there
differently, by overwriting comments and searching. Neither is an HTML parser, so the
rule is not a promise that the script runs. It does not where the first `>` of the tag
is in a quoted value (for `<head data-x="a>b">` the script is put into the value,
although the design says "immediately after the opening `<head ...>` tag"), where
`<head>` stands in the string of an earlier script, a title or a style sheet, and
where a browser ends a comment sooner than the next `-->` (`<!-->`); and it runs after the
document's own script where that comes before the head's tag.

### CommentPanel

`panel` is the state of comments.js (the list, `loadSeq`, `pinGen`, `bridgeReady`,
which threads are unplaced, where the others are), `frame` the document and the state
of bridge.js (enabled, generation, pins, those that wait for DOMContentLoaded, the
observer's timer and animation frame), `toFrame` and `toPanel` are the posted
messages, in order. `load` holds the loads of the list in flight, answered in any
order; `own` is this viewer's change. `Navigate` replaces the document and drops what
was posted to the old one; its load event comes at any later time. A list is a
sequence of threads without repetition, and a pin's number is a thread's place in it;
ids have a fixed length, so there are finitely many. What the panel shows of a report
is recorded with the list the report was about (`about`, `tops`), which is how a
report on an older list shows.

A pin is reported with a position when its element is on the page, has a size and is
within the viewport: `frame.view` are the threads whose element would be, and the
positions themselves, to the pixel, are left out. `Scroll` (or a resize) and `Mutate`
change the view and make the bridge look again; `Shift` (a late image, a transition)
changes it and nothing tells the bridge, which `shifted` remembers until it looks next.
Animation frames are assumed to come, as they do while the page is displayed. One change
of this viewer is in flight at a time.

### Identity

`users` and `admin` are the users table, by `oidc_subject`; `logins` and
`sessions` are `oidc_states` and `sessions`; `owner`, `open`, `deleted` and
`grants` are what the artifacts tables say of ownership and visibility. `config`
is the configuration of the replicas, `up` says that one serves and `boot` is the
backfill of one that starts. `req` is a request: between the steps of a callback,
or `acting` as the user that `requireUser` or the MCP middleware put into its
context. `shown` records what every user was served.

A subject is `Prefixed` when it begins with `cloudflare_access:`, as all do that
come from an assertion; service subjects do not, which `ValidConfig` takes from
`validateServiceSubjects`. `Login`, `ConsumeOIDCState`, `CallbackUpsert`,
`CreateSession` and `Logout` are the browser's sign-in; `AuthSession`,
`AuthBearer`, `AuthAssertion`, `AuthService` and `AuthDelegated` are the ways a
request gets its user. `BootBegin`, `BootMap` (a publisher at a time, reading what
is committed), `BootDone` and `BootFail` are `BackfillPublisherViewers` and what
`main` does with its result. `Redeploy` stops all replicas and changes the
configuration; the database stays.

## Runs

| Run | Instance | Shows |
|---|---|---|
| `publish_fs` | fs, 2 sessions (one of them busy at a time), 2 handlers, 2 bundles of one path | `VersionIntact`, `CommitOnce`, `AckedBundleKept`, `Immutable`, implements `ArtifactHistory`, also for a second version of another session's artifact; `IInv`, the invariant of the proofs, in every state |
| `publish_s3` | S3, 1 session, 2 handlers, 2 bundles, one of two paths, fair maintenance, clients that keep to `OnePut` | `VersionIntact`, `AckedBundleKept`, `StageReclaimed` |
| `publish_s3_overwrite` | S3, the same with 3 handlers and any clients | **violated**: `Immutable` |
| `shares` | 1 link, 2 cookies, 2 requests, fair | `ViewLimitKept`, `RevokedHasNoSession`, `RevocationFinal`, `RevokedContentEnds`, `LocksReleased`; no step of the system deadlocks |
| `shares_delete` | 1 link, without fairness | **violated**: `DeletionRevokes` |
| `comments` | 2 threads, 3 comments, room for 2, 3 requests | `CommentLimit`, `DeletedForGood`, `FirstResolverKept`, `NoPostToDeleted` |
| `comment_revival` | 1 thread, 2 requests | **violated**: `HiddenStaysHidden` |
| `comment_panel` | 3 threads (one general), 2 loads, 1 pin placed at most, 2 acts of users (scrolling, shifts of the layout and changes of the page among them), fair | `ListFresh`, `ReportsCurrent`, `PinsSettle` |
| `branding` | 3 themes, room for 2, 2 processes, 2 requests, 2 commits | `ThemeLimit`, `CacheFresh`, `CacheMonotone` |
| `branding_delete` | 2 themes, 1 process, 2 requests | **violated**: `ActiveThemeSaved` |
| `identity` | 2 subjects, 3 configurations, 1 login state, 2 cookies, 2 requests, 1 artifact | `LoginOnce`, `NoInheritance`, `ServiceSees`, `PublisherGranted`, and `IInv`, the invariant of the proofs |
| `bundle_content` | limit 3 bytes, 2 entries, 8 names, 2 puts per object, one or more ranges; documents of up to 5 tokens, 4 of them scanned | `ExpansionBounded`, `OpensInside`, `ResponseIntact`, implements `SeekableFile`; `BridgePlaced` |

The four violated properties are statements of the README and of a comment in
the code:

* *"Existing artifact versions are immutable"*: on S3 a commit that read its
  session before another commit of it succeeded overwrites the objects of the
  committed version with what a PUT is staging by then: another bundle, or the
  files that a repetition of the same PUT has created and not yet filled. The
  filesystem's rename refuses, and `FsImmutable` proves it.
* *"Deletion immediately hides the artifact and revokes its shares"*: a link
  created between the deletion's UPDATE of shares and its COMMIT stays
  unrevoked. Its content is hidden all the same (`Version` asks for
  `deleted_at`), but it can be exchanged and its views are counted.
* *"A thread with no live comment is hidden, so it cannot be revived by a
  reply"*: `AddComment` looks before it takes the lock and does not look again.
* *"The active theme cannot be deleted"*: `DeleteBrandingTheme` does not lock the
  singleton row.

### Bounds

Two concurrent requests are enough for most conflicts; `comments` and
`publish_s3_overwrite` have a third that changes what the two depend on. Larger
instances rest on the theorems, as far as the section on proofs says. In `publish_fs`
the constraint `OneBusySession` keeps the second session from starting before the first
is committed or has expired and nobody works on it: the sessions then meet in one
artifact, and simultaneous ones rest on the theorems. Its two bundles of one path each
tell a mixture from a whole, and a directory without the file shows a lost one;
`publish_s3` and `publish_s3_overwrite` have a bundle of two paths and another one with
one of them, so that surplus and missing files show. Half-written files show with one
path. Upload TTL 1 makes a session expire after one tick and a stage old after three;
both happen in the runs, also between any two steps of a handler. Share lifetime,
session and ticket TTL 1 likewise. `MaxLimit` 1 puts two viewers at the limit;
`MaxViews` bounds the views counted for an unlimited share so that the state space is
finite. In `identity` one subject is listed as a service in two configurations and known
to OIDC, and an administrator, in the third; it is a mapped publisher in one and a
viewer in another, so that every conflict of kinds and every order of backfill and
publication occurs with it and one other subject. A second request gives the race. In
`comment_panel` a list of two threads, one of them general, is joined by the third or
loses one, which shifts the numbers of the others; a limit of one pin leaves a second
anchored thread beyond it. `MCInit` starts either where the page begins to load, with
one act to come, or at `Opened`, a state that `Init` leads to, with two: a change and a
reload, two changes of the document, a change and a navigation, a change and a scroll
and so on, each with all orders of answers and messages. On the first page all elements
are there and in view; acts and navigation lead to the others. In `bundle_content` sizes
go from nothing to one byte more than the limit, and `Word` = 8 makes a subtraction
below zero a large number as 2^64 does. `MaxRev` bounds the commits of Branding; a
request that would exceed it stays at its commit step until it aborts. Symmetry is used
in the runs of safety properties only; a property of the form `[][A]_v` is one.

`CommentThreads` runs without deadlock check: once the artifact is deleted every
request is refused and nothing more happens, which is right; so does `CommentPanel`,
which rests when users do. All other runs check for deadlock.

### Fairness

* Publishing: time passes, and the maintenance goroutine's steps are strongly
  fair because a crash may interrupt any run; the process is assumed not to die
  in every one. Clients, administrators and crashes owe nothing. In
  `publish_s3` the constraint `OnePut` keeps clients to the discipline described below.
  No step of maintenance or of the clock leaves it, so what fairness asks for is possible
  within it; and a PUT that comes too late for its session, whose stage only the sweep
  finds, is among what such clients may do.
* ShareLinks: a request that has begun goes on (the server has timeouts and a
  closed connection ends in `Abort`), strong because PostgreSQL queues the
  waiters for a row and serves them in turn; deadlocks are broken by
  PostgreSQL. Nobody has to begin or to fail.
* CommentPanel: `WF_vars(System)`: as long as something is in flight (a request, a
  message, a timer, an event), something of it happens. Requests end, with an answer or
  a failure, because fetch does; the browser delivers messages and fires timers.
  Users owe nothing.

## Proofs

`PublishingProofs` holds for every set of sessions, users, handlers and bundles,
for both backends and with replies lost:

* `TypeCorrect`: `Spec => []TypeOK`.
* `CommittedOnce`: `Spec => []CommitOnce`. The strengthening is `CInv`:
  `Provenance` (a version came from a session whose row says so, or is gone for
  good) and `Committed` (a row that says so points at its version); the guard
  `committed_at IS NULL` and the fact that ids are never used again do the rest.
* `StoresHold`: `Spec => [](TypeOK /\ Stores)`. `Young` and `Condemned`: maintenance
  touches only stages of sessions that can no longer be committed. `Fresh` and
  `Absent` tie directories to rows. Both backends' invariants begin with it.
* `IntactImmutable` and `IntactHistory` are lemmas: where versions are whole in every
  state, no step changes one, and the pipeline implements `ArtifactHistory`. What is
  left to show of a backend is `VersionIntact`.

Its second part assumes `Fs == Backend = "fs" /\ ~MarkReplyLost`:

* `FsInvariant`: `Spec => []IInv`, from which `FsVersionIntact`,
  `FsAckedBundleKept`, `FsImmutable` and `FsImplementsHistory` follow.

`VersionIntact` is not inductive: that a commit publishes the right files depends
on what every other handler may still do to the directory. `IInv` says it in
named parts. `SoleStager` and `StagerOwns`: Mkdir is a lock, and while a session
is open its holder's progress determines the directory's contents. `Safe`: an
acknowledged bundle is whole in one of its two places with nobody working on
it. `Committers`: a handler about to publish has read the bundle that is staged,
or its rename is bound to fail. The proof has one lemma per action.

`PublishingS3Proofs` assumes `S3 == Backend = "s3" /\ ~MarkReplyLost` and, of the
behaviour, `OnePut`: while a bundle is acknowledged for a session, no PUT to it is under
way. Every theorem is about `OnePutSpec`, which is `Next` restricted to such steps. PUTs
of different bundles may race, fail and be repeated until one of them is acknowledged,
commits may run side by side and be repeated, everything may crash; a client that sends
one PUT at a time and commits once it is answered keeps to it.

* `S3Invariant`: `OnePutSpec => []KInv`, from which `S3VersionIntact`,
  `S3AckedBundleKept`, `S3Immutable` and `S3ImplementsHistory` follow.

On S3 several commits of a session walk, copy and remove the same stage at once, and a
PublishUpload may find files missing that another removed. Until a bundle is
acknowledged it is as on disk, Mkdir is a lock (`Staging`), and nothing is in the object
directory. From then on `Kept` says that the bundle is whole in the stage until it is
whole in the objects, `Fits` that nothing else is among the objects, and `Copies` what
each commit has put there so far; `Published` keeps that for versions. The proof has one
lemma per action; most of them only have to show that they leave alone what other
commits rely on (`Spared`). TLC agreed on `KInv` for 3 handlers and two bundles before
it was proved.

The assumptions are needed. Without `OnePut` a single bundle per session is not enough:
one commit has put everything and removed the stage, the client repeats its PUT, and a
second commit walks a stage whose files are created and not yet filled, over objects
that were whole. If the first commit went through, `VersionIntact` and `Immutable` are
false; if it died, the acknowledged bundle is whole nowhere. Repetitions in sequence do
not help, because a PUT that dies half way leaves its stage. With `MarkReplyLost` TLC
finds states that violate `VersionIntact`, on either backend: the mark is applied, its
reply lost, the stage removed, and a PUT that crashes leaves a partial directory that a
commit publishes under the first manifest.

`IdentityProofs` holds for every set of subjects, requests, cookies, login states
and artifacts and every set of configurations that satisfy `ValidConfig`:

* `IdentityInvariant`: `Spec => []IInv`, from which `LoginStartsOneSession`,
  `NobodyInherits`, `ServiceUsersSeeTheirOwn` and `ViewersAreGranted` follow.

None of the four properties is inductive. The lemma `Settled` (no step changes the
kind of a row that is there) carries all that requests, sessions and pages served
earlier say of a user; it needs `Steps` and `Readers`, which say that they speak of
rows that exist. `Taken` says that a login state in the hands of a callback is
gone, in nobody else's hands and behind no session yet. `Backfilled` is
`PublisherGranted` for the publishers a starting replica has done, whose grants
are not committed: publications that go on meanwhile grant themselves.
`PublisherGranted` needs a stop of all replicas between two configurations; with
old and new ones side by side an old replica would publish without the grant after
the backfill read, until the next start-up.

`BundleContentProofs` holds for every set of names, every limit and word size, every
size of archives, entries and objects, and any number of puts. It assumes what the
modules do (`IntakeAssumption`, `ReaderAssumption`, ...), and `MaxObjectAssumption`:
what is accepted fits into an object.

* `ExpansionBound`: `Spec => []ExpansionBounded`, which is inductive together with the
  types: the LimitReader stops one byte after `Remaining`, and what is counted into
  `total` was compared first.
* `ReaderAligned` and `ReaderImplementsFile`: with `BodyAligned` (a kept body stands
  where the reader does and holds what is left) every step of the reader is one of the
  abstract file or none. `ReadReturns` says what one Read does, whoever calls it.
* `ResponseIsIntact`, for a response or for each part of one: `PageInv` ties what is
  sent to the reader: until bytes are sent the page, or the part, is as it began, and
  while they are read the reader stands at the end of what there is and its body is of
  the object that came from.

A step is one of StageZIP's or none and one of the reader's or none
(`StepOfAPart`), so that each part's invariant is proved about its own steps.
* `OpensOnlyInside`: `Spec => []OpensInside`, for every set of names. `PageNamed` says
  that a page is being answered for a name that `CleanRelative` does not refuse; the
  rest is about names: a path that `Push` has not made begin with `..` is as long as the
  name has gone down more than up (`LevelStep`, `CleanInside`), and a path without `.`,
  `..` and empty segments is its own clean form (`CleanPlain`, `PathsClean`).
* `BridgeFollowsRule`: `Spec => []BridgePlaced`, for documents of any length and any scan
  limit. `BlankedIsCommented` says that what `BlankComments` blanks is what a scan from
  the left finds in comments, `TagFound` that `OpeningTagEnd` then finds the first tag
  outside them, and `OpenInPrefix` that the part that is scanned knows what the
  document knows.

`Clean` and `CommentOpen` are folds and `blank` is a recursive function, so these two need
induction over a name and over a document. The library's induction theorems take an
operator, which the provers cannot instantiate; `InductionUpTo` is about a set of numbers
instead, and follows from the least element of a set (`LeastElement`, from the
well-foundedness of the naturals). With it `FoldExists` and `BlankExists` show that the
functions behind a fold and behind `blank` exist, `CleanSteps` and `OpenSteps` what they
do token by token.

`ShareLinksProofs` holds for every set of shares, cookies and requests, every view limit
and every lifetime:

* `LocksExclusive`: `Spec => [](Wellformed /\ LocksExclude)`. Each request holds the
  locks of the statement it has reached, and no two of them conflict. It is what the
  theorems below rest on and holds through waits, aborts and broken deadlocks.
* `SessionsRevoked`, `RevocationIsFinal`, `ViewsLimited` for `RevokedHasNoSession`,
  `RevocationFinal`, `ViewLimitKept`; `TypeCorrect`.

`RevokedHasNoSession` is about committed rows, and says nothing of the requests under
way. `Excluded` does: a link that is being exchanged is not revoked, because the
exchange holds its row FOR SHARE; and a revocation that deletes sessions has locked, or
has still to lock, every session of its link, because it holds the link's row and so no
session was added since it began. Links revoked by the deletion of their artifact are
left out: an exchange that comes between the deletion's DELETE of sessions and its
UPDATE of shares leaves a cookie row behind, which opens nothing
(`RevocationFinal`). `RevokedMade` keeps a link that is revoked apart from
one that is yet to be created. `ViewsOk` counts the views that were granted and whose
page is not shown yet together with those shown.

`CommentThreadsProofs` holds for every set of viewers, moderators, threads, comments and
requests and every limit:

* `CommentsLimited`, `DeletionFinal`, `ResolverKept`, `NothingPostedToDeleted` for
  `CommentLimit`, `DeletedForGood`, `FirstResolverKept`, `NoPostToDeleted`; `TypeCorrect`.

`LockInv` is the artifact's row: one request at a time is between the count and its
COMMIT or deletes the artifact, and whoever posts found the artifact undeleted after it
got the lock. The three properties about steps follow from the invariant one action at
a time; `DeletionFinal` from EditComment's and DeleteComment's UPDATEs, which look at
`deleted_at` again when they get the row.

`BrandingProofs` holds for every set of themes, processes and requests, every limit and
lifetime:

* `ThemesLimited`, `CachesFresh`, `CachesMonotone` for `ThemeLimit`, `CacheFresh`,
  `CacheMonotone`; `TypeCorrect`.

`MutexHeldOnce` and `RowHeldOnce` say who is alone with a cache and with the singleton
row. From the first follows `RequestFresh`: a row that a query has read and not yet
cached is at least as new as what its process has cached and acknowledged, because the
mutex is held across the query and an acknowledgement needs it. From the second follows
`RoomToCommit`: the room found under the row lock is still there at the COMMIT, as
deletions only make more.

`CommentPanelProofs` holds for every finite set of threads, every pin limit, any number
of loads and of things users do:

* `ListIsFresh` for `ListFresh`. The strengthening `LoadsFresh` says that an answer of
  the newest load is not older than the newest change that was answered; `Budget`, that
  revisions and loads are paid for by users' acts, so that their bounds are never met.
* `ReportsAreCurrent` for `ReportsCurrent`; `TypeCorrect`, which also says that the pins
  the frame has placed are among those it has, that what the panel calls unplaced is in
  its list, and that the frame's generation is not ahead of the panel's.

`ReportsCurrent` speaks of the last report heard, and that is right only because of all
that is still on its way: `PinsCurrent` says of each message in either direction and of
the frame's pins, waiting or taken, that whatever has the panel's last generation is
about the list it shows, as long as the bridge is ready (`Current`): a list that is
loaded while it is not gets no generation of its own. A frame that enables the bridge sends
positions of no pins with the generation it had; these are the exception in
`ReportOk`. `PositionsFirst` is the order in which the frame reports: the tops that the
panel keeps from a list before are replaced before a report of what is missing makes
the panel say that it has heard of the new one.

* `RestIsAgreement` for the first half of `PinsSettle`: whenever nothing is on its way
  and the page has the bridge, the frame has the pins of the list shown and the panel
  knows of each of the first `PinLimit` whether it is on the page and, unless the layout
  has shifted since the bridge last looked, whether it is in view.

An invariant about rest has to say, of every state that is not at rest, what is still to
come. `Settles` does, in four parts:

* `InOrder`: the generations of the pins on their way increase and are above the
  frame's, so that none is overtaken by older ones.
* `Connected`: once the panel has heard of the load event of a complete document, it is
  ready, or an `enable` or its answer is on its way; the frame is enabled, or an
  `enable` comes before the newest pins, which would be ignored otherwise; and when the
  panel is ready the newest pins have arrived or are on their way.
* `FrameRight`: what the frame has placed is what it would find now, unless its timer
  is to come (`PinsFound`), and it remembers having reported just that and what of it is
  in view, unless its animation frame is to come or the layout has shifted
  (`FindsReported`).
* `LastReports`: of each kind, the last report on its way with the frame's generation
  is the one it remembers, or there is none and the panel knows what it said.

That the frame may keep silent when nothing has changed since its last report (`shown`,
`lost`), and must not when it takes new pins (`report(true)`), is where the proof needs
the last two: `PlacedSettles` is the lemma.

What stays with TLC, and why:

* Liveness: `StageReclaimed`, `RevokedContentEnds`, `LocksReleased` and the second half
  of `PinsSettle`. The prover has no rule for fairness.
* `DeletionRevokes`, `HiddenStaysHidden`, `ActiveThemeSaved`, and `Immutable` on S3 when
  a session is sent another PUT after its bundle is acknowledged, are false.

## Assumptions and omissions

* A single-row statement that does not wait is atomic, and so is CommitVersion,
  a SERIALIZABLE transaction. PostgreSQL behaves as documented at READ COMMITTED.
* `CreateShare`'s foreign key takes FOR KEY SHARE on the artifact, which an
  UPDATE of `deleted_at` does not block.
* All replicas have one configuration at a time. `UpsertUser` and
  `UpsertServiceUser` are single statements on one row, hence atomic.
* `CleanupExpired` deletes sessions and login states that no query finds any more,
  so it is no step of `Identity`.
* What a token or an assertion proves is external: a request presents a subject.
  Group membership (`RENDERCASE_ADMIN_GROUPS`) is any Boolean.
* Ids and secrets are fresh; ids of deleted sessions are not used again.
* Shares of different artifacts have no row in common, and comments lock only
  their own artifact, so one artifact is modelled in each.
* One maintenance run at a time. CleanupExpired takes an advisory lock, and a replica
  that does not get it does nothing; but the lock ends with that transaction, before the
  stages are removed. Two replicas' removals may therefore overlap, which the model has
  not. Each removes only what it found dead or too old itself.
* Soft deletion is modelled where each component sees it.
* In a retry after a lost reply of CommitVersion the handler only answers, so the
  answered retry is no step.
* Audit records, hashes, MIME types, comment bodies, the contents of anchors and theme
  appearance are data the properties do not look at. Sizes are left out of
  Publishing and are what BundleIntake is about.
* io.ReadAll, io.CopyN and http.ServeContent are modelled from how `content` uses them;
  the object store delivers the bytes of the object a GET found, or breaks off.
* CommentPanel takes the list from the server as a whole at one moment. The two
  statements of ListCommentThreads (threads, then comments) are read-only and their
  skew shows in the number of comments of a thread, not in the list.
* The browser keeps messages between two windows in order, and drops those for a
  document that is gone.

## Not modelled

* Configuration: environment variables, read and validated once, by one goroutine,
  before anything runs. What of it matters later (`ValidConfig`) is in Identity.
* Wiring, routing, security headers, the mTLS proxy and the MCP tool schemas: no
  state that two steps could disagree on. The tools call the handlers that are
  modelled.
* Audit log: single inserts whose failure is logged and changes nothing else.
* The command-line client: a sequence of three requests; the server's side of any
  such sequence, with repetitions and crashes, is Publishing.
* Templates, static files, administrators' JavaScript, the authoring kit and its
  film player: no shared state.
* In the panel: picking a place, focusing (as far as it does more than scroll), clicks
  on a pin, where on the screen a pin stands, the counter of unread threads. They show
  what the modelled state says, with these exceptions, which no property covers: a click
  on a pin carries no generation and may select another thread while new pins are on
  their way; a pick that is cancelled and begun again while the first is being answered
  leaves the frame picking and the panel not; the counter's loads are not sequenced as
  those of the list are.

### Met while modelling

Behaviour that no statement of the repository contradicts, so that no run is about it:

* `rendercase-cli publish` always sends `artifact_id`
  (`src/cmd/rendercase-cli/main.go:99`), and `createUpload` decodes into a struct
  without JSON names and refuses unknown fields (`src/internal/app/server.go:1149`):
  the underscore makes it one, and every upload of the client is refused.
* Creating or answering a comment reads the row back after COMMIT; if it is deleted
  by then, the caller is told that nothing was found and no audit record is written.
* The composer accepts a second submit while the first is answered, and a retry
  after a lost answer posts twice.
* Threads beyond the first 500 anchored ones are neither placed nor reported as
  unplaced (`PinLimit`).
* A report on the pins of the list before is taken for one on the new list when the
  list was loaded while the bridge was not ready: the generation did not change. The
  next report, forced by the pins sent when it is, puts it right; `ReportsCurrent`
  asks for `ready` for this reason.
* Objects published for a session that expires uncommitted stay for ever on either
  backend; a publication that failed to commit on the filesystem can block the
  session's next one.
* A logo saved through one process can be undone by a save through another within 30
  seconds.

## Plan

Written: all components with concurrent or failing steps, with proofs of their safety
properties for Publishing on both backends, ShareLinks, CommentThreads, CommentPanel,
Branding, Identity and BundleContent.

--------------------------- MODULE CommentThreads ---------------------------
(***************************************************************************)
(* Comment threads on one artifact: requests of its viewers that post,     *)
(* edit, delete, resolve and reopen, concurrently at READ COMMITTED, while *)
(* an administrator may delete the artifact.                               *)
(*                                                                         *)
(* Posting is a transaction that locks the artifact's row; each of its     *)
(* statements is a step and its rows appear when it commits.  The others   *)
(* are one UPDATE each, in two steps, as PostgreSQL runs it: the WHERE     *)
(* clause is evaluated on the statement's snapshot, and when the row has   *)
(* changed by the time it is locked only the row's own columns are looked  *)
(* at again, not the subqueries.  The lookup the handler makes first       *)
(* (threadForUser, commentForUser) asks for nothing that the snapshot does *)
(* not, but for the user's rights, which do not change; the two are one    *)
(* step.                                                                   *)
(***************************************************************************)
EXTENDS Naturals, FiniteSets

CONSTANTS
    Threads,     \* thread ids
    Comments,    \* comment ids
    Users,       \* the artifact's signed-in viewers
    Moderators,  \* the owner and the editors among them
    Reqs,        \* request handlers in flight
    MaxComments, \* MaxCommentsPerArtifact
    None         \* SQL NULL

ASSUME ModeratorsAssumption == Moderators \subseteq Users
ASSUME MaxCommentsAssumption == MaxComments \in Nat
ASSUME NoneAssumption ==
    None \notin Threads /\ None \notin Comments /\ None \notin Users

VARIABLES
    deleted,  \* artifacts.deleted_at is set
    thread,   \* comment_threads
    comment,  \* comments
    req       \* request handlers

vars == <<deleted, thread, comment, req>>

NoThread == [by |-> None, resolvedBy |-> None]
ThreadRows == [by : Users \cup {None}, resolvedBy : Users \cup {None}]

\* text: the body is not empty, which a live comment's is and a deleted one's is
\* not; live: deleted_at is null.
NoComment == [thread |-> None, author |-> None, text |-> FALSE, live |-> FALSE]
CommentRows ==
    {c \in [thread : Threads \cup {None}, author : Users \cup {None},
            text : BOOLEAN, live : BOOLEAN] : c.text = c.live}

Idle == [pc |-> "idle", user |-> None, thread |-> None, comment |-> None]
Requests == [pc : {"idle", "lock", "count", "insert", "edit", "delete",
                   "resolve", "reopen", "admin"},
             user : Users \cup {None}, thread : Threads \cup {None},
             comment : Comments \cup {None}]

TypeOK ==
    /\ deleted \in BOOLEAN
    /\ thread \in [Threads -> ThreadRows]
    /\ comment \in [Comments -> CommentRows]
    /\ req \in [Reqs -> Requests]

Init ==
    /\ deleted = FALSE
    /\ thread = [t \in Threads |-> NoThread]
    /\ comment = [c \in Comments |-> NoComment]
    /\ req = [r \in Reqs |-> Idle]

Stored == {c \in Comments : comment[c].thread # None}
Live(t) == \E c \in Comments : comment[c].thread = t /\ comment[c].live
Visible(t) == ~deleted /\ Live(t)
VisibleComment(c) == ~deleted /\ comment[c].live

\* The artifact's row is locked, by lockCommentQuota or AdminDeleteArtifact.
Locked == \E r \in Reqs : req[r].pc \in {"count", "insert", "admin"}

MayDelete(usr, c) == usr \in Moderators \cup {comment[c].author}
MayResolve(usr, t) == usr \in Moderators \cup {thread[t].by}

Begin(r, pc, usr, t, c) ==
    /\ req[r].pc = "idle"
    /\ req' = [req EXCEPT ![r] = [pc |-> pc, user |-> usr, thread |-> t,
                                  comment |-> c]]
    /\ UNCHANGED <<deleted, thread, comment>>

Goto(r, pc) == req' = [req EXCEPT ![r].pc = pc]
Reply(r) == req' = [req EXCEPT ![r] = Idle]

-----------------------------------------------------------------------------
(* Posting: AddComment, CreateCommentThread.                               *)

\* AddComment's first statement looks for a live comment.
ReplySelect(r, usr, t) == Visible(t) /\ Begin(r, "lock", usr, t, None)

\* createCommentThread looks the artifact up.
ThreadLookup(r, usr) == ~deleted /\ Begin(r, "lock", usr, None, None)

\* Variant: deleted_at is left to the statement before.
LockArtifactAny(r) ==
    /\ req[r].pc = "lock"
    /\ ~Locked
    /\ Goto(r, "count")
    /\ UNCHANGED <<deleted, thread, comment>>

\* lockCommentQuota: SELECT ... AND deleted_at IS NULL FOR UPDATE ...
LockArtifact(r) ==
    /\ req[r].pc = "lock"
    /\ ~Locked
    /\ IF deleted THEN Reply(r) ELSE Goto(r, "count")
    /\ UNCHANGED <<deleted, thread, comment>>

\* Variant: the comments are counted without the lock.
CountUnlocked(r) ==
    /\ req[r].pc \in {"lock", "count"}
    /\ IF Cardinality(Stored) >= MaxComments THEN Reply(r) ELSE Goto(r, "insert")
    /\ UNCHANGED <<deleted, thread, comment>>

\* ... and SELECT count(*), deleted comments included.
Count(r) ==
    /\ req[r].pc = "count"
    /\ IF Cardinality(Stored) >= MaxComments THEN Reply(r) ELSE Goto(r, "insert")
    /\ UNCHANGED <<deleted, thread, comment>>

\* INSERT and COMMIT, of a new thread with its first comment or of a reply.
Insert(r, t, c) ==
    /\ req[r].pc = "insert"
    /\ comment[c] = NoComment
    /\ IF req[r].thread = None
         THEN /\ thread[t] = NoThread
              /\ thread' = [thread EXCEPT ![t].by = req[r].user]
         ELSE t = req[r].thread /\ UNCHANGED thread
    /\ comment' = [comment EXCEPT ![c] = [thread |-> t, author |-> req[r].user,
                                          text |-> TRUE, live |-> TRUE]]
    /\ Reply(r)
    /\ UNCHANGED deleted

-----------------------------------------------------------------------------
(* EditComment, DeleteComment.                                             *)

EditSelect(r, usr, c) ==
    /\ VisibleComment(c)
    /\ comment[c].author = usr
    /\ Begin(r, "edit", usr, None, c)

\* Variant: deleted_at is left to commentForUser.
EditUpdateAny(r) ==
    /\ req[r].pc = "edit"
    /\ comment' = [comment EXCEPT ![req[r].comment].text = TRUE]
    /\ Reply(r)
    /\ UNCHANGED <<deleted, thread>>

EditUpdate(r) ==
    LET c == req[r].comment IN
    /\ req[r].pc = "edit"
    /\ comment' = [comment EXCEPT ![c].text = comment[c].live]
    /\ Reply(r)
    /\ UNCHANGED <<deleted, thread>>

DeleteSelect(r, usr, c) ==
    /\ VisibleComment(c)
    /\ MayDelete(usr, c)
    /\ Begin(r, "delete", usr, None, c)

\* Variant: the row is removed, not marked.
DeleteUpdateHard(r) ==
    /\ req[r].pc = "delete"
    /\ comment' = [comment EXCEPT ![req[r].comment] = NoComment]
    /\ Reply(r)
    /\ UNCHANGED <<deleted, thread>>

DeleteUpdate(r) ==
    LET c == req[r].comment IN
    /\ req[r].pc = "delete"
    /\ comment' = [comment EXCEPT ![c].text = FALSE, ![c].live = FALSE]
    /\ Reply(r)
    /\ UNCHANGED <<deleted, thread>>

-----------------------------------------------------------------------------
(* SetThreadResolved.                                                      *)

ResolveSelect(r, usr, t) ==
    /\ Visible(t)
    /\ MayResolve(usr, t)
    /\ \E pc \in {"resolve", "reopen"} : Begin(r, pc, usr, t, None)

\* Variant: no COALESCE, the thread was open when the statement looked.
ResolveUpdateAny(r) ==
    LET t == req[r].thread IN
    /\ \/ /\ req[r].pc = "resolve"
          /\ thread' = [thread EXCEPT ![t].resolvedBy = req[r].user]
       \/ /\ req[r].pc = "reopen"
          /\ thread' = [thread EXCEPT ![t].resolvedBy = None]
    /\ Reply(r)
    /\ UNCHANGED <<deleted, comment>>

\* COALESCE takes the row as it is when it is locked.
ResolveUpdate(r) ==
    LET t == req[r].thread IN
    /\ \/ /\ req[r].pc = "resolve"
          /\ thread' = [thread EXCEPT ![t].resolvedBy =
                          IF @ = None THEN req[r].user ELSE @]
       \/ /\ req[r].pc = "reopen"
          /\ thread' = [thread EXCEPT ![t].resolvedBy = None]
    /\ Reply(r)
    /\ UNCHANGED <<deleted, comment>>

-----------------------------------------------------------------------------
(* AdminDeleteArtifact as far as comments see it: UPDATE, then COMMIT.     *)

AdminDelete(r) ==
    /\ ~Locked
    /\ ~deleted
    /\ Begin(r, "admin", None, None, None)

AdminCommit(r) ==
    /\ req[r].pc = "admin"
    /\ deleted' = TRUE
    /\ Reply(r)
    /\ UNCHANGED <<thread, comment>>

\* A failed statement or a cancelled request; rollbackTransaction.
Abort(r) ==
    /\ req[r].pc # "idle"
    /\ Reply(r)
    /\ UNCHANGED <<deleted, thread, comment>>

Next ==
    \E r \in Reqs :
        \/ \E usr \in Users :
             \/ ThreadLookup(r, usr)
             \/ \E t \in Threads : ReplySelect(r, usr, t) \/ ResolveSelect(r, usr, t)
             \/ \E c \in Comments : EditSelect(r, usr, c) \/ DeleteSelect(r, usr, c)
        \/ LockArtifact(r) \/ Count(r)
        \/ \E t \in Threads, c \in Comments : Insert(r, t, c)
        \/ EditUpdate(r) \/ DeleteUpdate(r) \/ ResolveUpdate(r)
        \/ AdminDelete(r) \/ AdminCommit(r)
        \/ Abort(r)

Spec == Init /\ [][Next]_vars

-----------------------------------------------------------------------------
(* Properties.                                                             *)

\* However many viewers post at once, an artifact never has more comments than
\* MaxCommentsPerArtifact, and deleting comments makes no room for new ones
\* (lockCommentQuota, whose lock is on a row the count does not read).
CommentLimit ==
    /\ Cardinality(Stored) <= MaxComments
    /\ \A r \in Reqs : req[r].pc = "insert" => Cardinality(Stored) < MaxComments

\* A deleted comment stays deleted and blank, and no comment is ever dropped or
\* moved, also when its author edits it while a moderator deletes it
\* (EditComment, DeleteComment).
DeletedForGood ==
    [][\A c \in Stored :
          /\ comment'[c].thread = comment[c].thread
          /\ ~comment[c].live => comment'[c] = comment[c]]_vars

\* The first to resolve a thread is on record until somebody reopens it, however
\* many resolve it at once (SetThreadResolved).
FirstResolverKept ==
    [][\A t \in Threads :
          thread[t].resolvedBy # None =>
            \/ thread'[t].resolvedBy = thread[t].resolvedBy
            \/ \E r \in Reqs : /\ req[r].pc = "reopen"
                               /\ req[r].thread = t
                               /\ thread'[t].resolvedBy = None]_vars

\* Nothing is posted to an artifact once its deletion is committed, by a request
\* that found it undeleted either (AdminDeleteArtifact against lockCommentQuota).
NoPostToDeleted ==
    [][deleted => Stored' = Stored]_vars

\* "A thread with no live comment is hidden, so it cannot be revived by a reply"
\* (AddComment).
HiddenStaysHidden ==
    [][\A t \in Threads :
          thread[t] # NoThread /\ ~Live(t) => ~Live(t)']_vars
=============================================================================

------------------------ MODULE CommentThreadsProofs ------------------------
(***************************************************************************)
(* Theorems about CommentThreads, for every set of viewers, moderators,    *)
(* threads, comments and requests and every limit.                         *)
(***************************************************************************)
EXTENDS CommentThreads, FiniteSetTheorems, TLAPS

-----------------------------------------------------------------------------
(* The inductive invariant.                                                *)

\* The requests that hold the lock on the artifact's row.
Holding(r) == req[r].pc \in {"count", "insert", "admin"}

\* The lock has one holder, and whoever holds it to post found the artifact
\* undeleted when it took it.
LockInv ==
    /\ \A q, r \in Reqs : Holding(q) /\ Holding(r) => q = r
    /\ \A r \in Reqs : req[r].pc \in {"count", "insert"} => ~deleted

\* The number of stored comments is one the limit can be compared with.
CountInv == IsFiniteSet(Stored) /\ CommentLimit

IInv == TypeOK /\ LockInv /\ CountInv

-----------------------------------------------------------------------------
(* Type correctness.                                                       *)

LEMMA ValueTypes ==
    Idle \in Requests /\ NoThread \in ThreadRows /\ NoComment \in CommentRows
BY DEF Idle, Requests, NoThread, ThreadRows, NoComment, CommentRows

\* What a request turns into when it begins, goes on and is answered is well
\* typed.
LEMMA BeginType ==
    ASSUME TypeOK, NEW r \in Reqs, NEW usr \in Users \cup {None},
           NEW t \in Threads \cup {None}, NEW c \in Comments \cup {None},
           NEW pc \in {"lock", "edit", "delete", "resolve", "reopen", "admin"},
           Begin(r, pc, usr, t, c)
    PROVE  TypeOK'
<1>1. [pc |-> pc, user |-> usr, thread |-> t, comment |-> c] \in Requests
  BY DEF Requests
<1>2. QED BY <1>1 DEF Begin, TypeOK

LEMMA GotoType ==
    ASSUME TypeOK, NEW r \in Reqs, NEW pc \in {"count", "insert"}, Goto(r, pc)
    PROVE  req' \in [Reqs -> Requests]
<1>1. [req[r] EXCEPT !.pc = pc] \in Requests
  BY DEF TypeOK, Requests
<1>2. QED BY <1>1 DEF Goto, TypeOK

LEMMA ReplyType ==
    ASSUME TypeOK, NEW r \in Reqs, Reply(r)
    PROVE  req' \in [Reqs -> Requests]
BY ValueTypes DEF Reply, TypeOK

LEMMA InitTypeOK == Init => TypeOK
BY ValueTypes DEF Init, TypeOK

\* Each statement keeps the rows and the requests in their types.
LEMMA NextTypeOK == TypeOK /\ [Next]_vars => TypeOK'
<1> SUFFICES ASSUME TypeOK, [Next]_vars PROVE TypeOK'
  OBVIOUS
<1>1. ASSUME NEW r \in Reqs, NEW usr \in Users, ThreadLookup(r, usr)
      PROVE  TypeOK'
  BY <1>1, BeginType DEF ThreadLookup
<1>2. ASSUME NEW r \in Reqs, NEW usr \in Users, NEW t \in Threads,
             ReplySelect(r, usr, t)
      PROVE  TypeOK'
  BY <1>2, BeginType DEF ReplySelect
<1>3. ASSUME NEW r \in Reqs, NEW usr \in Users, NEW t \in Threads,
             ResolveSelect(r, usr, t)
      PROVE  TypeOK'
  BY <1>3, BeginType DEF ResolveSelect
<1>4. ASSUME NEW r \in Reqs, NEW usr \in Users, NEW c \in Comments,
             EditSelect(r, usr, c)
      PROVE  TypeOK'
  BY <1>4, BeginType DEF EditSelect
<1>5. ASSUME NEW r \in Reqs, NEW usr \in Users, NEW c \in Comments,
             DeleteSelect(r, usr, c)
      PROVE  TypeOK'
  BY <1>5, BeginType DEF DeleteSelect
<1>6. ASSUME NEW r \in Reqs, LockArtifact(r) PROVE TypeOK'
  BY <1>6, GotoType, ReplyType DEF LockArtifact, TypeOK
<1>7. ASSUME NEW r \in Reqs, Count(r) PROVE TypeOK'
  BY <1>7, GotoType, ReplyType DEF Count, TypeOK
<1>8. ASSUME NEW r \in Reqs, NEW t \in Threads, NEW c \in Comments, Insert(r, t, c)
      PROVE  TypeOK'
  <2>1. req[r].user \in Users \cup {None}
    BY DEF TypeOK, Requests
  <2>2. [thread |-> t, author |-> req[r].user, text |-> TRUE, live |-> TRUE]
          \in CommentRows
    BY <2>1 DEF CommentRows
  <2>3. comment' \in [Comments -> CommentRows]
    BY <1>8, <2>2 DEF Insert, TypeOK
  <2>4. [thread[t] EXCEPT !.by = req[r].user] \in ThreadRows
    BY <2>1 DEF TypeOK, ThreadRows
  <2>5. thread' \in [Threads -> ThreadRows]
    BY <1>8, <2>4 DEF Insert, TypeOK
  <2>6. QED BY <1>8, <2>3, <2>5, ReplyType DEF Insert, TypeOK
<1>9. ASSUME NEW r \in Reqs, EditUpdate(r) PROVE TypeOK'
  <2> DEFINE c == req[r].comment
  <2>1. c \in Comments => [comment[c] EXCEPT !.text = comment[c].live] \in CommentRows
    BY DEF TypeOK, CommentRows
  <2>2. comment' \in [Comments -> CommentRows]
    BY <1>9, <2>1 DEF EditUpdate, TypeOK
  <2>3. QED BY <1>9, <2>2, ReplyType DEF EditUpdate, TypeOK
<1>10. ASSUME NEW r \in Reqs, DeleteUpdate(r) PROVE TypeOK'
  <2> DEFINE c == req[r].comment
  <2>1. c \in Comments =>
          [comment[c] EXCEPT !.text = FALSE, !.live = FALSE] \in CommentRows
    BY DEF TypeOK, CommentRows
  <2>2. comment' \in [Comments -> CommentRows]
    BY <1>10, <2>1 DEF DeleteUpdate, TypeOK
  <2>3. QED BY <1>10, <2>2, ReplyType DEF DeleteUpdate, TypeOK
<1>11. ASSUME NEW r \in Reqs, ResolveUpdate(r) PROVE TypeOK'
  <2>1. req[r].user \in Users \cup {None}
    BY DEF TypeOK, Requests
  <2>2. thread' \in [Threads -> ThreadRows]
    BY <1>11, <2>1 DEF ResolveUpdate, TypeOK, ThreadRows
  <2>3. QED BY <1>11, <2>2, ReplyType DEF ResolveUpdate, TypeOK
<1>12. ASSUME NEW r \in Reqs, AdminDelete(r) PROVE TypeOK'
  BY <1>12, BeginType DEF AdminDelete
<1>13. ASSUME NEW r \in Reqs, AdminCommit(r) PROVE TypeOK'
  BY <1>13, ReplyType DEF AdminCommit, TypeOK
<1>14. ASSUME NEW r \in Reqs, Abort(r) PROVE TypeOK'
  BY <1>14, ReplyType DEF Abort, TypeOK
<1>15. CASE UNCHANGED vars
  BY <1>15 DEF vars, TypeOK
<1>16. QED
  BY <1>1, <1>2, <1>3, <1>4, <1>5, <1>6, <1>7, <1>8, <1>9, <1>10, <1>11, <1>12,
     <1>13, <1>14, <1>15 DEF Next

-----------------------------------------------------------------------------
(* The lock on the artifact's row.                                         *)

\* A step of a request that neither takes the lock nor deletes the artifact keeps
\* what is known of the lock.
LEMMA TakesNoLock ==
    ASSUME LockInv, NEW r \in Reqs, \A q \in Reqs \ {r} : req'[q] = req[q],
           deleted' = deleted, Holding(r)' => Holding(r),
           req'[r].pc \in {"count", "insert"} => req[r].pc \in {"count", "insert"}
    PROVE  LockInv'
BY DEF LockInv, Holding

\* Most requests begin with a statement that takes no lock.
LEMMA BeginLock ==
    ASSUME TypeOK, LockInv, NEW r \in Reqs, NEW usr, NEW t, NEW c,
           NEW pc \in {"lock", "edit", "delete", "resolve", "reopen"},
           Begin(r, pc, usr, t, c)
    PROVE  LockInv'
<1>1. \A q \in Reqs \ {r} : req'[q] = req[q]
  BY DEF Begin, TypeOK
<1>2. req'[r].pc = pc /\ deleted' = deleted
  BY DEF Begin, TypeOK
<1>3. QED BY <1>1, <1>2, TakesNoLock DEF Holding

\* A request that is answered gives the lock back.
LEMMA ReplyLock ==
    ASSUME TypeOK, LockInv, NEW r \in Reqs, Reply(r), deleted' = deleted
    PROVE  LockInv'
<1>1. \A q \in Reqs \ {r} : req'[q] = req[q]
  BY DEF Reply, TypeOK
<1>2. req'[r].pc = "idle"
  BY DEF Reply, TypeOK, Idle
<1>3. QED BY <1>1, <1>2, TakesNoLock DEF Holding

\* Posting and deleting the artifact exclude each other: the lock is taken only
\* when it is free, and posting goes on only when the artifact is undeleted then.
LEMMA NextLock == TypeOK /\ LockInv /\ [Next]_vars => LockInv'
<1> SUFFICES ASSUME TypeOK, LockInv, [Next]_vars PROVE LockInv'
  OBVIOUS
<1>1. ASSUME NEW r \in Reqs, NEW usr \in Users, ThreadLookup(r, usr)
      PROVE  LockInv'
  BY <1>1, BeginLock DEF ThreadLookup
<1>2. ASSUME NEW r \in Reqs, NEW usr \in Users, NEW t \in Threads,
             ReplySelect(r, usr, t)
      PROVE  LockInv'
  BY <1>2, BeginLock DEF ReplySelect
<1>3. ASSUME NEW r \in Reqs, NEW usr \in Users, NEW t \in Threads,
             ResolveSelect(r, usr, t)
      PROVE  LockInv'
  BY <1>3, BeginLock DEF ResolveSelect
<1>4. ASSUME NEW r \in Reqs, NEW usr \in Users, NEW c \in Comments,
             EditSelect(r, usr, c)
      PROVE  LockInv'
  BY <1>4, BeginLock DEF EditSelect
<1>5. ASSUME NEW r \in Reqs, NEW usr \in Users, NEW c \in Comments,
             DeleteSelect(r, usr, c)
      PROVE  LockInv'
  BY <1>5, BeginLock DEF DeleteSelect
<1>6. ASSUME NEW r \in Reqs, LockArtifact(r) PROVE LockInv'
  <2>1. CASE Reply(r)
    BY <1>6, <2>1, ReplyLock DEF LockArtifact
  <2>2. CASE ~deleted /\ Goto(r, "count")
    <3>1. \A q \in Reqs : ~Holding(q)
      BY <1>6 DEF LockArtifact, Locked, Holding
    <3>2. \A q \in Reqs \ {r} : req'[q] = req[q]
      BY <2>2 DEF Goto, TypeOK
    <3>3. ~deleted'
      BY <1>6, <2>2 DEF LockArtifact
    <3>4. QED BY <3>1, <3>2, <3>3 DEF LockInv, Holding
  <2>3. QED BY <1>6, <2>1, <2>2 DEF LockArtifact
<1>7. ASSUME NEW r \in Reqs, Count(r) PROVE LockInv'
  <2>1. CASE Reply(r)
    BY <1>7, <2>1, ReplyLock DEF Count
  <2>2. CASE Goto(r, "insert")
    <3>1. \A q \in Reqs \ {r} : req'[q] = req[q]
      BY <2>2 DEF Goto, TypeOK
    <3>2. QED BY <1>7, <3>1, TakesNoLock DEF Count, Holding
  <2>3. QED BY <1>7, <2>1, <2>2 DEF Count
<1>8. ASSUME NEW r \in Reqs, NEW t \in Threads, NEW c \in Comments, Insert(r, t, c)
      PROVE  LockInv'
  BY <1>8, ReplyLock DEF Insert
<1>9. ASSUME NEW r \in Reqs, EditUpdate(r) \/ DeleteUpdate(r) \/ ResolveUpdate(r)
      PROVE  LockInv'
  BY <1>9, ReplyLock DEF EditUpdate, DeleteUpdate, ResolveUpdate
<1>10. ASSUME NEW r \in Reqs, AdminDelete(r) PROVE LockInv'
  <2>1. \A q \in Reqs : ~Holding(q)
    BY <1>10 DEF AdminDelete, Locked, Holding
  <2>2. /\ \A q \in Reqs \ {r} : req'[q] = req[q]
        /\ req'[r].pc = "admin" /\ deleted' = deleted
    BY <1>10 DEF AdminDelete, Begin, TypeOK
  <2>3. QED BY <2>1, <2>2 DEF LockInv, Holding
<1>11. ASSUME NEW r \in Reqs, AdminCommit(r) PROVE LockInv'
  <2>1. Holding(r)
    BY <1>11 DEF AdminCommit, Holding
  <2>2. /\ \A q \in Reqs \ {r} : req'[q] = req[q]
        /\ req'[r].pc = "idle"
    BY <1>11 DEF AdminCommit, Reply, Idle, TypeOK
  <2>3. \A q \in Reqs \ {r} : ~Holding(q)
    BY <2>1 DEF LockInv
  <2>4. QED BY <2>2, <2>3 DEF LockInv, Holding
<1>12. ASSUME NEW r \in Reqs, Abort(r) PROVE LockInv'
  BY <1>12, ReplyLock DEF Abort
<1>13. CASE UNCHANGED vars
  BY <1>13 DEF vars, LockInv, Holding
<1>14. QED
  BY <1>1, <1>2, <1>3, <1>4, <1>5, <1>6, <1>7, <1>8, <1>9, <1>10, <1>11, <1>12,
     <1>13 DEF Next
-----------------------------------------------------------------------------
(* What the statements do to the comments.                                 *)

\* The statements that change comments are the INSERT and the two UPDATEs.
LEMMA WhoChangesComments ==
    ASSUME Next
    PROVE  \/ comment' = comment
           \/ \E r \in Reqs, t \in Threads, c \in Comments : Insert(r, t, c)
           \/ \E r \in Reqs : EditUpdate(r) \/ DeleteUpdate(r)
BY DEF Next, ThreadLookup, ReplySelect, ResolveSelect, EditSelect, DeleteSelect,
   Begin, LockArtifact, Count, ResolveUpdate, AdminDelete, AdminCommit, Abort

\* An INSERT writes a row that was not there and leaves the others alone.
LEMMA InsertRow ==
    ASSUME TypeOK, NEW r \in Reqs, NEW t \in Threads, NEW c \in Comments,
           Insert(r, t, c)
    PROVE  /\ c \notin Stored
           /\ comment'[c].thread = t
           /\ \A d \in Comments \ {c} : comment'[d] = comment[d]
           /\ Stored' = Stored \cup {c}
<1>1. c \notin Stored
  BY DEF Insert, Stored, NoComment
<1>2. /\ comment'[c].thread = t
      /\ \A d \in Comments \ {c} : comment'[d] = comment[d]
  BY DEF Insert, TypeOK
<1>3. t # None
  BY NoneAssumption
<1>4. QED BY <1>1, <1>2, <1>3 DEF Stored

\* A record of a comment is what its fields are.
LEMMA SameRow ==
    ASSUME NEW c \in CommentRows, NEW d \in CommentRows, c.thread = d.thread,
           c.author = d.author, c.text = d.text, c.live = d.live
    PROVE  c = d
BY DEF CommentRows

\* An UPDATE moves no comment to another thread, and does nothing to a comment
\* that is deleted already.
LEMMA UpdateRow ==
    ASSUME TypeOK, NEW r \in Reqs, EditUpdate(r) \/ DeleteUpdate(r),
           NEW c \in Comments
    PROVE  /\ comment'[c].thread = comment[c].thread
           /\ ~comment[c].live => comment'[c] = comment[c]
<1>1. comment[c] \in CommentRows
  BY DEF TypeOK
<1>2. CASE c # req[r].comment
  BY <1>2 DEF EditUpdate, DeleteUpdate, TypeOK
<1>3. ASSUME c = req[r].comment, EditUpdate(r)
      PROVE  /\ comment'[c].thread = comment[c].thread
             /\ ~comment[c].live => comment'[c] = comment[c]
  <2>1. comment'[c] = [comment[c] EXCEPT !.text = comment[c].live]
    BY <1>3 DEF EditUpdate, TypeOK
  <2>2. /\ comment'[c].thread = comment[c].thread
        /\ comment'[c].author = comment[c].author
        /\ comment'[c].text = comment[c].live
        /\ comment'[c].live = comment[c].live
        /\ comment'[c] \in CommentRows
    BY <1>1, <2>1 DEF CommentRows
  <2>3. comment[c].text = comment[c].live
    BY <1>1 DEF CommentRows
  <2>4. QED BY <1>1, <2>2, <2>3, SameRow
<1>4. ASSUME c = req[r].comment, DeleteUpdate(r)
      PROVE  /\ comment'[c].thread = comment[c].thread
             /\ ~comment[c].live => comment'[c] = comment[c]
  <2>1. comment'[c] = [comment[c] EXCEPT !.text = FALSE, !.live = FALSE]
    BY <1>4 DEF DeleteUpdate, TypeOK
  <2>2. /\ comment'[c].thread = comment[c].thread
        /\ comment'[c].author = comment[c].author
        /\ comment'[c].text = FALSE
        /\ comment'[c].live = FALSE
        /\ comment'[c] \in CommentRows
    BY <1>1, <2>1 DEF CommentRows
  <2>3. /\ comment[c].text = comment[c].live
        /\ comment[c].live \in BOOLEAN
    BY <1>1 DEF CommentRows
  <2>4. QED BY <1>1, <2>2, <2>3, SameRow
<1>5. QED BY <1>2, <1>3, <1>4

\* So an UPDATE leaves the set of stored comments as it is.
LEMMA UpdateStored ==
    ASSUME TypeOK, NEW r \in Reqs, EditUpdate(r) \/ DeleteUpdate(r)
    PROVE  Stored' = Stored
<1>1. \A c \in Comments : comment'[c].thread = comment[c].thread
  BY UpdateRow
<1>2. QED BY <1>1 DEF Stored

-----------------------------------------------------------------------------
(* The limit on comments.                                                  *)

\* The comments that Count has counted under the lock are still all there are
\* when the request inserts: only the holder of the lock adds one, and deleting
\* a comment changes no count.
LEMMA NextCount == TypeOK /\ LockInv /\ CountInv /\ [Next]_vars => CountInv'
<1> SUFFICES ASSUME TypeOK, LockInv, CountInv, [Next]_vars PROVE CountInv'
  OBVIOUS
<1>1. /\ IsFiniteSet(Stored) /\ Cardinality(Stored) \in Nat
      /\ Cardinality(Stored) <= MaxComments /\ MaxComments \in Nat
  BY FS_CardinalityType, MaxCommentsAssumption DEF CountInv, CommentLimit
<1>2. ASSUME NEW r \in Reqs, NEW t \in Threads, NEW c \in Comments, Insert(r, t, c)
      PROVE  CountInv'
  <2>1. c \notin Stored /\ Stored' = Stored \cup {c}
    BY <1>2, InsertRow
  <2>2. IsFiniteSet(Stored') /\ Cardinality(Stored') = Cardinality(Stored) + 1
    BY <1>1, <2>1, FS_AddElement
  <2>3. Cardinality(Stored) < MaxComments
    BY <1>2 DEF Insert, CountInv, CommentLimit
  <2>4. \A q \in Reqs : req'[q].pc # "insert"
    BY <1>2 DEF Insert, Reply, Idle, LockInv, Holding, TypeOK
  <2>5. QED BY <1>1, <2>2, <2>3, <2>4 DEF CountInv, CommentLimit
<1>3. ASSUME NEW r \in Reqs, Count(r) PROVE CountInv'
  <2>1. Stored' = Stored
    BY <1>3 DEF Count, Stored
  <2>2. ASSUME NEW q \in Reqs, req'[q].pc = "insert"
        PROVE  Cardinality(Stored) < MaxComments
    <3>1. CASE Cardinality(Stored) >= MaxComments
      <4>1. Reply(r)
        BY <1>3, <3>1 DEF Count
      <4>2. req[q].pc = "insert"
        BY <2>2, <4>1 DEF Reply, Idle, TypeOK
      <4>3. QED BY <4>2 DEF CountInv, CommentLimit
    <3>2. QED BY <1>1, <3>1
  <2>3. QED BY <1>1, <2>1, <2>2 DEF CountInv, CommentLimit
<1>4. ASSUME Stored' = Stored,
             \A q \in Reqs : req'[q].pc = "insert" => req[q].pc = "insert"
      PROVE  CountInv'
  BY <1>4 DEF CountInv, CommentLimit
<1>5. ASSUME NEW r \in Reqs,
             \/ \E usr \in Users :
                  \/ ThreadLookup(r, usr)
                  \/ \E t \in Threads : ReplySelect(r, usr, t) \/ ResolveSelect(r, usr, t)
                  \/ \E c \in Comments : EditSelect(r, usr, c) \/ DeleteSelect(r, usr, c)
             \/ AdminDelete(r)
      PROVE  CountInv'
  <2>1. \E pc \in {"lock", "edit", "delete", "resolve", "reopen", "admin"} :
          \E usr \in Users \cup {None}, t \in Threads \cup {None},
             c \in Comments \cup {None} : Begin(r, pc, usr, t, c)
    BY <1>5 DEF ThreadLookup, ReplySelect, ResolveSelect, EditSelect, DeleteSelect,
       AdminDelete
  <2>2. QED BY <1>4, <2>1 DEF Begin, Stored, TypeOK
<1>6. ASSUME NEW r \in Reqs, EditUpdate(r) \/ DeleteUpdate(r) PROVE CountInv'
  <2>1. Reply(r)
    BY <1>6 DEF EditUpdate, DeleteUpdate
  <2>2. QED BY <1>4, <1>6, <2>1, UpdateStored DEF Reply, Idle, TypeOK
<1>7. ASSUME NEW r \in Reqs,
             LockArtifact(r) \/ ResolveUpdate(r) \/ AdminCommit(r) \/ Abort(r)
      PROVE  CountInv'
  <2>1. Stored' = Stored
    BY <1>7 DEF LockArtifact, ResolveUpdate, AdminCommit, Abort, Stored
  <2>2. Reply(r) \/ Goto(r, "count")
    BY <1>7 DEF LockArtifact, ResolveUpdate, AdminCommit, Abort
  <2>3. QED BY <1>4, <2>1, <2>2 DEF Reply, Goto, Idle, TypeOK, Requests
<1>8. CASE UNCHANGED vars
  BY <1>4, <1>8 DEF vars, Stored
<1>9. QED BY <1>2, <1>3, <1>5, <1>6, <1>7, <1>8 DEF Next

-----------------------------------------------------------------------------
(* The theorems.                                                           *)

LEMMA InitIInv == Init => IInv
<1> SUFFICES ASSUME Init PROVE IInv
  OBVIOUS
<1>1. TypeOK
  BY InitTypeOK
<1>2. LockInv
  BY DEF Init, LockInv, Holding, Idle
<1>3. Stored = {}
  BY DEF Init, Stored, NoComment
<1>4. IsFiniteSet({}) /\ Cardinality({}) = 0
  BY FS_EmptySet
<1>5. CountInv
  BY <1>3, <1>4, MaxCommentsAssumption DEF CountInv, CommentLimit, Init, Idle
<1>6. QED BY <1>1, <1>2, <1>5 DEF IInv

LEMMA Invariance == Spec => []IInv
<1>1. IInv /\ [Next]_vars => IInv'
  BY NextTypeOK, NextLock, NextCount DEF IInv
<1>2. QED BY <1>1, InitIInv, PTL DEF Spec

\* The rows and the requests keep their types; a comment has a text exactly when
\* it is live.
THEOREM TypeCorrect == Spec => []TypeOK
<1>1. IInv => TypeOK
  BY DEF IInv
<1>2. QED BY <1>1, Invariance, PTL

\* The artifact never has more comments than MaxCommentsPerArtifact, for every
\* number of viewers that post at once (lockCommentQuota).
THEOREM CommentsLimited == Spec => []CommentLimit
<1>1. IInv => CommentLimit
  BY DEF IInv, CountInv
<1>2. QED BY <1>1, Invariance, PTL

\* No statement brings a deleted comment back, gives it a text, moves a comment or
\* drops one (EditComment, DeleteComment).
LEMMA StepDeleted ==
    IInv /\ [Next]_vars =>
       [\A c \in Stored :
           /\ comment'[c].thread = comment[c].thread
           /\ ~comment[c].live => comment'[c] = comment[c]]_vars
<1> SUFFICES ASSUME IInv, Next, NEW c \in Stored
             PROVE  /\ comment'[c].thread = comment[c].thread
                    /\ ~comment[c].live => comment'[c] = comment[c]
  OBVIOUS
<1>1. TypeOK /\ c \in Comments
  BY DEF IInv, Stored
<1>2. ASSUME NEW r \in Reqs, NEW t \in Threads, NEW d \in Comments, Insert(r, t, d)
      PROVE  comment'[c] = comment[c]
  BY <1>1, <1>2, InsertRow
<1>3. ASSUME NEW r \in Reqs, EditUpdate(r) \/ DeleteUpdate(r)
      PROVE  /\ comment'[c].thread = comment[c].thread
             /\ ~comment[c].live => comment'[c] = comment[c]
  BY <1>1, <1>3, UpdateRow
<1>4. QED BY <1>2, <1>3, WhoChangesComments

\* A deleted comment stays deleted and blank, whoever edits it at that moment.
THEOREM DeletionFinal == Spec => DeletedForGood
<1>1. Spec => [][\A c \in Stored :
                    /\ comment'[c].thread = comment[c].thread
                    /\ ~comment[c].live => comment'[c] = comment[c]]_vars
  BY Invariance, StepDeleted, PTL DEF Spec
<1>2. QED BY <1>1 DEF DeletedForGood

\* No statement but a reopening takes the name of whoever resolved a thread off
\* it (SetThreadResolved).
LEMMA StepResolver ==
    IInv /\ [Next]_vars =>
       [\A t \in Threads :
          thread[t].resolvedBy # None =>
            \/ thread'[t].resolvedBy = thread[t].resolvedBy
            \/ \E r \in Reqs : /\ req[r].pc = "reopen"
                               /\ req[r].thread = t
                               /\ thread'[t].resolvedBy = None]_vars
<1> SUFFICES ASSUME IInv, Next, NEW t \in Threads, thread[t].resolvedBy # None
             PROVE  \/ thread'[t].resolvedBy = thread[t].resolvedBy
                    \/ \E r \in Reqs : /\ req[r].pc = "reopen"
                                       /\ req[r].thread = t
                                       /\ thread'[t].resolvedBy = None
  OBVIOUS
<1>1. thread \in [Threads -> ThreadRows]
  BY DEF IInv, TypeOK
<1>2. ASSUME NEW r \in Reqs, NEW u \in Threads, NEW c \in Comments, Insert(r, u, c)
      PROVE  thread'[t].resolvedBy = thread[t].resolvedBy
  BY <1>1, <1>2 DEF Insert, ThreadRows
<1>3. ASSUME NEW r \in Reqs, ResolveUpdate(r)
      PROVE  \/ thread'[t].resolvedBy = thread[t].resolvedBy
             \/ /\ req[r].pc = "reopen"
                /\ req[r].thread = t
                /\ thread'[t].resolvedBy = None
  BY <1>1, <1>3 DEF ResolveUpdate, ThreadRows
<1>4. \/ thread' = thread
      \/ \E r \in Reqs, u \in Threads, c \in Comments : Insert(r, u, c)
      \/ \E r \in Reqs : ResolveUpdate(r)
  BY DEF Next, ThreadLookup, ReplySelect, ResolveSelect, EditSelect, DeleteSelect,
     Begin, LockArtifact, Count, EditUpdate, DeleteUpdate, AdminDelete,
     AdminCommit, Abort
<1>5. QED BY <1>2, <1>3, <1>4

\* However many resolve a thread at once, the first of them stays on record until
\* somebody reopens it.
THEOREM ResolverKept == Spec => FirstResolverKept
<1>1. Spec =>
        [][\A t \in Threads :
             thread[t].resolvedBy # None =>
               \/ thread'[t].resolvedBy = thread[t].resolvedBy
               \/ \E r \in Reqs : /\ req[r].pc = "reopen"
                                  /\ req[r].thread = t
                                  /\ thread'[t].resolvedBy = None]_vars
  BY Invariance, StepResolver, PTL DEF Spec
<1>2. QED BY <1>1 DEF FirstResolverKept

\* An INSERT runs under the lock that AdminDeleteArtifact needs, taken when the
\* artifact was undeleted.
LEMMA StepNoPost == IInv /\ [Next]_vars => [deleted => Stored' = Stored]_vars
<1> SUFFICES ASSUME IInv, Next, deleted PROVE Stored' = Stored
  OBVIOUS
<1>1. TypeOK /\ LockInv
  BY DEF IInv
<1>2. ASSUME NEW r \in Reqs, NEW t \in Threads, NEW c \in Comments, Insert(r, t, c)
      PROVE  FALSE
  BY <1>1, <1>2 DEF Insert, LockInv
<1>3. ASSUME NEW r \in Reqs, EditUpdate(r) \/ DeleteUpdate(r)
      PROVE  Stored' = Stored
  BY <1>1, <1>3, UpdateStored
<1>4. CASE comment' = comment
  BY <1>4 DEF Stored
<1>5. QED BY <1>2, <1>3, <1>4, WhoChangesComments

\* Nothing is posted to an artifact once its deletion is committed.
THEOREM NothingPostedToDeleted == Spec => NoPostToDeleted
<1>1. Spec => [][deleted => Stored' = Stored]_vars
  BY Invariance, StepNoPost, PTL DEF Spec
<1>2. QED BY <1>1 DEF NoPostToDeleted
=============================================================================

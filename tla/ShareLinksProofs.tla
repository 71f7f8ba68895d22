-------------------------- MODULE ShareLinksProofs --------------------------
(***************************************************************************)
(* Theorems about ShareLinks, for every set of shares, session cookies and *)
(* requests, every limit and every lifetime.                               *)
(***************************************************************************)
EXTENDS ShareLinks, FiniteSetTheorems, TLAPS

-----------------------------------------------------------------------------
(* The inductive invariant.                                                *)

\* What a request at a step has found and locked on its way there.
RequestOk(q) ==
    /\ q.pc \in {"idle", "pin", "version"} => q.held = {} /\ q.reads = {}
    /\ q.pc \in {"exchange", "revoke", "purge", "pin", "version"} => q.share \in Shares
    /\ q.pc = "exchange" => q.key \in Keys /\ q.share \in q.reads
    /\ q.pc \in {"revoke", "purge"} => q.share \in q.held

Wellformed == \A r \in Reqs : RequestOk(req[r])

\* A row that is locked for update is locked by nobody else, for share either.
LocksExclude ==
    \A q, r \in Reqs : q # r => req[q].held \cap Locks(r) = {}

\* A link that is being exchanged is not revoked, and a revocation has locked, or
\* is still to lock, every session of its link.
Excluded ==
    /\ \A r \in Reqs : req[r].pc = "exchange" => ~share[req[r].share].revoked
    /\ \A r \in Reqs, k \in Keys :
          req[r].pc = "purge" /\ session[k].share = req[r].share =>
             k \in req[r].held \cup req[r].todo
    /\ \A s \in Shares, k \in Keys :
          share[s].revoked /\ ~deleted => session[k].share # s

\* Only links that have been created are revoked, as long as the artifact is there.
RevokedMade ==
    /\ \A r \in Reqs : req[r].pc \in {"revoke", "purge"} => share[req[r].share].made
    /\ \A s \in Shares : share[s].revoked /\ ~deleted => share[s].made

\* The views that have been counted and not shown yet; a link that is not made
\* has none.
Underway(s) == {r \in Reqs : req[r].pc \in {"pin", "version"} /\ req[r].share = s}

ViewsOk(s) ==
    /\ IsFiniteSet(Underway(s))
    /\ shown[s] + Cardinality(Underway(s)) <= share[s].views
    /\ share[s].limit # None => share[s].views <= share[s].limit
    /\ ~share[s].made => share[s].views = 0

ViewsCounted == \A s \in Shares : ViewsOk(s)

IInv == TypeOK /\ Wellformed /\ LocksExclude /\ Excluded /\ RevokedMade /\ ViewsCounted

-----------------------------------------------------------------------------
(* Type correctness.                                                       *)

\* The bounds, as facts about numbers.
LEMMA Bounds ==
    /\ MaxLimit \in Nat /\ MaxViews \in Nat
    /\ Life \in Nat /\ SessionTTL \in Nat /\ TicketTTL \in Nat
BY BoundsAssumption

LEMMA ValueTypes ==
    NoShare \in ShareRows /\ NoSession \in SessionRows /\ Idle \in Requests
BY Bounds DEF NoShare, ShareRows, NoSession, SessionRows, Idle, Requests

\* A deadline that a tick brings nearer stays in its range; one that is not set
\* stays unset.
LEMMA LessType ==
    ASSUME NEW max \in Nat, NEW n \in (0..max) \cup {None}
    PROVE  /\ Less(n) \in (0..max) \cup {None}
           /\ n \in 0..max => Less(n) \in 0..max
BY NoneAssumption DEF Less

\* A request that begins on a share keeps the requests well typed, as does one
\* that is answered.
LEMMA BeginType ==
    ASSUME TypeOK, NEW r \in Reqs, NEW q \in Requests, req' = [req EXCEPT ![r] = q]
    PROVE  req' \in [Reqs -> Requests]
BY DEF TypeOK

LEMMA ReplyType ==
    ASSUME TypeOK, NEW r \in Reqs, Reply(r)
    PROVE  req' \in [Reqs -> Requests]
BY ValueTypes DEF Reply, TypeOK

LEMMA BeginValues ==
    ASSUME NEW s \in Shares, NEW k \in Keys
    PROVE  /\ [Idle EXCEPT !.pc = "exchange", !.share = s, !.key = k, !.reads = {s}]
                \in Requests
           /\ [Idle EXCEPT !.pc = "revoke", !.share = s, !.held = {s}] \in Requests
           /\ [Idle EXCEPT !.pc = "pin", !.share = s] \in Requests
<1>1. [Idle EXCEPT !.pc = "exchange", !.share = s, !.key = k, !.reads = {s}]
        \in Requests
  BY DEF Idle, Requests
<1>2. [Idle EXCEPT !.pc = "revoke", !.share = s, !.held = {s}] \in Requests
  BY DEF Idle, Requests
<1>3. [Idle EXCEPT !.pc = "pin", !.share = s] \in Requests
  BY DEF Idle, Requests
<1>4. QED BY <1>1, <1>2, <1>3

\* A request that goes on to another statement, with other rows to lock perhaps.
LEMMA GotoValues ==
    ASSUME NEW q \in Requests, NEW todo \in SUBSET (Shares \cup Keys),
           NEW held \in SUBSET (Shares \cup Keys),
           NEW pc \in {"purge", "delete", "delete sessions", "delete shares", "version"}
    PROVE  /\ [q EXCEPT !.pc = pc] \in Requests
           /\ [q EXCEPT !.pc = pc, !.todo = todo] \in Requests
           /\ [q EXCEPT !.todo = todo, !.held = held] \in Requests
BY DEF Requests

LEMMA InitTypeOK == Init => TypeOK
<1> SUFFICES ASSUME Init PROVE TypeOK
  OBVIOUS
<1>1. 0 \in 0..TicketTTL /\ 0 \in Nat
  BY Bounds
<1>2. QED BY <1>1, ValueTypes DEF Init, TypeOK

\* Each statement keeps every row, every deadline and every request in its type.
LEMMA NextTypeOK == TypeOK /\ Wellformed /\ [Next]_vars => TypeOK'
<1> SUFFICES ASSUME TypeOK, Wellformed, [Next]_vars PROVE TypeOK'
  OBVIOUS
<1>0. /\ deleted \in BOOLEAN /\ share \in [Shares -> ShareRows]
      /\ session \in [Keys -> SessionRows] /\ ticket \in [Shares -> 0..TicketTTL]
      /\ shown \in [Shares -> Nat] /\ req \in [Reqs -> Requests]
  BY DEF TypeOK
<1>1. ASSUME NEW s \in Shares, NEW limit \in (1..MaxLimit) \cup {None},
             NEW left \in {Life, None}, CreateShare(s, limit, left)
      PROVE  TypeOK'
  <2>1. [NoShare EXCEPT !.made = TRUE, !.limit = limit, !.left = left] \in ShareRows
    <3>1. limit \in (1..MaxLimit) \cup {None} /\ left \in (0..Life) \cup {None}
      BY Bounds
    <3>2. QED BY <3>1 DEF NoShare, ShareRows
  <2>2. share' \in [Shares -> ShareRows]
    BY <1>0, <1>1, <2>1 DEF CreateShare
  <2>3. QED BY <1>0, <1>1, <2>2 DEF CreateShare, TypeOK
<1>2. ASSUME NEW r \in Reqs, NEW s \in Shares, NEW k \in Keys, ExchangeSelect(r, s, k)
      PROVE  TypeOK'
  <2>1. req' \in [Reqs -> Requests]
    BY <1>2, BeginValues, BeginType DEF ExchangeSelect
  <2>2. QED BY <1>0, <1>2, <2>1 DEF ExchangeSelect, TypeOK
<1>3. ASSUME NEW r \in Reqs, ExchangeInsert(r) PROVE TypeOK'
  <2> DEFINE s == req[r].share
             left == IF share[s].left # None /\ share[s].left < SessionTTL
                       THEN share[s].left ELSE SessionTTL
  <2>1. s \in Shares
    BY <1>3 DEF ExchangeInsert, Wellformed, RequestOk
  <2>2. share[s].left \in Nat \cup {None}
    BY <1>0, <2>1 DEF ShareRows
  <2>3. left \in 0..SessionTTL
    BY <2>2, Bounds
  <2>4. [share |-> s, left |-> left] \in SessionRows
    BY <2>1, <2>3 DEF SessionRows
  <2>5. session' = [session EXCEPT ![req[r].key] = [share |-> s, left |-> left]]
    BY <1>3 DEF ExchangeInsert
  <2>6. session' \in [Keys -> SessionRows]
    BY <1>0, <2>4, <2>5
  <2>7. QED BY <1>0, <1>3, <2>6, ReplyType DEF ExchangeInsert, TypeOK
<1>4. ASSUME NEW r \in Reqs, NEW k \in Keys, ShareBySession(r, k) PROVE TypeOK'
  <2> DEFINE s == session[k].share
  <2>1. s \in Shares
    BY <1>0, <1>4 DEF ShareBySession, SessionRows
  <2>2. share[s].views + 1 \in Nat
    BY <1>0, <2>1 DEF ShareRows
  <2>3. share' \in [Shares -> ShareRows]
    BY <1>0, <1>4, <2>1, <2>2 DEF ShareBySession, ShareRows
  <2>4. [Idle EXCEPT !.pc = "pin", !.share = s] \in Requests
    BY <2>1, BeginValues
  <2>5. req' \in [Reqs -> Requests]
    BY <1>4, <2>4, BeginType DEF ShareBySession
  <2>6. QED BY <1>0, <1>4, <2>3, <2>5 DEF ShareBySession, TypeOK
<1>5. ASSUME NEW r \in Reqs, VersionForShare(r) PROVE TypeOK'
  <2>1. CASE req' = [req EXCEPT ![r].pc = "version"]
    <3>1. [req[r] EXCEPT !.pc = "version"] \in Requests
      BY <1>0, GotoValues
    <3>2. req' \in [Reqs -> Requests]
      BY <1>0, <2>1, <3>1
    <3>3. QED BY <1>0, <1>5, <3>2 DEF VersionForShare, TypeOK
  <2>2. CASE Reply(r)
    BY <1>0, <1>5, <2>2, ReplyType DEF VersionForShare, TypeOK
  <2>3. QED BY <1>5, <2>1, <2>2 DEF VersionForShare
<1>6. ASSUME NEW r \in Reqs, RenderViewer(r) PROVE TypeOK'
  <2>1. ticket' \in [Shares -> 0..TicketTTL] /\ shown' \in [Shares -> Nat]
    BY <1>0, <1>6, Bounds DEF RenderViewer
  <2>2. QED BY <1>0, <1>6, <2>1, ReplyType DEF RenderViewer, TypeOK
<1>7. ASSUME NEW r \in Reqs, NEW s \in Shares, RevokeUpdate(r, s) PROVE TypeOK'
  <2>1. [Idle EXCEPT !.pc = "revoke", !.share = s, !.held = {s}] \in Requests
    BY DEF Idle, Requests
  <2>2. req' \in [Reqs -> Requests]
    BY <1>7, <2>1, BeginType DEF RevokeUpdate
  <2>3. QED BY <1>0, <1>7, <2>2 DEF RevokeUpdate, TypeOK
<1>8. ASSUME NEW r \in Reqs, RevokeDelete(r) PROVE TypeOK'
  <2>1. [req[r] EXCEPT !.pc = "purge", !.todo = SessionsOf(req[r].share)] \in Requests
    BY <1>0, GotoValues DEF SessionsOf
  <2>2. req' \in [Reqs -> Requests]
    BY <1>0, <1>8, <2>1 DEF RevokeDelete
  <2>3. QED BY <1>0, <1>8, <2>2 DEF RevokeDelete, TypeOK
<1>9. ASSUME NEW r \in Reqs, RevokeCommit(r) PROVE TypeOK'
  <2>1. share' \in [Shares -> ShareRows]
    BY <1>0, <1>9 DEF RevokeCommit, ShareRows
  <2>2. session' \in [Keys -> SessionRows]
    BY <1>0, <1>9, ValueTypes DEF RevokeCommit
  <2>3. QED BY <1>0, <1>9, <2>1, <2>2, ReplyType DEF RevokeCommit, TypeOK
<1>10. ASSUME NEW r \in Reqs, NEW x \in Shares \cup Keys, LockRow(r, x) PROVE TypeOK'
  <2> DEFINE held == IF x \in Keys /\ session[x].share = None
                       THEN req[r].held ELSE req[r].held \cup {x}
             todo == req[r].todo \ {x}
  <2>1. held \in SUBSET (Shares \cup Keys) /\ todo \in SUBSET (Shares \cup Keys)
    BY <1>0 DEF Requests
  <2>2. req' = [req EXCEPT ![r].todo = todo, ![r].held = held]
    BY <1>10 DEF LockRow
  <2>. HIDE DEF held, todo
  <2>3. [req[r] EXCEPT !.todo = todo, !.held = held] \in Requests
    BY <1>0, <2>1, GotoValues
  <2>4. req' \in [Reqs -> Requests]
    BY <1>0, <2>2, <2>3
  <2>5. QED BY <1>0, <1>10, <2>4 DEF LockRow, TypeOK
<1>11. ASSUME NEW r \in Reqs, DeleteArtifact(r) PROVE TypeOK'
  <2>1. [req[r] EXCEPT !.pc = "delete"] \in Requests
    BY <1>0, GotoValues
  <2>2. req' \in [Reqs -> Requests]
    BY <1>0, <1>11, <2>1 DEF DeleteArtifact
  <2>3. QED BY <1>0, <1>11, <2>2 DEF DeleteArtifact, TypeOK
<1>12. ASSUME NEW r \in Reqs, DeleteSessions(r) PROVE TypeOK'
  <2>1. [req[r] EXCEPT !.pc = "delete sessions",
                       !.todo = {k \in Keys : session[k].share # None}] \in Requests
    BY <1>0, GotoValues
  <2>2. req' \in [Reqs -> Requests]
    BY <1>0, <1>12, <2>1 DEF DeleteSessions
  <2>3. QED BY <1>0, <1>12, <2>2 DEF DeleteSessions, TypeOK
<1>13. ASSUME NEW r \in Reqs, DeleteShares(r) PROVE TypeOK'
  <2>1. [req[r] EXCEPT !.pc = "delete shares",
                       !.todo = {s \in Shares : Exists(s)}] \in Requests
    BY <1>0, GotoValues
  <2>2. req' \in [Reqs -> Requests]
    BY <1>0, <1>13, <2>1 DEF DeleteShares
  <2>3. QED BY <1>0, <1>13, <2>2 DEF DeleteShares, TypeOK
<1>14. ASSUME NEW r \in Reqs, DeleteCommit(r) PROVE TypeOK'
  <2>1. share' \in [Shares -> ShareRows]
    BY <1>0, <1>14 DEF DeleteCommit, ShareRows
  <2>2. session' \in [Keys -> SessionRows]
    BY <1>0, <1>14, ValueTypes DEF DeleteCommit
  <2>3. QED BY <1>0, <1>14, <2>1, <2>2, ReplyType DEF DeleteCommit, TypeOK
<1>15. ASSUME NEW r \in Reqs, Abort(r) PROVE TypeOK'
  BY <1>0, <1>15, ReplyType DEF Abort, TypeOK
<1>16. ASSUME CleanupExpired PROVE TypeOK'
  BY <1>0, <1>16, ValueTypes DEF CleanupExpired, TypeOK
<1>17. ASSUME Tick PROVE TypeOK'
  <2>1. ASSUME NEW s \in Shares
        PROVE  [share[s] EXCEPT !.left = Less(@)] \in ShareRows
    <3>1. share[s].left \in (0..Life) \cup {None}
      BY <1>0 DEF ShareRows
    <3>2. Less(share[s].left) \in (0..Life) \cup {None}
      BY <3>1, LessType, Bounds
    <3>3. QED BY <1>0, <3>2 DEF ShareRows
  <2>2. ASSUME NEW k \in Keys
        PROVE  [session[k] EXCEPT !.left = Less(@)] \in SessionRows
    <3>1. session[k].left \in 0..SessionTTL
      BY <1>0 DEF SessionRows
    <3>2. Less(session[k].left) \in 0..SessionTTL
      BY <3>1, LessType, Bounds
    <3>3. QED BY <1>0, <3>2 DEF SessionRows
  <2>3. ASSUME NEW s \in Shares PROVE Less(ticket[s]) \in 0..TicketTTL
    BY <1>0, LessType, Bounds
  <2>4. QED BY <1>0, <1>17, <2>1, <2>2, <2>3 DEF Tick, TypeOK
<1>18. CASE UNCHANGED vars
  BY <1>0, <1>18 DEF vars, TypeOK
<1>19. QED
  BY <1>1, <1>2, <1>3, <1>4, <1>5, <1>6, <1>7, <1>8, <1>9, <1>10, <1>11, <1>12,
     <1>13, <1>14, <1>15, <1>16, <1>17, <1>18 DEF Next, Begin, Proceed

-----------------------------------------------------------------------------
(* The locks.                                                              *)

\* A request that is answered holds nothing.
LEMMA ReplyOk ==
    ASSUME TypeOK, NEW r \in Reqs, Reply(r)
    PROVE  req'[r] = Idle /\ RequestOk(Idle) /\ \A q \in Reqs \ {r} : req'[q] = req[q]
BY DEF Reply, TypeOK, RequestOk, Idle

\* One that begins has locked what its first statement locks.
LEMMA BeginOk ==
    ASSUME NEW s \in Shares, NEW k \in Keys
    PROVE  /\ RequestOk([Idle EXCEPT !.pc = "exchange", !.share = s, !.key = k,
                                     !.reads = {s}])
           /\ RequestOk([Idle EXCEPT !.pc = "pin", !.share = s])
BY DEF RequestOk, Idle

LEMMA RevokeOk ==
    ASSUME NEW s \in Shares
    PROVE  RequestOk([Idle EXCEPT !.pc = "revoke", !.share = s, !.held = {s}])
BY DEF RequestOk, Idle

\* Every request is where its locks and its share let it be.
LEMMA NextWellformed == TypeOK /\ Wellformed /\ [Next]_vars => Wellformed'
<1> SUFFICES ASSUME TypeOK, Wellformed, [Next]_vars, NEW q \in Reqs
             PROVE  RequestOk(req'[q])
  BY DEF Wellformed
<1>0. RequestOk(req[q]) /\ req \in [Reqs -> Requests]
  BY DEF Wellformed, TypeOK
<1>1. ASSUME req' = req PROVE RequestOk(req'[q])
  BY <1>0, <1>1
<1>2. ASSUME NEW r \in Reqs, NEW s \in Shares, NEW k \in Keys, ExchangeSelect(r, s, k)
      PROVE  RequestOk(req'[q])
  <2>1. req'[q] = req[q] \/
        req'[q] = [Idle EXCEPT !.pc = "exchange", !.share = s, !.key = k, !.reads = {s}]
    BY <1>0, <1>2 DEF ExchangeSelect
  <2>2. QED BY <1>0, <2>1, BeginOk
<1>3. ASSUME NEW r \in Reqs, ExchangeInsert(r) PROVE RequestOk(req'[q])
  BY <1>0, <1>3, ReplyOk DEF ExchangeInsert
<1>4. ASSUME NEW r \in Reqs, NEW k \in Keys, ShareBySession(r, k) PROVE RequestOk(req'[q])
  <2> DEFINE s == session[k].share
  <2>1. s \in Shares
    BY <1>4 DEF ShareBySession, TypeOK, SessionRows
  <2>2. req'[q] = req[q] \/ req'[q] = [Idle EXCEPT !.pc = "pin", !.share = s]
    BY <1>0, <1>4 DEF ShareBySession
  <2>3. QED BY <1>0, <2>1, <2>2, BeginOk
<1>5. ASSUME NEW r \in Reqs, VersionForShare(r) PROVE RequestOk(req'[q])
  <2>1. CASE req' = [req EXCEPT ![r].pc = "version"]
    BY <1>0, <1>5, <2>1 DEF VersionForShare, RequestOk, Requests
  <2>2. CASE Reply(r)
    BY <1>0, <2>2, ReplyOk
  <2>3. QED BY <1>5, <2>1, <2>2 DEF VersionForShare
<1>6. ASSUME NEW r \in Reqs, RenderViewer(r) PROVE RequestOk(req'[q])
  BY <1>0, <1>6, ReplyOk DEF RenderViewer
<1>7. ASSUME NEW r \in Reqs, NEW s \in Shares, RevokeUpdate(r, s)
      PROVE  RequestOk(req'[q])
  <2>1. req'[q] = req[q] \/
        req'[q] = [Idle EXCEPT !.pc = "revoke", !.share = s, !.held = {s}]
    BY <1>0, <1>7 DEF RevokeUpdate
  <2>2. QED BY <1>0, <2>1, RevokeOk
<1>8. ASSUME NEW r \in Reqs, RevokeDelete(r) PROVE RequestOk(req'[q])
  BY <1>0, <1>8 DEF RevokeDelete, RequestOk, Requests
<1>9. ASSUME NEW r \in Reqs, RevokeCommit(r) PROVE RequestOk(req'[q])
  BY <1>0, <1>9, ReplyOk DEF RevokeCommit
<1>10. ASSUME NEW r \in Reqs, NEW x \in Shares \cup Keys, LockRow(r, x)
       PROVE  RequestOk(req'[q])
  <2> DEFINE held == IF x \in Keys /\ session[x].share = None
                       THEN req[r].held ELSE req[r].held \cup {x}
             todo == req[r].todo \ {x}
  <2>1. req[r].held \subseteq held
    OBVIOUS
  <2>2. req' = [req EXCEPT ![r].todo = todo, ![r].held = held]
        /\ req[r].pc \in {"purge", "delete sessions", "delete shares"}
    BY <1>10 DEF LockRow
  <2>. HIDE DEF held, todo
  <2>3. QED BY <1>0, <2>1, <2>2 DEF RequestOk, Requests
<1>11. ASSUME NEW r \in Reqs, DeleteArtifact(r) PROVE RequestOk(req'[q])
  BY <1>0, <1>11 DEF DeleteArtifact, RequestOk, Requests
<1>12. ASSUME NEW r \in Reqs, DeleteSessions(r) PROVE RequestOk(req'[q])
  BY <1>0, <1>12 DEF DeleteSessions, RequestOk, Requests
<1>13. ASSUME NEW r \in Reqs, DeleteShares(r) PROVE RequestOk(req'[q])
  BY <1>0, <1>13 DEF DeleteShares, RequestOk, Requests
<1>14. ASSUME NEW r \in Reqs, DeleteCommit(r) PROVE RequestOk(req'[q])
  BY <1>0, <1>14, ReplyOk DEF DeleteCommit
<1>15. ASSUME NEW r \in Reqs, Abort(r) PROVE RequestOk(req'[q])
  BY <1>0, <1>15, ReplyOk DEF Abort
<1>16. QED
  BY <1>1, <1>2, <1>3, <1>4, <1>5, <1>6, <1>7, <1>8, <1>9, <1>10, <1>11, <1>12,
     <1>13, <1>14, <1>15
     DEF Next, Begin, Proceed, CreateShare, CleanupExpired, Tick, vars

\* A request that locks nothing with its step keeps the locks apart.
LEMMA TakesNoLock ==
    ASSUME LocksExclude, NEW r \in Reqs, \A q \in Reqs \ {r} : req'[q] = req[q],
           req'[r].held \subseteq req[r].held, req'[r].reads \subseteq req[r].reads
    PROVE  LocksExclude'
BY DEF LocksExclude, Locks

\* One that locks a row for update that nobody has locked does, too.
LEMMA LocksFree ==
    ASSUME LocksExclude, NEW r \in Reqs, NEW x, Holders(x) = {},
           \A q \in Reqs \ {r} : req'[q] = req[q],
           req'[r].held \subseteq req[r].held \cup {x},
           req'[r].reads \subseteq req[r].reads
    PROVE  LocksExclude'
<1>1. \A q \in Reqs : x \notin req[q].held /\ x \notin req[q].reads
  BY DEF Holders, Locks
<1>2. QED BY <1>1 DEF LocksExclude, Locks

\* So does an answered request.
LEMMA ReplyExclude ==
    ASSUME TypeOK, LocksExclude, NEW r \in Reqs, Reply(r)
    PROVE  LocksExclude'
<1>1. req'[r].held = {} /\ req'[r].reads = {}
  BY ReplyOk DEF Idle
<1>2. QED BY <1>1, ReplyOk, TakesNoLock

\* A statement begins with the locks of the statements before it.
LEMMA StatementLocks ==
    ASSUME TypeOK, NEW r \in Reqs, NEW pc, NEW todo,
           \/ req' = [req EXCEPT ![r].pc = pc]
           \/ req' = [req EXCEPT ![r].pc = pc, ![r].todo = todo]
    PROVE  /\ req'[r].held = req[r].held /\ req'[r].reads = req[r].reads
           /\ \A q \in Reqs \ {r} : req'[q] = req[q]
BY DEF TypeOK, Requests

\* A row locked for update is locked by one request alone.
LEMMA NextExclude == TypeOK /\ Wellformed /\ LocksExclude /\ [Next]_vars => LocksExclude'
<1> SUFFICES ASSUME TypeOK, Wellformed, LocksExclude, [Next]_vars PROVE LocksExclude'
  OBVIOUS
<1>0. req \in [Reqs -> Requests] /\ \A q \in Reqs : RequestOk(req[q])
  BY DEF Wellformed, TypeOK
<1>1. ASSUME req' = req PROVE LocksExclude'
  BY <1>1 DEF LocksExclude, Locks
<1>2. ASSUME NEW r \in Reqs, NEW s \in Shares, NEW k \in Keys, ExchangeSelect(r, s, k)
      PROVE  LocksExclude'
  <2>1. /\ req'[r].held = {} /\ req'[r].reads = {s}
        /\ \A q \in Reqs \ {r} : req'[q] = req[q]
    BY <1>0, <1>2 DEF ExchangeSelect, Idle
  <2>2. \A q \in Reqs : s \notin req[q].held
    BY <1>2 DEF ExchangeSelect
  <2>3. QED BY <2>1, <2>2 DEF LocksExclude, Locks
<1>3. ASSUME NEW r \in Reqs, NEW s \in Shares, RevokeUpdate(r, s)
      PROVE  LocksExclude'
  <2>1. /\ req'[r].held = {s} /\ req'[r].reads = {}
        /\ \A q \in Reqs \ {r} : req'[q] = req[q]
    BY <1>0, <1>3 DEF RevokeUpdate, Idle
  <2>2. Holders(s) = {}
    BY <1>3 DEF RevokeUpdate
  <2>3. QED BY <2>1, <2>2, LocksFree
<1>4. ASSUME NEW r \in Reqs, NEW k \in Keys, ShareBySession(r, k) PROVE LocksExclude'
  <2>1. /\ req'[r].held = {} /\ req'[r].reads = {}
        /\ \A q \in Reqs \ {r} : req'[q] = req[q]
    BY <1>0, <1>4 DEF ShareBySession, Idle
  <2>2. QED BY <2>1, TakesNoLock
<1>5. ASSUME NEW r \in Reqs,
             \/ req' = [req EXCEPT ![r].pc = "version"]
             \/ RevokeDelete(r) \/ DeleteArtifact(r)
             \/ DeleteSessions(r) \/ DeleteShares(r)
      PROVE  LocksExclude'
  <2>1. CASE req' = [req EXCEPT ![r].pc = "version"]
    BY <2>1, StatementLocks, TakesNoLock
  <2>2. CASE RevokeDelete(r)
    BY <2>2, StatementLocks, TakesNoLock DEF RevokeDelete
  <2>3. CASE DeleteArtifact(r)
    BY <2>3, StatementLocks, TakesNoLock DEF DeleteArtifact
  <2>4. CASE DeleteSessions(r)
    BY <2>4, StatementLocks, TakesNoLock DEF DeleteSessions
  <2>5. CASE DeleteShares(r)
    BY <2>5, StatementLocks, TakesNoLock DEF DeleteShares
  <2>6. QED BY <1>5, <2>1, <2>2, <2>3, <2>4, <2>5
<1>6. ASSUME NEW r \in Reqs, NEW x \in Shares \cup Keys, LockRow(r, x)
      PROVE  LocksExclude'
  <2> DEFINE held == IF x \in Keys /\ session[x].share = None
                       THEN req[r].held ELSE req[r].held \cup {x}
             todo == req[r].todo \ {x}
  <2>1. held \subseteq req[r].held \cup {x}
    OBVIOUS
  <2>2. req' = [req EXCEPT ![r].todo = todo, ![r].held = held] /\ Holders(x) = {}
    BY <1>6 DEF LockRow
  <2>. HIDE DEF held, todo
  <2>3. /\ req'[r].held = held /\ req'[r].reads = req[r].reads
        /\ \A q \in Reqs \ {r} : req'[q] = req[q]
    BY <1>0, <2>2 DEF Requests
  <2>4. QED BY <2>1, <2>2, <2>3, LocksFree
<1>7. ASSUME NEW r \in Reqs, Reply(r) PROVE LocksExclude'
  BY <1>7, ReplyExclude
<1>8. QED
  BY <1>1, <1>2, <1>3, <1>4, <1>5, <1>6, <1>7
     DEF Next, Begin, Proceed, CreateShare, ExchangeInsert, VersionForShare,
         RenderViewer, RevokeCommit, DeleteCommit, Abort, CleanupExpired, Tick, vars

-----------------------------------------------------------------------------
(* Revocation against exchange.                                            *)

\* While a request revokes a link or deletes its sessions nobody exchanges it.
LEMMA ExchangeExcluded ==
    ASSUME Wellformed, LocksExclude, NEW q \in Reqs, NEW r \in Reqs,
           req[q].pc = "exchange", req[q].share \in req[r].held
    PROVE  q = r
BY DEF Wellformed, RequestOk, LocksExclude, Locks

\* What is known of exchanges and revocations is kept by a step that revokes
\* nothing, adds no session and lets no request join them.
LEMMA KeepsExcluded ==
    ASSUME Excluded, Wellformed,
           \A s \in Shares : share'[s].revoked => share[s].revoked,
           \A k \in Keys : session'[k].share \in {session[k].share, None},
           deleted' = deleted,
           \A q \in Reqs : req'[q].pc \in {"exchange", "purge"} => req'[q] = req[q]
    PROVE  Excluded'
<1>1. ASSUME NEW q \in Reqs, req'[q].pc = "exchange"
      PROVE  ~share'[req'[q].share].revoked
  <2>1. req'[q] = req[q] /\ req[q].share \in Shares
    BY <1>1 DEF Wellformed, RequestOk
  <2>2. QED BY <1>1, <2>1 DEF Excluded
<1>2. ASSUME NEW q \in Reqs, NEW k \in Keys, req'[q].pc = "purge",
             session'[k].share = req'[q].share
      PROVE  k \in req'[q].held \cup req'[q].todo
  <2>1. req'[q] = req[q] /\ req[q].share \in Shares
    BY <1>2 DEF Wellformed, RequestOk
  <2>2. session[k].share = req[q].share
    BY <1>2, <2>1, NoneAssumption
  <2>3. QED BY <1>2, <2>1, <2>2 DEF Excluded
<1>3. ASSUME NEW s \in Shares, NEW k \in Keys, share'[s].revoked, ~deleted'
      PROVE  session'[k].share # s
  BY <1>3, NoneAssumption DEF Excluded
<1>4. QED BY <1>1, <1>2, <1>3 DEF Excluded

\* No exchange of a link gets past its revocation, and no session escapes it: the
\* exchange has the row locked for share until its session is there, and the
\* revocation has it locked for update from before it looks for sessions until
\* they are gone.
LEMMA NextExcluded ==
    TypeOK /\ Wellformed /\ LocksExclude /\ Excluded /\ [Next]_vars => Excluded'
<1> SUFFICES ASSUME TypeOK, Wellformed, LocksExclude, Excluded, [Next]_vars
             PROVE  Excluded'
  OBVIOUS
<1>0. /\ req \in [Reqs -> Requests] /\ share \in [Shares -> ShareRows]
      /\ session \in [Keys -> SessionRows]
  BY DEF TypeOK
<1>1. ASSUME NEW s \in Shares, NEW limit, NEW left, CreateShare(s, limit, left)
      PROVE  Excluded'
  <2>1. \A o \in Shares : share'[o].revoked => share[o].revoked
    BY <1>0, <1>1 DEF CreateShare, NoShare
  <2>2. session' = session /\ req' = req /\ deleted' = deleted
    BY <1>1 DEF CreateShare
  <2>3. QED BY <2>1, <2>2, KeepsExcluded
<1>2. ASSUME NEW r \in Reqs, NEW s \in Shares, NEW k \in Keys, ExchangeSelect(r, s, k)
      PROVE  Excluded'
  <2>1. /\ req'[r].pc = "exchange" /\ req'[r].share = s
        /\ \A q \in Reqs \ {r} : req'[q] = req[q]
    BY <1>0, <1>2 DEF ExchangeSelect, Idle
  <2>2. share' = share /\ session' = session /\ deleted' = deleted
    BY <1>2 DEF ExchangeSelect
  <2>3. ~share[s].revoked
    BY <1>2 DEF ExchangeSelect, Usable
  <2>4. QED BY <2>1, <2>2, <2>3 DEF Excluded
<1>3. ASSUME NEW r \in Reqs, ExchangeInsert(r) PROVE Excluded'
  <2> DEFINE s == req[r].share
  <2>1. /\ req[r].pc = "exchange" /\ s \in Shares /\ ~share[s].revoked
        /\ share' = share /\ deleted' = deleted
    BY <1>3 DEF ExchangeInsert, Wellformed, RequestOk, Excluded
  <2>2. req'[r].pc = "idle" /\ \A q \in Reqs \ {r} : req'[q] = req[q]
    BY <1>3, ReplyOk DEF ExchangeInsert, Idle
  <2>3. \A k \in Keys : session'[k].share = session[k].share \/ session'[k].share = s
    BY <1>0, <1>3 DEF ExchangeInsert
  <2>4. ASSUME NEW q \in Reqs, NEW k \in Keys, req'[q].pc = "purge",
               session'[k].share = req'[q].share
        PROVE  k \in req'[q].held \cup req'[q].todo
    <3>1. q # r /\ req'[q] = req[q] /\ req[q].share \in req[q].held
      BY <2>2, <2>4 DEF Wellformed, RequestOk
    <3>2. req[q].share # s
      BY <2>1, <2>4, <3>1, ExchangeExcluded
    <3>3. session[k].share = req[q].share
      BY <2>3, <2>4, <3>1, <3>2
    <3>4. QED BY <2>4, <3>1, <3>3 DEF Excluded
  <2>5. ASSUME NEW o \in Shares, NEW k \in Keys, share[o].revoked, ~deleted
        PROVE  session'[k].share # o
    BY <2>1, <2>3, <2>5 DEF Excluded
  <2>6. \A q \in Reqs : req'[q].pc = "exchange" => ~share[req'[q].share].revoked
    BY <2>2 DEF Excluded
  <2>7. QED BY <2>1, <2>4, <2>5, <2>6 DEF Excluded
<1>4. ASSUME NEW r \in Reqs, NEW k \in Keys, ShareBySession(r, k) PROVE Excluded'
  <2>1. /\ req'[r].pc = "pin"
        /\ \A q \in Reqs \ {r} : req'[q] = req[q]
    BY <1>0, <1>4 DEF ShareBySession, Idle
  <2>2. /\ \A o \in Shares : share'[o].revoked = share[o].revoked
        /\ session' = session /\ deleted' = deleted
    BY <1>0, <1>4 DEF ShareBySession, ShareRows
  <2>3. QED BY <2>1, <2>2, KeepsExcluded
<1>5. ASSUME NEW r \in Reqs, NEW s \in Shares, RevokeUpdate(r, s)
      PROVE  Excluded'
  <2>1. /\ req'[r].pc = "revoke"
        /\ \A q \in Reqs \ {r} : req'[q] = req[q]
    BY <1>0, <1>5 DEF RevokeUpdate, Idle
  <2>2. share' = share /\ session' = session /\ deleted' = deleted
    BY <1>5 DEF RevokeUpdate
  <2>3. QED BY <2>1, <2>2, KeepsExcluded
<1>6. ASSUME NEW r \in Reqs, RevokeDelete(r) PROVE Excluded'
  <2>1. /\ req'[r].pc = "purge" /\ req'[r].share = req[r].share
        /\ req'[r].todo = SessionsOf(req[r].share)
        /\ \A q \in Reqs \ {r} : req'[q] = req[q]
    BY <1>0, <1>6 DEF RevokeDelete, Requests
  <2>2. share' = share /\ session' = session /\ deleted' = deleted
    BY <1>6 DEF RevokeDelete
  <2>3. QED BY <2>1, <2>2 DEF Excluded, SessionsOf
<1>7. ASSUME NEW r \in Reqs, RevokeCommit(r) PROVE Excluded'
  <2> DEFINE s == req[r].share
  <2>1. /\ req[r].pc = "purge" /\ req[r].todo = {} /\ s \in Shares
        /\ s \in req[r].held /\ deleted' = deleted
    BY <1>7 DEF RevokeCommit, Wellformed, RequestOk
  <2>2. req'[r].pc = "idle" /\ \A q \in Reqs \ {r} : req'[q] = req[q]
    BY <1>7, ReplyOk DEF RevokeCommit, Idle
  <2>3. \A o \in Shares : o # s => share'[o] = share[o]
    BY <1>0, <1>7 DEF RevokeCommit
  <2>4. \A k \in Keys : session'[k] = IF k \in req[r].held THEN NoSession ELSE session[k]
    BY <1>7 DEF RevokeCommit
  <2>5. \A k \in Keys : session'[k].share \in {session[k].share, None}
    BY <2>4 DEF NoSession
  <2>6. \A k \in Keys : session'[k].share # s
    BY <2>1, <2>4, NoneAssumption DEF Excluded, NoSession
  <2>7. ASSUME NEW q \in Reqs, req'[q].pc = "exchange"
        PROVE  ~share'[req'[q].share].revoked
    <3>1. req'[q] = req[q] /\ q # r /\ req[q].share \in Shares
      BY <2>2, <2>7 DEF Wellformed, RequestOk
    <3>2. req[q].share # s
      BY <2>1, <2>7, <3>1, ExchangeExcluded
    <3>3. QED BY <2>3, <2>7, <3>1, <3>2 DEF Excluded
  <2>8. ASSUME NEW q \in Reqs, NEW k \in Keys, req'[q].pc = "purge",
               session'[k].share = req'[q].share
        PROVE  k \in req'[q].held \cup req'[q].todo
    <3>1. req'[q] = req[q] /\ req[q].share \in Shares
      BY <2>2, <2>8 DEF Wellformed, RequestOk
    <3>2. session[k].share = req[q].share
      BY <2>5, <2>8, <3>1, NoneAssumption
    <3>3. QED BY <2>8, <3>1, <3>2 DEF Excluded
  <2>9. ASSUME NEW o \in Shares, NEW k \in Keys, share'[o].revoked, ~deleted
        PROVE  session'[k].share # o
    <3>1. CASE o = s
      BY <2>6, <3>1
    <3>2. CASE o # s
      BY <2>3, <2>5, <2>9, <3>2, NoneAssumption DEF Excluded
    <3>3. QED BY <3>1, <3>2
  <2>10. QED BY <2>1, <2>7, <2>8, <2>9 DEF Excluded
<1>8. ASSUME NEW r \in Reqs, NEW x \in Shares \cup Keys, LockRow(r, x) PROVE Excluded'
  <2> DEFINE held == IF x \in Keys /\ session[x].share = None
                       THEN req[r].held ELSE req[r].held \cup {x}
             todo == req[r].todo \ {x}
  <2>1. \A k \in Keys : session[k].share # None /\ k \in req[r].held \cup req[r].todo
                            => k \in held \cup todo
    OBVIOUS
  <2>2. req' = [req EXCEPT ![r].todo = todo, ![r].held = held]
        /\ req[r].pc # "exchange"
    BY <1>8 DEF LockRow
  <2>3. share' = share /\ session' = session /\ deleted' = deleted
    BY <1>8 DEF LockRow
  <2>. HIDE DEF held, todo
  <2>4. /\ req'[r].pc = req[r].pc /\ req'[r].share = req[r].share
        /\ req'[r].held = held /\ req'[r].todo = todo
        /\ \A q \in Reqs \ {r} : req'[q] = req[q]
    BY <1>0, <2>2 DEF Requests
  <2>5. ASSUME NEW q \in Reqs, NEW k \in Keys, req'[q].pc = "purge",
               session[k].share = req'[q].share
        PROVE  k \in req'[q].held \cup req'[q].todo
    <3>1. CASE q # r
      BY <2>4, <2>5, <3>1 DEF Excluded
    <3>2. CASE q = r
      <4>1. req[r].share \in Shares /\ k \in req[r].held \cup req[r].todo
        BY <2>4, <2>5, <3>2 DEF Excluded, Wellformed, RequestOk
      <4>2. k \in held \cup todo
        BY <2>1, <2>4, <2>5, <3>2, <4>1, NoneAssumption
      <4>3. QED BY <2>4, <3>2, <4>2
    <3>3. QED BY <3>1, <3>2
  <2>6. \A q \in Reqs : req'[q].pc = "exchange" => ~share[req'[q].share].revoked
    BY <2>2, <2>4 DEF Excluded
  <2>7. QED BY <2>3, <2>5, <2>6 DEF Excluded
<1>9. ASSUME NEW r \in Reqs, NEW pc \in {"version", "delete", "delete sessions",
                                        "delete shares"}, NEW todo,
             \/ req' = [req EXCEPT ![r].pc = pc]
             \/ req' = [req EXCEPT ![r].pc = pc, ![r].todo = todo],
             share' = share, session' = session, deleted' = deleted
      PROVE  Excluded'
  <2>1. req'[r].pc = pc /\ \A q \in Reqs \ {r} : req'[q] = req[q]
    BY <1>0, <1>9 DEF Requests
  <2>2. QED BY <1>9, <2>1, KeepsExcluded
<1>10. ASSUME NEW r \in Reqs, DeleteCommit(r) PROVE Excluded'
  <2>1. Reply(r) /\ deleted'
    BY <1>10 DEF DeleteCommit
  <2>2. req'[r].pc = "idle" /\ \A q \in Reqs \ {r} : req'[q] = req[q]
    BY <2>1, ReplyOk DEF Idle
  <2>3. \A o \in Shares : share'[o].revoked = (share[o].revoked \/ o \in req[r].held)
    BY <1>0, <1>10 DEF DeleteCommit, ShareRows
  <2>4. \A k \in Keys : session'[k].share \in {session[k].share, None}
    BY <1>10 DEF DeleteCommit, NoSession
  <2>5. ASSUME NEW q \in Reqs, req'[q].pc = "exchange"
        PROVE  ~share'[req'[q].share].revoked
    <3>1. req'[q] = req[q] /\ q # r /\ req[q].share \in Shares
      BY <2>2, <2>5 DEF Wellformed, RequestOk
    <3>2. req[q].share \notin req[r].held
      BY <2>5, <3>1, ExchangeExcluded
    <3>3. QED BY <2>3, <2>5, <3>1, <3>2 DEF Excluded
  <2>6. ASSUME NEW q \in Reqs, NEW k \in Keys, req'[q].pc = "purge",
               session'[k].share = req'[q].share
        PROVE  k \in req'[q].held \cup req'[q].todo
    <3>1. req'[q] = req[q] /\ req[q].share \in Shares
      BY <2>2, <2>6 DEF Wellformed, RequestOk
    <3>2. session[k].share = req[q].share
      BY <2>4, <2>6, <3>1, NoneAssumption
    <3>3. QED BY <2>6, <3>1, <3>2 DEF Excluded
  <2>7. QED BY <2>1, <2>5, <2>6 DEF Excluded
<1>11. ASSUME NEW r \in Reqs, Reply(r), share' = share, session' = session,
              deleted' = deleted
       PROVE  Excluded'
  <2>1. req'[r].pc = "idle" /\ \A q \in Reqs \ {r} : req'[q] = req[q]
    BY <1>11, ReplyOk DEF Idle
  <2>2. QED BY <1>11, <2>1, KeepsExcluded
<1>12. ASSUME CleanupExpired PROVE Excluded'
  <2>1. \A k \in Keys : session'[k] = session[k] \/ session'[k] = NoSession
    BY <1>12 DEF CleanupExpired
  <2>2. \A k \in Keys : session'[k].share \in {session[k].share, None}
    BY <2>1 DEF NoSession
  <2>3. QED BY <1>12, <2>2, KeepsExcluded DEF CleanupExpired
<1>13. ASSUME Tick PROVE Excluded'
  <2>1. \A o \in Shares : share'[o].revoked = share[o].revoked
    BY <1>0, <1>13 DEF Tick, ShareRows
  <2>2. \A k \in Keys : session'[k].share = session[k].share
    BY <1>0, <1>13 DEF Tick, SessionRows
  <2>3. QED BY <1>13, <2>1, <2>2, KeepsExcluded DEF Tick
<1>14. CASE UNCHANGED vars
  BY <1>14, KeepsExcluded DEF vars
<1>15. ASSUME NEW r \in Reqs, Begin(r) PROVE Excluded'
  BY <1>2, <1>4, <1>5, <1>9, <1>15 DEF Begin, DeleteArtifact
<1>16. ASSUME NEW r \in Reqs, Proceed(r) PROVE Excluded'
  BY <1>3, <1>6, <1>7, <1>8, <1>9, <1>10, <1>11, <1>16
     DEF Proceed, VersionForShare, RenderViewer, DeleteSessions, DeleteShares
<1>17. QED
  BY <1>1, <1>11, <1>12, <1>13, <1>14, <1>15, <1>16 DEF Next, Abort

-----------------------------------------------------------------------------
(* The view limit.                                                         *)

\* The numbers of a share, and those of the views that are underway.
LEMMA ViewTypes ==
    ASSUME TypeOK, NEW s \in Shares
    PROVE  /\ shown[s] \in Nat /\ share[s].views \in Nat
           /\ share[s].limit \in (1..MaxLimit) \cup {None}
           /\ share[s].made \in BOOLEAN
BY DEF TypeOK, ShareRows

\* Taking a view off those that are underway and putting one on, counted.
LEMMA CountRemove ==
    ASSUME NEW S, IsFiniteSet(S), NEW x \in S
    PROVE  /\ IsFiniteSet(S \ {x})
           /\ Cardinality(S) \in Nat /\ Cardinality(S \ {x}) \in Nat
           /\ Cardinality(S) = Cardinality(S \ {x}) + 1
<1>1. IsFiniteSet(S \ {x}) /\ Cardinality(S \ {x}) = Cardinality(S) - 1
  BY FS_RemoveElement
<1>2. Cardinality(S) \in Nat /\ Cardinality(S \ {x}) \in Nat
  BY <1>1, FS_CardinalityType
<1>3. QED BY <1>1, <1>2

LEMMA CountAdd ==
    ASSUME NEW S, IsFiniteSet(S), NEW x, x \notin S
    PROVE  /\ IsFiniteSet(S \cup {x})
           /\ Cardinality(S) \in Nat
           /\ Cardinality(S \cup {x}) = Cardinality(S) + 1
BY FS_AddElement, FS_CardinalityType

LEMMA CountSubset ==
    ASSUME NEW S, IsFiniteSet(S), NEW R \in SUBSET S
    PROVE  /\ IsFiniteSet(R)
           /\ Cardinality(R) \in Nat /\ Cardinality(S) \in Nat
           /\ Cardinality(R) <= Cardinality(S)
BY FS_Subset, FS_CardinalityType

\* Sums that are compared with the views.
LEMMA Sums ==
    ASSUME NEW a \in Nat, NEW b \in Nat, NEW c \in Nat, NEW v \in Nat, a + b <= v
    PROVE  /\ c <= b => a + c <= v
           /\ a + (b + 1) <= v + 1
           /\ b = c + 1 => (a + 1) + c <= v /\ a + c <= v
OBVIOUS

\* A step that counts no view of a share, shows none and lets no request join those
\* that are underway keeps the books of that share.
LEMMA KeepsViews ==
    ASSUME TypeOK, NEW s \in Shares, ViewsOk(s), NEW U, U = Underway(s)',
           U \subseteq Underway(s), shown'[s] = shown[s],
           share'[s].views = share[s].views, share'[s].limit = share[s].limit,
           share'[s].made = share[s].made
    PROVE  ViewsOk(s)'
<1>1. IsFiniteSet(Underway(s))
  BY DEF ViewsOk
<1>2. /\ IsFiniteSet(U) /\ Cardinality(U) \in Nat /\ Cardinality(Underway(s)) \in Nat
      /\ Cardinality(U) <= Cardinality(Underway(s))
  BY <1>1, CountSubset
<1>3. shown[s] + Cardinality(Underway(s)) <= share[s].views
  BY DEF ViewsOk
<1>4. shown[s] + Cardinality(U) <= share[s].views
  BY <1>2, <1>3, ViewTypes, Sums
<1>5. shown'[s] + Cardinality(U) <= share'[s].views
  BY <1>4
<1>6. QED BY <1>2, <1>5 DEF ViewsOk

\* Steps of requests that are not about to show a page leave the books alone.
LEMMA OtherStep ==
    ASSUME TypeOK, ViewsCounted, NEW s \in Shares, NEW r \in Reqs,
           \A q \in Reqs \ {r} : req'[q] = req[q],
           req'[r].pc \in {"pin", "version"} =>
              req[r].pc \in {"pin", "version"} /\ req'[r].share = req[r].share,
           shown'[s] = shown[s], share'[s].views = share[s].views,
           share'[s].limit = share[s].limit, share'[s].made = share[s].made
    PROVE  ViewsOk(s)'
<1>1. ViewsOk(s)
  BY DEF ViewsCounted
<1>2. PICK U : U = Underway(s)'
  OBVIOUS
<1>3. U \subseteq Underway(s)
  BY <1>2 DEF Underway
<1>4. QED BY <1>1, <1>2, <1>3, KeepsViews

\* Every view is counted before it is shown, and counted only below the limit; a
\* request shows at most the one it has counted.
LEMMA NextViews == TypeOK /\ ViewsCounted /\ [Next]_vars => ViewsCounted'
<1> SUFFICES ASSUME TypeOK, ViewsCounted, [Next]_vars, NEW s \in Shares
             PROVE  ViewsOk(s)'
  BY DEF ViewsCounted
<1>0. /\ req \in [Reqs -> Requests] /\ share \in [Shares -> ShareRows]
      /\ shown \in [Shares -> Nat] /\ ViewsOk(s)
  BY DEF TypeOK, ViewsCounted
<1>1. ASSUME NEW o \in Shares, NEW limit \in (1..MaxLimit) \cup {None},
             NEW left, CreateShare(o, limit, left)
      PROVE  ViewsOk(s)'
  <2>1. Underway(s)' = Underway(s) /\ shown' = shown
    BY <1>1 DEF CreateShare, Underway
  <2>2. CASE o # s
    <3>1. share'[s] = share[s]
      BY <1>0, <1>1, <2>2 DEF CreateShare
    <3>2. QED BY <1>0, <2>1, <3>1 DEF ViewsOk
  <2>3. CASE o = s
    <3>1. share[s].views = 0
      BY <1>0, <1>1, <2>3 DEF CreateShare, Exists, ViewsOk
    <3>2. share'[s].views = 0 /\ share'[s].limit = limit /\ share'[s].made
      BY <1>0, <1>1, <2>3 DEF CreateShare, NoShare
    <3>3. limit # None => 0 <= limit
      BY Bounds
    <3>4. QED BY <1>0, <2>1, <3>1, <3>2, <3>3 DEF ViewsOk
  <2>4. QED BY <2>2, <2>3
<1>2. ASSUME NEW r \in Reqs, NEW o \in Shares, NEW k \in Keys, ExchangeSelect(r, o, k)
      PROVE  ViewsOk(s)'
  <2>1. req'[r].pc = "exchange" /\ \A q \in Reqs \ {r} : req'[q] = req[q]
    BY <1>0, <1>2 DEF ExchangeSelect, Idle
  <2>2. share' = share /\ shown' = shown
    BY <1>2 DEF ExchangeSelect
  <2>3. QED BY <2>1, <2>2, OtherStep
<1>3. ASSUME NEW r \in Reqs, NEW k \in Keys, ShareBySession(r, k) PROVE ViewsOk(s)'
  <2> DEFINE o == session[k].share
  <2>1. /\ req'[r].pc = "pin" /\ req'[r].share = o /\ req[r].pc = "idle"
        /\ shown' = shown /\ \A q \in Reqs \ {r} : req'[q] = req[q]
    BY <1>0, <1>3 DEF ShareBySession, Idle
  <2>2. share' = [share EXCEPT ![o].views = @ + 1] /\ Usable(o) /\ BelowLimit(o)
    BY <1>3 DEF ShareBySession
  <2>. HIDE DEF o
  <2>3. CASE o # s
    <3>1. Underway(s)' = Underway(s)
      BY <2>1, <2>3 DEF Underway
    <3>2. share'[s] = share[s]
      BY <1>0, <2>2, <2>3
    <3>3. QED BY <1>0, <2>1, <3>1, <3>2 DEF ViewsOk
  <2>4. CASE o = s
    <3>1. /\ share'[s].views = share[s].views + 1
          /\ share'[s].limit = share[s].limit
          /\ share'[s].made = share[s].made
      BY <1>0, <2>2, <2>4 DEF ShareRows
    <3>2. Underway(s)' = Underway(s) \cup {r} /\ r \notin Underway(s)
      BY <2>1, <2>4 DEF Underway
    <3>3. /\ IsFiniteSet(Underway(s)')
          /\ Cardinality(Underway(s)) \in Nat
          /\ Cardinality(Underway(s)') = Cardinality(Underway(s)) + 1
      BY <1>0, <3>2, CountAdd DEF ViewsOk
    <3>4. shown[s] + (Cardinality(Underway(s)) + 1) <= share[s].views + 1
      BY <1>0, <3>3, ViewTypes, Sums DEF ViewsOk
    <3>5. shown'[s] + Cardinality(Underway(s)') <= share'[s].views
      <4>1. shown'[s] = shown[s]
        BY <2>1
      <4>2. QED BY <3>1, <3>3, <3>4, <4>1
    <3>6. share[s].limit # None => share[s].views + 1 <= share[s].limit
      BY <2>2, <2>4, ViewTypes DEF BelowLimit
    <3>7. share'[s].made
      BY <2>2, <2>4, <3>1 DEF Usable, Exists
    <3>8. QED BY <3>1, <3>3, <3>5, <3>6, <3>7 DEF ViewsOk
  <2>5. QED BY <2>3, <2>4
<1>4. ASSUME NEW r \in Reqs, VersionForShare(r) PROVE ViewsOk(s)'
  <2>1. share' = share /\ shown' = shown /\ req[r].pc = "pin"
    BY <1>4 DEF VersionForShare
  <2>2. CASE req' = [req EXCEPT ![r].pc = "version"]
    <3>1. req'[r].share = req[r].share /\ \A q \in Reqs \ {r} : req'[q] = req[q]
      BY <1>0, <2>2 DEF Requests
    <3>2. QED BY <2>1, <3>1, OtherStep
  <2>3. CASE Reply(r)
    <3>1. req'[r].pc = "idle" /\ \A q \in Reqs \ {r} : req'[q] = req[q]
      BY <2>3, ReplyOk DEF Idle
    <3>2. QED BY <2>1, <3>1, OtherStep
  <2>4. QED BY <1>4, <2>2, <2>3 DEF VersionForShare
<1>5. ASSUME NEW r \in Reqs, RenderViewer(r) PROVE ViewsOk(s)'
  <2> DEFINE o == req[r].share
  <2>1. /\ req[r].pc = "version" /\ share' = share /\ Reply(r)
        /\ shown' = shown \/ shown' = [shown EXCEPT ![o] = @ + 1]
    BY <1>5 DEF RenderViewer
  <2>2. req'[r].pc = "idle" /\ \A q \in Reqs \ {r} : req'[q] = req[q]
    BY <2>1, ReplyOk DEF Idle
  <2>. HIDE DEF o
  <2>3. CASE shown'[s] = shown[s]
    BY <2>1, <2>2, <2>3, OtherStep
  <2>4. CASE o = s /\ shown'[s] = shown[s] + 1
    <3>1. r \in Underway(s) /\ Underway(s)' = Underway(s) \ {r}
      BY <2>1, <2>2, <2>4 DEF Underway, o
    <3>2. /\ IsFiniteSet(Underway(s)')
          /\ Cardinality(Underway(s)) \in Nat /\ Cardinality(Underway(s)') \in Nat
          /\ Cardinality(Underway(s)) = Cardinality(Underway(s)') + 1
      BY <1>0, <3>1, CountRemove DEF ViewsOk
    <3>3. PICK c \in Nat : c = Cardinality(Underway(s)')
      BY <3>2
    <3>4. (shown[s] + 1) + c <= share[s].views
      BY <1>0, <3>2, <3>3, ViewTypes, Sums DEF ViewsOk
    <3>5. shown'[s] + Cardinality(Underway(s)') <= share'[s].views
      BY <2>1, <2>4, <3>3, <3>4
    <3>6. QED BY <1>0, <2>1, <3>2, <3>5 DEF ViewsOk
  <2>5. QED BY <1>0, <2>1, <2>3, <2>4
<1>6. ASSUME NEW r \in Reqs, NEW o \in Shares, RevokeUpdate(r, o) PROVE ViewsOk(s)'
  <2>1. req'[r].pc = "revoke" /\ \A q \in Reqs \ {r} : req'[q] = req[q]
    BY <1>0, <1>6 DEF RevokeUpdate, Idle
  <2>2. share' = share /\ shown' = shown
    BY <1>6 DEF RevokeUpdate
  <2>3. QED BY <2>1, <2>2, OtherStep
<1>7. ASSUME NEW r \in Reqs, NEW pc \in {"purge", "delete", "delete sessions",
                                        "delete shares"}, NEW todo,
             \/ req' = [req EXCEPT ![r].pc = pc]
             \/ req' = [req EXCEPT ![r].pc = pc, ![r].todo = todo],
             share' = share, shown' = shown
      PROVE  ViewsOk(s)'
  <2>1. req'[r].pc = pc /\ \A q \in Reqs \ {r} : req'[q] = req[q]
    BY <1>0, <1>7 DEF Requests
  <2>2. QED BY <1>7, <2>1, OtherStep
<1>8. ASSUME NEW r \in Reqs, NEW x \in Shares \cup Keys, LockRow(r, x) PROVE ViewsOk(s)'
  <2> DEFINE held == IF x \in Keys /\ session[x].share = None
                       THEN req[r].held ELSE req[r].held \cup {x}
             todo == req[r].todo \ {x}
  <2>1. /\ req' = [req EXCEPT ![r].todo = todo, ![r].held = held]
        /\ req[r].pc \notin {"pin", "version"} /\ share' = share /\ shown' = shown
    BY <1>8 DEF LockRow
  <2>. HIDE DEF held, todo
  <2>2. req'[r].pc = req[r].pc /\ \A q \in Reqs \ {r} : req'[q] = req[q]
    BY <1>0, <2>1 DEF Requests
  <2>3. QED BY <2>1, <2>2, OtherStep
<1>9. ASSUME NEW r \in Reqs, Reply(r), shown' = shown,
             /\ share'[s].views = share[s].views
             /\ share'[s].limit = share[s].limit
             /\ share'[s].made = share[s].made
      PROVE  ViewsOk(s)'
  <2>1. req'[r].pc = "idle" /\ \A q \in Reqs \ {r} : req'[q] = req[q]
    BY <1>9, ReplyOk DEF Idle
  <2>2. QED BY <1>9, <2>1, OtherStep
<1>10. ASSUME NEW r \in Reqs, RevokeCommit(r) \/ DeleteCommit(r) PROVE ViewsOk(s)'
  <2>1. /\ share'[s].views = share[s].views
        /\ share'[s].limit = share[s].limit
        /\ share'[s].made = share[s].made
    <3>1. CASE RevokeCommit(r)
      BY <1>0, <3>1 DEF RevokeCommit, ShareRows
    <3>2. CASE DeleteCommit(r)
      BY <1>0, <3>2 DEF DeleteCommit, ShareRows
    <3>3. QED BY <1>10, <3>1, <3>2
  <2>2. Reply(r) /\ shown' = shown
    BY <1>10 DEF RevokeCommit, DeleteCommit
  <2>3. QED BY <1>9, <2>1, <2>2
<1>11. ASSUME req' = req, shown' = shown,
              /\ share'[s].views = share[s].views
              /\ share'[s].limit = share[s].limit
              /\ share'[s].made = share[s].made
       PROVE  ViewsOk(s)'
  <2>1. Underway(s)' = Underway(s)
    BY <1>11 DEF Underway
  <2>2. QED BY <1>0, <1>11, <2>1 DEF ViewsOk
<1>12. ASSUME Tick PROVE ViewsOk(s)'
  <2>1. /\ share'[s].views = share[s].views
        /\ share'[s].limit = share[s].limit
        /\ share'[s].made = share[s].made
    BY <1>0, <1>12 DEF Tick, ShareRows
  <2>2. QED BY <1>11, <1>12, <2>1 DEF Tick
<1>13. ASSUME CleanupExpired \/ UNCHANGED vars PROVE ViewsOk(s)'
  BY <1>11, <1>13 DEF CleanupExpired, vars
<1>14. ASSUME NEW r \in Reqs, Begin(r) PROVE ViewsOk(s)'
  BY <1>2, <1>3, <1>6, <1>7, <1>14 DEF Begin, DeleteArtifact
<1>15. ASSUME NEW r \in Reqs, Proceed(r) PROVE ViewsOk(s)'
  BY <1>4, <1>5, <1>7, <1>8, <1>9, <1>10, <1>15
     DEF Proceed, ExchangeInsert, RevokeDelete, DeleteSessions, DeleteShares
<1>16. QED
  BY <1>1, <1>9, <1>12, <1>13, <1>14, <1>15 DEF Next, Abort

-----------------------------------------------------------------------------
(* Links that are created and revoked.                                     *)

\* What a step does to the links: it creates one, counts a view of one, revokes
\* some, or lets time pass.
LEMMA ShareSteps ==
    ASSUME TypeOK, [Next]_vars
    PROVE  \/ share' = share /\ deleted' = deleted
           \/ \E s \in Shares, limit \in (1..MaxLimit) \cup {None}, left \in {Life, None} :
                CreateShare(s, limit, left)
           \/ \E r \in Reqs : \/ \E k \in Keys : ShareBySession(r, k)
                              \/ RevokeCommit(r) \/ DeleteCommit(r)
           \/ Tick
BY DEF Next, Begin, Proceed, ExchangeSelect, RevokeUpdate, DeleteArtifact,
   ExchangeInsert, VersionForShare, RenderViewer, RevokeDelete, LockRow,
   DeleteSessions, DeleteShares, Abort, CleanupExpired, vars

\* What became of each link: nothing, it was created just now, or one field of it
\* changed.
LEMMA ShareStep ==
    ASSUME TypeOK, [Next]_vars, NEW s \in Shares
    PROVE  \/ share'[s] = share[s]
           \/ /\ ~share[s].made /\ ~deleted
              /\ share'[s].made /\ ~share'[s].revoked /\ share'[s].views = 0
           \/ /\ share'[s].made = share[s].made
              /\ share[s].revoked => share'[s].revoked
              /\ share'[s].views = share[s].views \/ ~share[s].revoked
<1>0. share \in [Shares -> ShareRows] /\ session \in [Keys -> SessionRows]
  BY DEF TypeOK
<1>1. ASSUME NEW o \in Shares, NEW limit \in (1..MaxLimit) \cup {None},
             NEW left \in {Life, None}, CreateShare(o, limit, left)
      PROVE  \/ share'[s] = share[s]
             \/ /\ ~share[s].made /\ ~deleted
                /\ share'[s].made /\ ~share'[s].revoked /\ share'[s].views = 0
  BY <1>0, <1>1 DEF CreateShare, Exists, NoShare
<1>2. ASSUME NEW r \in Reqs, NEW k \in Keys, ShareBySession(r, k)
      PROVE  /\ share'[s].made = share[s].made
             /\ share[s].revoked => share'[s].revoked
             /\ share'[s].views = share[s].views \/ ~share[s].revoked
  BY <1>0, <1>2 DEF ShareBySession, Usable, ShareRows
<1>3. ASSUME NEW r \in Reqs, RevokeCommit(r)
      PROVE  /\ share'[s].made = share[s].made
             /\ share[s].revoked => share'[s].revoked
             /\ share'[s].views = share[s].views
  BY <1>0, <1>3 DEF RevokeCommit, ShareRows
<1>4. ASSUME NEW r \in Reqs, DeleteCommit(r)
      PROVE  /\ share'[s].made = share[s].made
             /\ share[s].revoked => share'[s].revoked
             /\ share'[s].views = share[s].views
  BY <1>0, <1>4 DEF DeleteCommit, ShareRows
<1>5. ASSUME Tick
      PROVE  /\ share'[s].made = share[s].made
             /\ share[s].revoked => share'[s].revoked
             /\ share'[s].views = share[s].views
  BY <1>0, <1>5 DEF Tick, ShareRows
<1>6. QED BY <1>1, <1>2, <1>3, <1>4, <1>5, ShareSteps

\* A request that revokes a link found it there.
LEMMA Revokers ==
    ASSUME TypeOK, [Next]_vars, NEW q \in Reqs, req'[q].pc \in {"revoke", "purge"}
    PROVE  \/ req[q].pc \in {"revoke", "purge"} /\ req'[q].share = req[q].share
           \/ Exists(req'[q].share)
<1>0. req \in [Reqs -> Requests]
  BY DEF TypeOK
<1>1. CASE req'[q] = req[q]
  BY <1>1
<1>2. ASSUME NEW r \in Reqs, NEW s \in Shares, RevokeUpdate(r, s), req'[q] # req[q]
      PROVE  Exists(req'[q].share)
  <2>1. req'[q].share = s
    BY <1>0, <1>2 DEF RevokeUpdate, Idle
  <2>2. QED BY <1>2, <2>1 DEF RevokeUpdate
<1>3. ASSUME NEW r \in Reqs, RevokeDelete(r), req'[q] # req[q]
      PROVE  req[q].pc \in {"revoke", "purge"} /\ req'[q].share = req[q].share
  BY <1>0, <1>3 DEF RevokeDelete, Requests
<1>4. ASSUME NEW r \in Reqs, NEW x \in Shares \cup Keys, LockRow(r, x)
      PROVE  req'[q].pc = req[q].pc /\ req'[q].share = req[q].share
  <2> DEFINE held == IF x \in Keys /\ session[x].share = None
                       THEN req[r].held ELSE req[r].held \cup {x}
             todo == req[r].todo \ {x}
  <2>1. req' = [req EXCEPT ![r].todo = todo, ![r].held = held]
    BY <1>4 DEF LockRow
  <2>. HIDE DEF held, todo
  <2>2. QED BY <1>0, <2>1 DEF Requests
<1>5. ASSUME NEW r \in Reqs, Reply(r), req'[q] # req[q] PROVE FALSE
  <2>1. q = r
    BY <1>5, ReplyOk
  <2>2. QED BY <1>5, <2>1, ReplyOk DEF Idle
<1>6. ASSUME NEW r \in Reqs, NEW s \in Shares, NEW k \in Keys,
             ExchangeSelect(r, s, k), req'[q] # req[q]
      PROVE  FALSE
  BY <1>0, <1>6 DEF ExchangeSelect, Idle
<1>7. ASSUME NEW r \in Reqs, NEW k \in Keys, ShareBySession(r, k), req'[q] # req[q]
      PROVE  FALSE
  BY <1>0, <1>7 DEF ShareBySession, Idle
<1>8. ASSUME NEW r \in Reqs, NEW todo,
             NEW pc \in {"version", "delete", "delete sessions", "delete shares"},
             \/ req' = [req EXCEPT ![r].pc = pc]
             \/ req' = [req EXCEPT ![r].pc = pc, ![r].todo = todo],
             req'[q] # req[q]
      PROVE  FALSE
  BY <1>0, <1>8 DEF Requests
<1>9. ASSUME NEW r \in Reqs, Begin(r)
      PROVE  \/ req'[q] = req[q]
             \/ Exists(req'[q].share)
  BY <1>2, <1>6, <1>7, <1>8, <1>9 DEF Begin, DeleteArtifact
<1>10. ASSUME NEW r \in Reqs, Proceed(r)
       PROVE  \/ req'[q] = req[q]
              \/ req[q].pc \in {"revoke", "purge"} /\ req'[q].share = req[q].share
  BY <1>3, <1>4, <1>5, <1>8, <1>10
     DEF Proceed, ExchangeInsert, VersionForShare, RenderViewer, RevokeCommit,
         DeleteSessions, DeleteShares, DeleteCommit
<1>11. QED
  BY <1>1, <1>5, <1>9, <1>10
     DEF Next, Abort, CreateShare, CleanupExpired, Tick, vars

\* A link that is revoked was created before, and stays created.
LEMMA NextRevokedMade ==
    TypeOK /\ Wellformed /\ RevokedMade /\ [Next]_vars => RevokedMade'
<1> SUFFICES ASSUME TypeOK, Wellformed, RevokedMade, [Next]_vars PROVE RevokedMade'
  OBVIOUS
<1>1. \A s \in Shares : share[s].made => share'[s].made
  BY ShareStep
<1>2. ASSUME NEW q \in Reqs, req'[q].pc \in {"revoke", "purge"}
      PROVE  share'[req'[q].share].made
  <2>1. share[req'[q].share].made
    BY <1>2, Revokers DEF RevokedMade, Exists
  <2>2. req'[q].share \in Shares
    BY <1>2, NextWellformed DEF Wellformed, RequestOk
  <2>3. QED BY <1>1, <2>1, <2>2
<1>3. ASSUME NEW s \in Shares, share'[s].revoked, ~deleted'
      PROVE  share'[s].made
  <2>0. share \in [Shares -> ShareRows]
    BY DEF TypeOK
  <2>1. ASSUME share[s].revoked, deleted' = deleted PROVE share'[s].made
    BY <1>1, <1>3, <2>1 DEF RevokedMade
  <2>2. CASE share' = share /\ deleted' = deleted
    BY <1>3, <2>1, <2>2
  <2>3. ASSUME NEW o \in Shares, NEW limit, NEW left, CreateShare(o, limit, left)
        PROVE  share'[s].made
    <3>1. share'[s] = share[s] \/ share'[s].made
      BY <2>0, <2>3 DEF CreateShare, NoShare
    <3>2. deleted' = deleted
      BY <2>3 DEF CreateShare
    <3>3. QED BY <1>3, <2>1, <3>1, <3>2
  <2>4. ASSUME NEW r \in Reqs, NEW k \in Keys, ShareBySession(r, k)
        PROVE  share'[s].made
    <3>1. share'[s].revoked = share[s].revoked
      BY <2>0, <2>4 DEF ShareBySession, ShareRows
    <3>2. deleted' = deleted
      BY <2>4 DEF ShareBySession
    <3>3. QED BY <1>3, <2>1, <3>1, <3>2
  <2>5. ASSUME NEW r \in Reqs, RevokeCommit(r) PROVE share'[s].made
    <3>1. CASE s # req[r].share
      <4>1. share'[s] = share[s] /\ deleted' = deleted
        BY <2>0, <2>5, <3>1 DEF RevokeCommit
      <4>2. QED BY <1>3, <2>1, <4>1
    <3>2. CASE s = req[r].share
      BY <1>1, <2>5, <3>2 DEF RevokeCommit, RevokedMade
    <3>3. QED BY <3>1, <3>2
  <2>6. ASSUME NEW r \in Reqs, DeleteCommit(r) PROVE share'[s].made
    BY <1>3, <2>6 DEF DeleteCommit
  <2>7. ASSUME Tick PROVE share'[s].made
    <3>1. share'[s].revoked = share[s].revoked /\ deleted' = deleted
      BY <2>0, <2>7 DEF Tick, ShareRows
    <3>2. QED BY <1>3, <2>1, <3>1
  <2>8. QED BY <2>2, <2>3, <2>4, <2>5, <2>6, <2>7, ShareSteps
<1>4. QED BY <1>2, <1>3 DEF RevokedMade

-----------------------------------------------------------------------------
(* The theorems.                                                           *)

LEMMA InitIInv == Init => IInv
<1> SUFFICES ASSUME Init PROVE IInv
  OBVIOUS
<1>1. TypeOK
  BY InitTypeOK
<1>2. Wellformed /\ LocksExclude
  BY DEF Init, Wellformed, RequestOk, LocksExclude, Locks, Idle
<1>3. Excluded
  BY NoneAssumption DEF Init, Excluded, Idle, NoShare, NoSession
<1>4. RevokedMade
  BY DEF Init, RevokedMade, Idle, NoShare
<1>5. ASSUME NEW s \in Shares PROVE ViewsOk(s)
  <2>1. Underway(s) = {}
    BY DEF Init, Underway, Idle
  <2>2. IsFiniteSet({}) /\ Cardinality({}) = 0
    BY FS_EmptySet
  <2>3. share[s].views = 0 /\ share[s].limit = None /\ shown[s] = 0
    BY DEF Init, NoShare
  <2>4. QED BY <2>1, <2>2, <2>3 DEF ViewsOk
<1>6. QED BY <1>1, <1>2, <1>3, <1>4, <1>5 DEF IInv, ViewsCounted

LEMMA Invariance == Spec => []IInv
<1>1. IInv /\ [Next]_vars => IInv'
  BY NextTypeOK, NextWellformed, NextExclude, NextExcluded, NextRevokedMade, NextViews
     DEF IInv
<1>2. QED BY <1>1, InitIInv, PTL DEF Spec

\* Every row, deadline and request keeps its type.
THEOREM TypeCorrect == Spec => []TypeOK
<1>1. IInv => TypeOK
  BY DEF IInv
<1>2. QED BY <1>1, Invariance, PTL

\* A row locked for update is locked by one transaction alone, and a transaction
\* that revokes a link or exchanges it holds its row (ExchangeShare, RevokeShare,
\* AdminDeleteArtifact).
THEOREM LocksExclusive == Spec => [](Wellformed /\ LocksExclude)
<1>1. IInv => Wellformed /\ LocksExclude
  BY DEF IInv
<1>2. QED BY <1>1, Invariance, PTL

\* The viewers of a link with a limit are never shown more pages than that, for
\* every number of viewers, sessions and requests (ShareBySession, sharedViewer).
THEOREM ViewsLimited == Spec => []ViewLimitKept
<1>1. IInv => ViewLimitKept
  BY DEF IInv, ViewsCounted, ViewsOk, Underway, ViewLimitKept
<1>2. QED BY <1>1, Invariance, PTL

\* While the artifact is not deleted, a revoked link has no session left, however many
\* exchanges and revocations ran at the time (ExchangeShare, RevokeShare).
THEOREM SessionsRevoked == Spec => []RevokedHasNoSession
<1>1. IInv => RevokedHasNoSession
  BY DEF IInv, Excluded, RevokedHasNoSession, SessionsOf
<1>2. QED BY <1>1, Invariance, PTL

\* No session appears but the one an exchange inserts.
LEMMA SessionStep ==
    ASSUME TypeOK, [Next]_vars, NEW k \in Keys
    PROVE  \/ session'[k].share \in {session[k].share, None}
           \/ \E r \in Reqs : /\ req[r].pc = "exchange"
                              /\ session'[k].share = req[r].share
<1>0. session \in [Keys -> SessionRows]
  BY DEF TypeOK
<1>1. ASSUME NEW r \in Reqs, ExchangeInsert(r)
      PROVE  \/ session'[k].share = session[k].share
             \/ /\ req[r].pc = "exchange"
                /\ session'[k].share = req[r].share
  BY <1>0, <1>1 DEF ExchangeInsert
<1>2. ASSUME NEW r \in Reqs, RevokeCommit(r) \/ DeleteCommit(r)
      PROVE  session'[k].share \in {session[k].share, None}
  <2>1. CASE RevokeCommit(r)
    BY <1>0, <2>1 DEF RevokeCommit, NoSession
  <2>2. CASE DeleteCommit(r)
    BY <1>0, <2>2 DEF DeleteCommit, NoSession
  <2>3. QED BY <1>2, <2>1, <2>2
<1>3. ASSUME CleanupExpired PROVE session'[k].share \in {session[k].share, None}
  BY <1>3 DEF CleanupExpired, NoSession
<1>4. ASSUME Tick PROVE session'[k].share = session[k].share
  BY <1>0, <1>4 DEF Tick, SessionRows
<1>5. QED
  BY <1>1, <1>2, <1>3, <1>4
     DEF Next, CreateShare, Begin, Proceed, ExchangeSelect, RevokeUpdate,
         ShareBySession, DeleteArtifact, VersionForShare, RenderViewer, RevokeDelete,
         LockRow, DeleteSessions, DeleteShares, Abort, vars

\* No step takes a revocation back, counts a view of a revoked link or hands out a
\* session of it.
LEMMA StepRevoked ==
    IInv /\ [Next]_vars =>
       [\A s \in Shares : share[s].revoked =>
          /\ share'[s].revoked
          /\ share'[s].views = share[s].views
          /\ {k \in Keys : session'[k].share = s} \subseteq SessionsOf(s)]_vars
<1> SUFFICES ASSUME IInv, Next, NEW s \in Shares, share[s].revoked
             PROVE  /\ share'[s].revoked
                    /\ share'[s].views = share[s].views
                    /\ \A k \in Keys : session'[k].share = s => session[k].share = s
  BY DEF SessionsOf
<1>1. TypeOK
  BY DEF IInv
<1>2. share[s].made \/ deleted
  BY DEF IInv, RevokedMade
<1>3. share'[s].revoked /\ share'[s].views = share[s].views
  BY <1>1, <1>2, ShareStep
<1>4. ASSUME NEW k \in Keys, session'[k].share = s, session[k].share # s
      PROVE  FALSE
  <2>1. PICK r \in Reqs : req[r].pc = "exchange" /\ req[r].share = s
    BY <1>1, <1>4, SessionStep, NoneAssumption
  <2>2. ~share[s].revoked
    BY <2>1 DEF IInv, Excluded
  <2>3. QED BY <2>2
<1>5. QED BY <1>3, <1>4

\* A revoked link stays revoked, and no view of it is counted and no session handed
\* out any more, for every number of sessions and requests (ShareBySession,
\* ExchangeShare, RevokeShare, AdminDeleteArtifact).
THEOREM RevocationIsFinal == Spec => RevocationFinal
BY Invariance, StepRevoked, PTL DEF Spec, RevocationFinal
=============================================================================

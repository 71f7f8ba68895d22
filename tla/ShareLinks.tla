----------------------------- MODULE ShareLinks -----------------------------
(***************************************************************************)
(* Capability shares of one artifact: creating, exchanging, viewing and    *)
(* revoking them, and deleting the artifact, as PostgreSQL transactions    *)
(* that run concurrently at READ COMMITTED.                                *)
(*                                                                         *)
(* A step is one SQL statement or one row lock it takes.  A statement sees *)
(* what is committed; what a transaction has written shows when it         *)
(* commits, and until then its row locks (held) make others wait: a step   *)
(* that needs a locked row is disabled, and evaluates its WHERE clause     *)
(* again on the committed row when the lock is free.  Shares of different  *)
(* artifacts have no row in common.                                        *)
(***************************************************************************)
EXTENDS Naturals, FiniteSets

CONSTANTS
    Shares,      \* share ids
    Keys,        \* share session cookies
    Reqs,        \* request handlers in flight
    MaxLimit,    \* bound on view_limit
    MaxViews,    \* bound on the views counted for an unlimited share
    Life,        \* ticks until a share with an expires_at expires
    SessionTTL,  \* RENDERCASE_SESSION_TTL in ticks
    TicketTTL,   \* RENDERCASE_VIEWER_TICKET_TTL in ticks
    None         \* SQL NULL

ASSUME BoundsAssumption ==
    /\ MaxLimit \in Nat /\ MaxViews \in Nat
    /\ Life \in Nat \ {0} /\ SessionTTL \in Nat \ {0} /\ TicketTTL \in Nat \ {0}
ASSUME NoneAssumption ==
    None \notin Shares /\ None \notin Keys /\ None \notin Nat

VARIABLES
    deleted,  \* artifacts.deleted_at is set
    share,    \* shares
    session,  \* share_sessions
    ticket,   \* ticks left of the last ticket minted for each share's viewers
    shown,    \* viewer pages rendered for each share
    req       \* request handlers

vars == <<deleted, share, session, ticket, shown, req>>

NoShare == [made |-> FALSE, limit |-> None, views |-> 0, left |-> None,
            revoked |-> FALSE]
ShareRows == [made : BOOLEAN, limit : (1..MaxLimit) \cup {None},
              views : Nat, left : (0..Life) \cup {None}, revoked : BOOLEAN]
NoSession == [share |-> None, left |-> 0]
SessionRows == [share : Shares \cup {None}, left : 0..SessionTTL]

\* held: the rows a transaction has locked for update; reads: the rows it has
\* locked for share; todo: the rows its current statement has yet to lock.
Idle == [pc |-> "idle", share |-> None, key |-> None,
         held |-> {}, reads |-> {}, todo |-> {}]
Requests == [pc : {"idle", "exchange", "revoke", "purge", "delete",
                   "delete sessions", "delete shares", "pin", "version"},
             share : Shares \cup {None}, key : Keys \cup {None},
             held : SUBSET (Shares \cup Keys), reads : SUBSET Shares,
             todo : SUBSET (Shares \cup Keys)]

TypeOK ==
    /\ deleted \in BOOLEAN
    /\ share \in [Shares -> ShareRows]
    /\ session \in [Keys -> SessionRows]
    /\ ticket \in [Shares -> 0..TicketTTL]
    /\ shown \in [Shares -> Nat]
    /\ req \in [Reqs -> Requests]

Init ==
    /\ deleted = FALSE
    /\ share = [s \in Shares |-> NoShare]
    /\ session = [k \in Keys |-> NoSession]
    /\ ticket = [s \in Shares |-> 0]
    /\ shown = [s \in Shares |-> 0]
    /\ req = [r \in Reqs |-> Idle]

Exists(s) == share[s].made
Unexpired(s) == share[s].left # 0
Usable(s) == Exists(s) /\ ~share[s].revoked /\ Unexpired(s)
BelowLimit(s) == share[s].views < IF share[s].limit = None THEN MaxViews
                                                         ELSE share[s].limit
SessionsOf(s) == {k \in Keys : session[k].share = s}

\* The transactions a row lock for update waits for: those that have the row
\* locked for update, or for share (ExchangeShare).
Locks(q) == req[q].held \cup req[q].reads
Holders(x) == {q \in Reqs : x \in Locks(q)}

Reply(r) == req' = [req EXCEPT ![r] = Idle]

-----------------------------------------------------------------------------
(* CreateShare: one INSERT ... SELECT FROM artifacts.  Its foreign key     *)
(* takes FOR KEY SHARE on the artifact, which a pending soft deletion does *)
(* not block.                                                              *)

CreateShare(s, limit, left) ==
    /\ ~Exists(s)
    /\ ~deleted
    /\ share' = [share EXCEPT ![s] = [NoShare EXCEPT !.made = TRUE, !.limit = limit,
                                                   !.left = left]]
    /\ UNCHANGED <<deleted, session, ticket, shown, req>>

-----------------------------------------------------------------------------
(* ExchangeShare: the link becomes a session cookie.                       *)

\* securetoken.Secret: a cookie nobody has.
NewKey(k) ==
    /\ session[k].share = None
    /\ \A q \in Reqs : k # req[q].key /\ k \notin req[q].todo

\* Variant: SELECT without FOR SHARE.
ExchangeSelectUnlocked(r, s, k) ==
    /\ req[r].pc = "idle"
    /\ Usable(s) /\ BelowLimit(s)
    /\ NewKey(k)
    /\ req' = [req EXCEPT ![r] = [Idle EXCEPT !.pc = "exchange", !.share = s,
                                                !.key = k]]
    /\ UNCHANGED <<deleted, share, session, ticket, shown>>

\* SELECT ... FOR SHARE.
ExchangeSelect(r, s, k) ==
    /\ req[r].pc = "idle"
    /\ \A q \in Reqs : s \notin req[q].held
    /\ Usable(s) /\ BelowLimit(s)
    /\ NewKey(k)
    /\ req' = [req EXCEPT ![r] = [Idle EXCEPT !.pc = "exchange", !.share = s,
                                                !.key = k, !.reads = {s}]]
    /\ UNCHANGED <<deleted, share, session, ticket, shown>>

\* Variant: the session ends with the share only.
ExchangeInsertUntilExpiry(r) ==
    /\ req[r].pc = "exchange"
    /\ session' = [session EXCEPT ![req[r].key] =
         [share |-> req[r].share, left |-> share[req[r].share].left]]
    /\ Reply(r)
    /\ UNCHANGED <<deleted, share, ticket, shown>>

\* INSERT INTO share_sessions and COMMIT.  The session ends with the share.
ExchangeInsert(r) ==
    LET s == req[r].share IN
    /\ req[r].pc = "exchange"
    /\ session' = [session EXCEPT ![req[r].key] =
         [share |-> s,
          left |-> IF share[s].left # None /\ share[s].left < SessionTTL
                     THEN share[s].left ELSE SessionTTL]]
    /\ Reply(r)
    /\ UNCHANGED <<deleted, share, ticket, shown>>

-----------------------------------------------------------------------------
(* sharedViewer: ShareBySession, VersionForShare, Version, renderViewer.   *)

\* Variant: whether the share is revoked is left to its sessions being deleted.
ShareBySessionUnchecked(r, k) ==
    LET s == session[k].share IN
    /\ req[r].pc = "idle"
    /\ s # None
    /\ session[k].left > 0
    /\ Holders(s) = {}
    /\ BelowLimit(s)
    /\ share' = [share EXCEPT ![s].views = @ + 1]
    /\ req' = [req EXCEPT ![r] = [Idle EXCEPT !.pc = "pin", !.share = s]]
    /\ UNCHANGED <<deleted, session, ticket, shown>>

\* Variant: the limit is left to ExchangeShare.
ShareBySessionUnlimited(r, k) ==
    LET s == session[k].share IN
    /\ req[r].pc = "idle"
    /\ s # None
    /\ session[k].left > 0
    /\ Holders(s) = {}
    /\ Usable(s)
    /\ share' = [share EXCEPT ![s].views = @ + 1]
    /\ req' = [req EXCEPT ![r] = [Idle EXCEPT !.pc = "pin", !.share = s]]
    /\ UNCHANGED <<deleted, session, ticket, shown>>

\* ShareBySession: one UPDATE that counts the view.
ShareBySession(r, k) ==
    LET s == session[k].share IN
    /\ req[r].pc = "idle"
    /\ s # None
    /\ session[k].left > 0
    /\ Holders(s) = {}
    /\ Usable(s) /\ BelowLimit(s)
    /\ share' = [share EXCEPT ![s].views = @ + 1]
    /\ req' = [req EXCEPT ![r] = [Idle EXCEPT !.pc = "pin", !.share = s]]
    /\ UNCHANGED <<deleted, session, ticket, shown>>

\* VersionForShare looks at the share again ...
VersionForShare(r) ==
    /\ req[r].pc = "pin"
    /\ IF Usable(req[r].share)
         THEN req' = [req EXCEPT ![r].pc = "version"]
         ELSE Reply(r)
    /\ UNCHANGED <<deleted, share, session, ticket, shown>>

\* ... and Version at the artifact; then the page with its ticket is rendered.
RenderViewer(r) ==
    LET s == req[r].share IN
    /\ req[r].pc = "version"
    /\ IF deleted
         THEN UNCHANGED <<ticket, shown>>
         ELSE /\ ticket' = [ticket EXCEPT ![s] = TicketTTL]
              /\ shown' = [shown EXCEPT ![s] = @ + 1]
    /\ Reply(r)
    /\ UNCHANGED <<deleted, share, session>>

-----------------------------------------------------------------------------
(* RevokeShare and AdminRevokeShare: UPDATE shares, DELETE FROM            *)
(* share_sessions, COMMIT.                                                 *)

RevokeUpdate(r, s) ==
    /\ req[r].pc = "idle"
    /\ Holders(s) = {}
    /\ Exists(s) /\ ~share[s].revoked
    /\ req' = [req EXCEPT ![r] = [Idle EXCEPT !.pc = "revoke", !.share = s,
                                                !.held = {s}]]
    /\ UNCHANGED <<deleted, share, session, ticket, shown>>

RevokeDelete(r) ==
    /\ req[r].pc = "revoke"
    /\ req' = [req EXCEPT ![r].pc = "purge", ![r].todo = SessionsOf(req[r].share)]
    /\ UNCHANGED <<deleted, share, session, ticket, shown>>

RevokeCommit(r) ==
    /\ req[r].pc = "purge"
    /\ req[r].todo = {}
    /\ share' = [share EXCEPT ![req[r].share].revoked = TRUE]
    /\ session' = [k \in Keys |-> IF k \in req[r].held THEN NoSession
                                                       ELSE session[k]]
    /\ Reply(r)
    /\ UNCHANGED <<deleted, ticket, shown>>

\* A DELETE or UPDATE of several rows locks them one by one; a row that another
\* transaction has deleted meanwhile is passed over.
LockRow(r, x) ==
    /\ req[r].pc \in {"purge", "delete sessions", "delete shares"}
    /\ x \in req[r].todo
    /\ Holders(x) = {}
    /\ req' = [req EXCEPT ![r].todo = @ \ {x},
                          ![r].held = IF x \in Keys /\ session[x].share = None
                                        THEN @ ELSE @ \cup {x}]
    /\ UNCHANGED <<deleted, share, session, ticket, shown>>

-----------------------------------------------------------------------------
(* AdminDeleteArtifact: UPDATE artifacts, DELETE FROM share_sessions,      *)
(* UPDATE shares, COMMIT.                                                  *)

Deleting(q) == req[q].pc \in {"delete", "delete sessions", "delete shares"}

DeleteArtifact(r) ==
    /\ req[r].pc = "idle"
    /\ ~deleted
    /\ \A q \in Reqs : ~Deleting(q)
    /\ req' = [req EXCEPT ![r].pc = "delete"]
    /\ UNCHANGED <<deleted, share, session, ticket, shown>>

DeleteSessions(r) ==
    /\ req[r].pc = "delete"
    /\ req' = [req EXCEPT ![r].pc = "delete sessions",
                          ![r].todo = {k \in Keys : session[k].share # None}]
    /\ UNCHANGED <<deleted, share, session, ticket, shown>>

DeleteShares(r) ==
    /\ req[r].pc = "delete sessions"
    /\ req[r].todo = {}
    /\ req' = [req EXCEPT ![r].pc = "delete shares",
                          ![r].todo = {s \in Shares : Exists(s)}]
    /\ UNCHANGED <<deleted, share, session, ticket, shown>>

DeleteCommit(r) ==
    /\ req[r].pc = "delete shares"
    /\ req[r].todo = {}
    /\ deleted' = TRUE
    /\ share' = [s \in Shares |-> [share[s] EXCEPT !.revoked =
                                     @ \/ s \in req[r].held]]
    /\ session' = [k \in Keys |-> IF k \in req[r].held THEN NoSession
                                                       ELSE session[k]]
    /\ Reply(r)
    /\ UNCHANGED <<ticket, shown>>

-----------------------------------------------------------------------------
(* The environment.                                                        *)

\* Variant: the deferred rollback is missing; the connection keeps its locks.
AbortOpen(r) ==
    /\ req[r].pc # "idle"
    /\ UNCHANGED vars

\* Any statement may fail and any request be cancelled; rollbackTransaction
\* releases the locks.
Abort(r) ==
    /\ req[r].pc # "idle"
    /\ Reply(r)
    /\ UNCHANGED <<deleted, share, session, ticket, shown>>

\* PostgreSQL cancels a transaction of a cycle of lock waits.
WaitsOn(r) ==
    IF \E x \in req[r].todo : Holders(x) = {} THEN {}
    ELSE UNION {Holders(x) : x \in req[r].todo}
Deadlocked(r) ==
    \E D \in SUBSET Reqs : r \in D /\ \A q \in D : WaitsOn(q) \cap D # {}
DeadlockAbort(r) == Deadlocked(r) /\ Abort(r)

Less(n) == IF n \in Nat /\ n > 0 THEN n - 1 ELSE n

Tick ==
    /\ share' = [s \in Shares |-> [share[s] EXCEPT !.left = Less(@)]]
    /\ session' = [k \in Keys |-> [session[k] EXCEPT !.left = Less(@)]]
    /\ ticket' = [s \in Shares |-> Less(ticket[s])]
    /\ UNCHANGED <<deleted, shown, req>>

\* CleanupExpired deletes the expired sessions, waiting for rows locked.
CleanupExpired ==
    LET expired == {k \in Keys : session[k].share # None /\ session[k].left = 0}
    IN
    /\ \A k \in expired : Holders(k) = {}
    /\ session' = [k \in Keys |-> IF k \in expired THEN NoSession ELSE session[k]]
    /\ UNCHANGED <<deleted, share, ticket, shown, req>>

\* The steps a request that has begun takes by itself.
Proceed(r) ==
    \/ ExchangeInsert(r)
    \/ VersionForShare(r) \/ RenderViewer(r)
    \/ RevokeDelete(r) \/ RevokeCommit(r)
    \/ \E x \in Shares \cup Keys : LockRow(r, x)
    \/ DeleteSessions(r) \/ DeleteShares(r) \/ DeleteCommit(r)

Begin(r) ==
    \/ \E s \in Shares, k \in Keys : ExchangeSelect(r, s, k)
    \/ \E s \in Shares : RevokeUpdate(r, s)
    \/ \E k \in Keys : ShareBySession(r, k)
    \/ DeleteArtifact(r)

Next ==
    \/ \E s \in Shares, limit \in (1..MaxLimit) \cup {None}, left \in {Life, None} :
         CreateShare(s, limit, left)
    \/ \E r \in Reqs : Begin(r) \/ Proceed(r) \/ Abort(r)
    \/ CleanupExpired
    \/ Tick

Spec == Init /\ [][Next]_vars

-----------------------------------------------------------------------------
(* Properties.                                                             *)

\* Viewers of a link with a view limit, however many sessions it was exchanged
\* for, are shown at most that many pages: a page is rendered only for a view
\* that has been counted (ShareBySession, sharedViewer).
ViewLimitKept ==
    \A s \in Shares :
        LET underway == {r \in Reqs : /\ req[r].pc \in {"pin", "version"}
                                      /\ req[r].share = s}
        IN  /\ shown[s] + Cardinality(underway) <= share[s].views
            /\ share[s].limit # None => share[s].views <= share[s].limit

\* Revoking a link leaves no session of it behind, also when it is exchanged at
\* that moment (ExchangeShare's FOR SHARE against RevokeShare's UPDATE).  Deleting
\* the artifact, which deletes the sessions before it locks the links, may leave
\* one of an exchange in between: it opens nothing (RevocationFinal).
RevokedHasNoSession ==
    \A s \in Shares : share[s].revoked /\ ~deleted => SessionsOf(s) = {}

\* A revoked link, of a deleted artifact too, stays revoked; no view of it is
\* counted and no session handed out any more (ShareBySession, ExchangeShare).
RevocationFinal ==
    [][\A s \in Shares : share[s].revoked =>
          /\ share'[s].revoked
          /\ share'[s].views = share[s].views
          /\ {k \in Keys : session'[k].share = s} \subseteq SessionsOf(s)]_vars

\* README: "Deletion immediately hides the artifact and revokes its shares".
DeletionRevokes ==
    \A s \in Shares : deleted /\ Exists(s) => share[s].revoked

\* Variant: only the signature of the ticket is verified.
VerifySignature(s) == shown[s] > 0

\* securetoken.Verify and Version, as the content handler calls them.
Verify(s) == ticket[s] > 0
Served(s) == Verify(s) /\ ~deleted

\* Once a link is revoked its viewers' content is eventually out of reach for
\* good: the tickets already minted run out and no new one is minted, even by a
\* page that was being rendered (sharedViewer, content).
RevokedContentEnds ==
    \A s \in Shares : [](share[s].revoked => <>[]~Served(s))

\* No request keeps a row from the others for ever: AdminDeleteArtifact and
\* RevokeShare lock sessions and shares in opposite orders, and when they block
\* each other one is rolled back (rollbackTransaction).
LocksReleased ==
    \A r \in Reqs, x \in Shares \cup Keys : x \in Locks(r) ~> x \notin Locks(r)

\* Time passes, a request that has begun goes on when its statement can, and
\* PostgreSQL grants contended locks in turn and breaks deadlocks.  Nobody has
\* to begin a request, and no request has to fail otherwise.
Fairness ==
    /\ WF_vars(Tick)
    /\ \A r \in Reqs : SF_vars(Proceed(r)) /\ WF_vars(DeadlockAbort(r))

FairSpec == Spec /\ Fairness
=============================================================================

------------------------------ MODULE Identity ------------------------------
(***************************************************************************)
(* Who a request acts as, and what that user may see.                      *)
(*                                                                         *)
(* People sign in through OIDC and keep a session cookie, or bring an      *)
(* access token or a Cloudflare Access assertion with every request;       *)
(* Switchboard acts as a user it names.  Each way ends in one row of the   *)
(* users table.  A user publishes, opens and hides artifacts; a publisher  *)
(* may be mapped to a viewer who is granted whatever it publishes.         *)
(*                                                                         *)
(* Users are named by oidc_subject, which is unique.  The database         *)
(* outlives the configuration: the operator stops the replicas, changes it *)
(* and starts them again.  All replicas have the same configuration.       *)
(***************************************************************************)
EXTENDS Naturals, FiniteSets

CONSTANTS
    Plain,      \* identity subjects that do not begin with cloudflare_access:
    Prefixed,   \* identity subjects that do
    Configs,    \* configurations the operator may deploy
    Logins,     \* login states securetoken.Secret() can return
    Cookies,    \* session tokens it can return
    Reqs,       \* requests that can be in flight at once
    Artifacts,
    StateTTL,   \* lifetime of a login state, in ticks
    SessionTTL, \* RENDERCASE_SESSION_TTL in ticks
    None        \* no user, no login, no viewer

Subjects == Plain \cup Prefixed

\* What config.Load accepts.  viewer is RENDERCASE_PUBLISHER_VIEWERS.
ValidConfig(c) ==
    /\ c.mode \in {"oidc", "cloudflare_access"}
    /\ c.admins \subseteq Plain
    /\ c.services \subseteq Plain \ c.admins
    /\ c.services # {} => c.mode = "cloudflare_access"
    /\ c.viewer \in [Subjects -> Subjects \cup {None}]
    /\ \A s \in Subjects : c.viewer[s] # s

ASSUME ConfigsAssumption == \A c \in Configs : ValidConfig(c)
ASSUME LifetimeAssumption == StateTTL \in Nat \ {0} /\ SessionTTL \in Nat \ {0}
ASSUME NoneAssumption == None \notin Subjects /\ None \notin Logins

VARIABLES
    config,   \* the configuration of the replicas
    up,       \* does a replica serve requests?
    boot,     \* BackfillPublisherViewers of a replica that starts
    users,    \* users: no row, a person or a service user
    admin,    \* users with is_admin
    logins,   \* oidc_states
    sessions, \* sessions, each with the login it came from (history)
    owner,    \* artifacts.owner_id, None while there is no such artifact
    open,     \* artifacts whose visibility is "authenticated"
    deleted,  \* artifacts with deleted_at
    grants,   \* artifact_grants
    shown,    \* the pages served so far: who was shown which artifact (history)
    req       \* requests in flight

process == <<config, up, boot>>
accounts == <<users, admin>>
content == <<owner, open, deleted, grants, shown>>
vars == <<config, up, boot, users, admin, logins, sessions,
          owner, open, deleted, grants, shown, req>>

Idle == [pc |-> "idle", login |-> None, subject |-> None, via |-> "nobody",
         admin |-> FALSE]
Requests == [pc : {"idle", "exchange", "session", "acting"},
             login : Logins \cup {None}, subject : Subjects \cup {None},
             via : {"nobody", "person", "service", "gateway"}, admin : BOOLEAN]

NoBoot == [on |-> FALSE, todo |-> {}, grants |-> {}]
NewLogin == [state |-> "fresh", left |-> 0]
NewSession == [state |-> "fresh", left |-> 0, subject |-> None, login |-> None]

TypeOK ==
    /\ config \in Configs
    /\ up \in BOOLEAN
    /\ boot \in [on : BOOLEAN, todo : SUBSET Subjects,
                 grants : SUBSET (Artifacts \X Subjects)]
    /\ users \in [Subjects -> {"none", "person", "service"}]
    /\ admin \in SUBSET Subjects
    /\ logins \in [Logins -> [state : {"fresh", "live", "gone"},
                              left : 0..StateTTL]]
    /\ sessions \in [Cookies -> [state : {"fresh", "live", "gone"},
                                 left : 0..SessionTTL,
                                 subject : Subjects \cup {None},
                                 login : Logins \cup {None}]]
    /\ owner \in [Artifacts -> Subjects \cup {None}]
    /\ open \in SUBSET Artifacts
    /\ deleted \in SUBSET Artifacts
    /\ grants \in SUBSET (Artifacts \X Subjects)
    /\ shown \in SUBSET (Artifacts \X Subjects)
    /\ req \in [Reqs -> Requests]

Init ==
    /\ config \in Configs
    /\ up = FALSE
    /\ boot = NoBoot
    /\ users = [s \in Subjects |-> "none"]
    /\ admin = {}
    /\ logins = [l \in Logins |-> NewLogin]
    /\ sessions = [c \in Cookies |-> NewSession]
    /\ owner = [a \in Artifacts |-> None]
    /\ open = {}
    /\ deleted = {}
    /\ grants = {}
    /\ shown = {}
    /\ req = [r \in Reqs |-> Idle]

\* A row of oidc_states or sessions as its query finds it.  CleanupExpired only
\* deletes rows that no query finds any more, so it is no step.
Valid(row) == row.state = "live" /\ row.left > 0

Ready(r) == up /\ req[r].pc = "idle"
Reply(r) == req' = [req EXCEPT ![r] = Idle]

\* The request has a user in its context.
ActAs(r, s, via, adm) ==
    req' = [req EXCEPT ![r] = [pc |-> "acting", login |-> None, subject |-> s,
                               via |-> via, admin |-> adm]]

-----------------------------------------------------------------------------
(* The users table.  Both upserts are one statement, and each leaves a row *)
(* of the other kind alone and returns an error.                           *)

\* Variant: no WHERE NOT users.is_service.
UpsertUserAny(s, adm) ==
    /\ users' = [users EXCEPT ![s] = IF @ = "none" THEN "person" ELSE @]
    /\ admin' = IF adm THEN admin \cup {s} ELSE admin \ {s}

UpsertUser(s, adm) ==
    /\ users[s] # "service"
    /\ users' = [users EXCEPT ![s] = "person"]
    /\ admin' = IF adm THEN admin \cup {s} ELSE admin \ {s}

UpsertServiceUser(s) ==
    /\ users[s] # "person"
    /\ users' = [users EXCEPT ![s] = "service"]
    /\ admin' = admin \ {s}

-----------------------------------------------------------------------------
(* Signing in with OIDC.                                                   *)

Login(l) ==
    /\ up /\ config.mode = "oidc"
    /\ logins[l].state = "fresh"
    /\ logins' = [logins EXCEPT ![l] = [state |-> "live", left |-> StateTTL]]
    /\ UNCHANGED <<process, accounts, sessions, content, req>>

\* Variant: SELECT, and no DELETE.
ConsumeOIDCStateKept(r, l) ==
    /\ Ready(r) /\ config.mode = "oidc"
    /\ Valid(logins[l])
    /\ req' = [req EXCEPT ![r].pc = "exchange", ![r].login = l]
    /\ UNCHANGED <<process, accounts, logins, sessions, content>>

\* callback: DELETE ... RETURNING takes the state, also from a second callback.
ConsumeOIDCState(r, l) ==
    /\ Ready(r) /\ config.mode = "oidc"
    /\ Valid(logins[l])
    /\ logins' = [logins EXCEPT ![l] = [state |-> "gone", left |-> 0]]
    /\ req' = [req EXCEPT ![r].pc = "exchange", ![r].login = l]
    /\ UNCHANGED <<process, accounts, sessions, content>>

\* The provider's ID token names s and repeats the nonce.
CallbackUpsert(r, s) ==
    /\ req[r].pc = "exchange"
    /\ UpsertUser(s, s \in config.admins)
    /\ req' = [req EXCEPT ![r].pc = "session", ![r].subject = s]
    /\ UNCHANGED <<process, logins, sessions, content>>

CreateSession(r, c) ==
    /\ req[r].pc = "session"
    /\ sessions[c].state = "fresh"
    /\ sessions' = [sessions EXCEPT ![c] =
                      [state |-> "live", left |-> SessionTTL,
                       subject |-> req[r].subject, login |-> req[r].login]]
    /\ Reply(r)
    /\ UNCHANGED <<process, accounts, logins, content>>

\* logout; when the DELETE fails the error is dropped and the row stays.
Logout(c) ==
    /\ up /\ config.mode = "oidc"
    /\ Valid(sessions[c])
    /\ sessions' = [sessions EXCEPT ![c].state = "gone"]
    /\ UNCHANGED <<process, accounts, logins, content, req>>

-----------------------------------------------------------------------------
(* Authenticating a request.                                               *)

AuthSession(r, c) ==
    /\ Ready(r) /\ config.mode = "oidc"
    /\ Valid(sessions[c])
    /\ ActAs(r, sessions[c].subject, "person", sessions[c].subject \in admin)
    /\ UNCHANGED <<process, accounts, logins, sessions, content>>

\* bearerUser, which the REST API accepts in both modes.
AuthBearer(r, s) ==
    /\ Ready(r)
    /\ s \in Plain
    /\ UpsertUser(s, s \in config.admins)
    /\ ActAs(r, s, "person", s \in config.admins)
    /\ UNCHANGED <<process, logins, sessions, content>>

\* cloudflareAccessUser; adm follows the assertion's subject and groups.
AuthAssertion(r, s, adm) ==
    /\ Ready(r) /\ config.mode = "cloudflare_access"
    /\ s \in Prefixed
    /\ UpsertUser(s, adm)
    /\ ActAs(r, s, "person", adm)
    /\ UNCHANGED <<process, logins, sessions, content>>

\* cloudflareAccessMCPUser for a subject listed as a service.
AuthService(r, s) ==
    /\ Ready(r)
    /\ s \in config.services
    /\ UpsertServiceUser(s)
    /\ ActAs(r, s, "service", FALSE)
    /\ UNCHANGED <<process, logins, sessions, content>>

\* delegatedUser: UserBySubject finds the row, of either kind, or the request is
\* refused.  With a bearer the gateway may name anyone in both modes.
AuthDelegated(r, s) ==
    /\ Ready(r)
    /\ users[s] # "none"
    /\ ActAs(r, s, "gateway", s \in admin)
    /\ UNCHANGED <<process, accounts, logins, sessions, content>>

-----------------------------------------------------------------------------
(* What the user then does.                                                *)

Own(r, a) ==
    /\ req[r].pc = "acting"
    /\ owner[a] = req[r].subject
    /\ a \notin deleted

\* Variant: the grant is left to the next start-up.
CommitVersionUngranted(r, a) ==
    /\ req[r].pc = "acting"
    /\ owner[a] = None \/ Own(r, a)
    /\ owner' = [owner EXCEPT ![a] = req[r].subject]
    /\ Reply(r)
    /\ UNCHANGED <<process, accounts, logins, sessions,
                   open, deleted, grants, shown>>

\* CommitVersion, for a new artifact or a new version of one's own; a missing
\* viewer rolls it back.
CommitVersion(r, a) ==
    LET v == config.viewer[req[r].subject] IN
    /\ req[r].pc = "acting"
    /\ owner[a] = None \/ Own(r, a)
    /\ v # None => users[v] # "none"
    /\ owner' = [owner EXCEPT ![a] = req[r].subject]
    /\ grants' = IF v = None THEN grants ELSE grants \cup {<<a, v>>}
    /\ Reply(r)
    /\ UNCHANGED <<process, accounts, logins, sessions, open, deleted, shown>>

SetArtifactVisibility(r, a) ==
    /\ Own(r, a)
    /\ open' \in {open \cup {a}, open \ {a}}
    /\ Reply(r)
    /\ UNCHANGED <<process, accounts, logins, sessions,
                   owner, deleted, grants, shown>>

\* Variant: "authenticated" admits every user.
SeesAny(s, a) ==
    /\ owner[a] # None
    /\ a \notin deleted
    /\ owner[a] = s \/ <<a, s>> \in grants \/ a \in open

\* The WHERE clause of ArtifactForUser and ListArtifacts.
Sees(s, a) ==
    /\ owner[a] # None
    /\ a \notin deleted
    /\ \/ owner[a] = s
       \/ <<a, s>> \in grants
       \/ a \in open /\ users[s] # "service"

\* viewer, and the tools that read an artifact.
View(r, a) ==
    /\ req[r].pc = "acting"
    /\ Sees(req[r].subject, a)
    /\ shown' = shown \cup {<<a, req[r].subject>>}
    /\ Reply(r)
    /\ UNCHANGED <<process, accounts, logins, sessions,
                   owner, open, deleted, grants>>

\* adminDeleteArtifact behind requireAdmin, which looks at the user in the
\* request's context.
AdminDelete(r, a) ==
    /\ req[r].pc = "acting" /\ req[r].admin
    /\ owner[a] # None /\ a \notin deleted
    /\ deleted' = deleted \cup {a}
    /\ Reply(r)
    /\ UNCHANGED <<process, accounts, logins, sessions,
                   owner, open, grants, shown>>

\* An error, a refusal, a cancelled request or the crash of its replica.
Abandon(r) ==
    /\ req[r].pc # "idle"
    /\ Reply(r)
    /\ UNCHANGED <<process, accounts, logins, sessions, content>>

-----------------------------------------------------------------------------
(* BackfillPublisherViewers: one transaction, one statement per publisher, *)
(* while other replicas may already serve.                                 *)

BootBegin ==
    /\ ~boot.on
    /\ boot' = [on |-> TRUE, grants |-> {},
                todo |-> {s \in Subjects : config.viewer[s] # None}]
    /\ UNCHANGED <<config, up, accounts, logins, sessions, content, req>>

\* Variant: a mapping whose recipient is unknown is skipped.
BootMapSkip(s) ==
    LET v == config.viewer[s]
        mine == {a \in Artifacts : owner[a] = s /\ a \notin deleted}
    IN
    /\ boot.on
    /\ s \in boot.todo
    /\ boot' = [boot EXCEPT
                  !.todo = @ \ {s},
                  !.grants = IF users[v] = "none" THEN @ ELSE @ \cup (mine \X {v})]
    /\ UNCHANGED <<config, up, accounts, logins, sessions, content, req>>

BootMap(s) ==
    LET v == config.viewer[s]
        mine == {a \in Artifacts : owner[a] = s /\ a \notin deleted}
    IN
    /\ boot.on
    /\ s \in boot.todo
    /\ users[v] # "none"
    /\ boot' = [boot EXCEPT !.todo = @ \ {s}, !.grants = @ \cup (mine \X {v})]
    /\ UNCHANGED <<config, up, accounts, logins, sessions, content, req>>

BootDone ==
    /\ boot.on
    /\ boot.todo = {}
    /\ grants' = grants \cup boot.grants
    /\ boot' = NoBoot
    /\ up' = TRUE
    /\ UNCHANGED <<config, accounts, logins, sessions,
                   owner, open, deleted, shown, req>>

\* A recipient that never signed in, or any error: the process exits.
BootFail ==
    /\ boot.on
    /\ boot' = NoBoot
    /\ UNCHANGED <<config, up, accounts, logins, sessions, content, req>>

\* All replicas stop, and the next ones get configuration c.
Redeploy(c) ==
    /\ config' = c
    /\ up' = FALSE
    /\ boot' = NoBoot
    /\ req' = [r \in Reqs |-> Idle]
    /\ UNCHANGED <<accounts, logins, sessions, content>>

Tick ==
    /\ logins' = [l \in Logins |->
                    [logins[l] EXCEPT !.left = IF @ > 0 THEN @ - 1 ELSE 0]]
    /\ sessions' = [c \in Cookies |->
                      [sessions[c] EXCEPT !.left = IF @ > 0 THEN @ - 1 ELSE 0]]
    /\ UNCHANGED <<process, accounts, content, req>>

SignIn ==
    \/ \E l \in Logins : Login(l)
    \/ \E r \in Reqs, l \in Logins : ConsumeOIDCState(r, l)
    \/ \E r \in Reqs, s \in Plain : CallbackUpsert(r, s)
    \/ \E r \in Reqs, c \in Cookies : CreateSession(r, c)
    \/ \E c \in Cookies : Logout(c)

Authenticate(r) ==
    \/ \E c \in Cookies : AuthSession(r, c)
    \/ \E s \in Subjects : AuthBearer(r, s) \/ AuthService(r, s) \/ AuthDelegated(r, s)
    \/ \E s \in Subjects, adm \in BOOLEAN : AuthAssertion(r, s, adm)

Act(r) ==
    \/ \E a \in Artifacts : \/ CommitVersion(r, a) \/ SetArtifactVisibility(r, a)
                            \/ View(r, a) \/ AdminDelete(r, a)
    \/ Abandon(r)

Operate ==
    \/ BootBegin \/ BootDone \/ BootFail
    \/ \E s \in Subjects : BootMap(s)
    \/ \E c \in Configs : Redeploy(c)
    \/ Tick

Next ==
    \/ SignIn
    \/ \E r \in Reqs : Authenticate(r) \/ Act(r)
    \/ Operate

Spec == Init /\ [][Next]_vars

-----------------------------------------------------------------------------
(* Properties.                                                             *)

\* A login state starts one session at most, however many callbacks present it
\* and whenever they come (ConsumeOIDCState before CreateSession, with the
\* provider in between).
LoginOnce ==
    \A c, d \in Cookies :
        sessions[c].login # None /\ sessions[c].login = sessions[d].login => c = d

\* "A person cannot inherit its artifacts": a cookie, a token or an assertion
\* never makes a person act as a service user, a service subject never acts as
\* a person, and neither a service user's row nor a request that acts as one has
\* administrator rights, whichever configurations came and went (UpsertUser and
\* UpsertServiceUser, and the row a session refers to long after).
NoInheritance ==
    /\ \A c \in Cookies :
          sessions[c].state = "live" => users[sessions[c].subject] = "person"
    /\ \A r \in Reqs :
          /\ req[r].via = "person" => users[req[r].subject] = "person"
          /\ req[r].via = "service" => users[req[r].subject] = "service"
          /\ req[r].admin => users[req[r].subject] = "person"
    /\ \A s \in admin : users[s] = "person"

\* "Service users see only artifacts they own or were granted": so it is with
\* every page a service user was ever served (ArtifactForUser, against the
\* creation of users and the visibility and deletion of artifacts).
ServiceSees ==
    \A a \in Artifacts, s \in Subjects :
        <<a, s>> \in shown /\ users[s] = "service" =>
            owner[a] = s \/ <<a, s>> \in grants

\* While a replica serves, every active artifact of a mapped publisher is
\* granted to its viewer: those of before the mapping by the backfill, the
\* others by the transaction that published them (BackfillPublisherViewers in
\* one replica, CommitVersion in the others).
PublisherGranted ==
    up => \A a \in Artifacts, s \in Subjects :
            owner[a] = s /\ a \notin deleted /\ config.viewer[s] # None =>
                <<a, config.viewer[s]>> \in grants

-----------------------------------------------------------------------------
(* Why they hold.                                                          *)

\* What a request holds at each of its steps.
Holds(r) ==
    /\ req[r].pc = "idle" => req[r] = Idle
    /\ req[r].pc \in {"exchange", "session"} =>
          req[r].via = "nobody" /\ ~req[r].admin /\ req[r].login \in Logins
    /\ req[r].pc = "session" =>
          req[r].subject \in Subjects /\ users[req[r].subject] = "person"
    /\ req[r].pc = "acting" =>
          /\ req[r].login = None
          /\ req[r].subject \in Subjects
          /\ users[req[r].subject] # "none"

Steps == \A r \in Reqs : Holds(r)

\* A login state that has been taken is gone, and belongs to one request or to
\* one session.
Taken ==
    /\ \A r \in Reqs :
          req[r].login # None =>
            /\ logins[req[r].login].state = "gone"
            /\ \A q \in Reqs : req[q].login = req[r].login => q = r
            /\ \A c \in Cookies : sessions[c].login # req[r].login
    /\ \A c \in Cookies :
          /\ sessions[c].login # None => logins[sessions[c].login].state = "gone"
          /\ sessions[c].state = "live" => sessions[c].subject \in Subjects

\* Whoever was shown something has a row, so its kind is settled.
Readers == \A a \in Artifacts, s \in Subjects : <<a, s>> \in shown => users[s] # "none"

\* A starting replica has mapped publishers ahead of it, and those it is done with
\* have all their grants, also for what they published since.
Backfilled ==
    boot.on =>
        /\ \A s \in boot.todo : config.viewer[s] # None
        /\ \A a \in Artifacts, s \in Subjects \ boot.todo :
              owner[a] = s /\ a \notin deleted /\ config.viewer[s] # None =>
                  <<a, config.viewer[s]>> \in grants \cup boot.grants

\* The invariant of the theorems in IdentityProofs: kinds are settled at the first
\* use of a subject, login states have one heir, and a backfill never falls
\* behind the publications that go on (UpsertUser, ConsumeOIDCState,
\* BackfillPublisherViewers).
IInv ==
    /\ TypeOK
    /\ Steps /\ Taken /\ Readers /\ Backfilled
    /\ LoginOnce /\ NoInheritance /\ ServiceSees /\ PublisherGranted
=============================================================================

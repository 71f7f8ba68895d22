--------------------------- MODULE IdentityProofs ---------------------------
(***************************************************************************)
(* Theorems about Identity, for every set of subjects, requests, cookies,  *)
(* login states and artifacts, every lifetime and every set of             *)
(* configurations that config.Load accepts.                                *)
(***************************************************************************)
EXTENDS Identity, TLAPS

-----------------------------------------------------------------------------
(* What the groups of actions leave alone.                                 *)

\* An operation of a user ends its request and touches no account.
LEMMA ActQuiet ==
    ASSUME NEW r \in Reqs, Act(r)
    PROVE  /\ Reply(r)
           /\ UNCHANGED <<config, up, boot, users, admin, logins, sessions>>
BY DEF Act, CommitVersion, SetArtifactVisibility, View, AdminDelete, Abandon,
       process, accounts, content

\* Authenticating a request changes users and the request only.
LEMMA AuthenticateQuiet ==
    ASSUME NEW r \in Reqs, Authenticate(r)
    PROVE  UNCHANGED <<config, up, boot, logins, sessions,
                       owner, open, deleted, grants, shown>>
BY DEF Authenticate, AuthSession, AuthBearer, AuthAssertion, AuthService,
       AuthDelegated, process, accounts, content

\* Signing in changes no artifact and no configuration.
LEMMA SignInQuiet ==
    ASSUME SignIn
    PROVE  UNCHANGED <<config, up, boot, owner, open, deleted, grants, shown>>
BY DEF SignIn, Login, ConsumeOIDCState, CallbackUpsert, CreateSession, Logout,
       process, accounts, content

\* Start-up, redeployment and time change no user and no artifact.
LEMMA OperateQuiet ==
    ASSUME Operate
    PROVE  /\ UNCHANGED <<users, admin, owner, open, deleted, shown>>
           /\ req' = req \/ req' = [r \in Reqs |-> Idle]
BY DEF Operate, BootBegin, BootDone, BootFail, BootMap, Redeploy, Tick,
       process, accounts, content

-----------------------------------------------------------------------------
(* Type correctness.                                                       *)

\* A request that rests and a replica that does not start are well typed.
LEMMA IdleType == Idle \in Requests /\ NoBoot \in
    [on : BOOLEAN, todo : SUBSET Subjects, grants : SUBSET (Artifacts \X Subjects)]
BY DEF Idle, Requests, NoBoot

\* The configuration in force is one that config.Load accepted.
LEMMA ConfigType ==
    ASSUME TypeOK
    PROVE  /\ ValidConfig(config)
           /\ config.viewer \in [Subjects -> Subjects \cup {None}]
BY ConfigsAssumption DEF TypeOK, ValidConfig

\* An empty database is well typed.
LEMMA InitTypeOK == Init => TypeOK
<1> SUFFICES ASSUME Init PROVE TypeOK
  OBVIOUS
<1>1. NewLogin \in [state : {"fresh", "live", "gone"}, left : 0..StateTTL]
  BY LifetimeAssumption DEF NewLogin
<1>2. NewSession \in [state : {"fresh", "live", "gone"}, left : 0..SessionTTL,
                      subject : Subjects \cup {None}, login : Logins \cup {None}]
  BY LifetimeAssumption DEF NewSession
<1>3. QED BY <1>1, <1>2, IdleType DEF Init, TypeOK

\* A reply leaves the requests well typed.
LEMMA ReplyType ==
    ASSUME TypeOK, NEW r \in Reqs, Reply(r)
    PROVE  req' \in [Reqs -> Requests]
BY IdleType DEF Reply, TypeOK

\* So does giving a request its user.
LEMMA ActAsType ==
    ASSUME TypeOK, NEW r \in Reqs, NEW s \in Subjects \cup {None},
           NEW via \in {"person", "service", "gateway"}, NEW adm \in BOOLEAN,
           ActAs(r, s, via, adm)
    PROVE  req' \in [Reqs -> Requests]
<1>1. [pc |-> "acting", login |-> None, subject |-> s, via |-> via, admin |-> adm]
        \in Requests
  BY DEF Requests
<1>2. QED BY <1>1 DEF ActAs, TypeOK

\* Both upserts leave the users table well typed.
LEMMA UpsertType ==
    ASSUME TypeOK, NEW s \in Subjects, NEW adm \in BOOLEAN,
           UpsertUser(s, adm) \/ UpsertServiceUser(s)
    PROVE  /\ users' \in [Subjects -> {"none", "person", "service"}]
           /\ admin' \in SUBSET Subjects
BY DEF TypeOK, UpsertUser, UpsertServiceUser

\* Signing in keeps every variable in its type.
LEMMA SignInType == TypeOK /\ SignIn => TypeOK'
<1> SUFFICES ASSUME TypeOK, SignIn PROVE TypeOK'
  OBVIOUS
<1>q. UNCHANGED <<config, up, boot, owner, open, deleted, grants, shown>>
  BY SignInQuiet
<1>1. ASSUME NEW l \in Logins, Login(l) PROVE TypeOK'
  <2>1. [state |-> "live", left |-> StateTTL]
          \in [state : {"fresh", "live", "gone"}, left : 0..StateTTL]
    BY LifetimeAssumption
  <2>2. QED BY <1>q, <1>1, <2>1 DEF Login, TypeOK, accounts
<1>2. ASSUME NEW r \in Reqs, NEW l \in Logins, ConsumeOIDCState(r, l) PROVE TypeOK'
  <2>1. [state |-> "gone", left |-> 0]
          \in [state : {"fresh", "live", "gone"}, left : 0..StateTTL]
    BY LifetimeAssumption
  <2>2. req' \in [Reqs -> Requests]
    <3>1. [req[r] EXCEPT !.pc = "exchange", !.login = l] \in Requests
      <4>1. req[r] \in Requests
        BY DEF TypeOK
      <4>2. QED BY <4>1 DEF Requests
    <3>2. req' = [req EXCEPT ![r] = [req[r] EXCEPT !.pc = "exchange", !.login = l]]
      BY <1>2 DEF ConsumeOIDCState, TypeOK
    <3>3. QED BY <3>1, <3>2 DEF TypeOK
  <2>3. QED BY <1>q, <1>2, <2>1, <2>2 DEF ConsumeOIDCState, TypeOK, accounts
<1>3. ASSUME NEW r \in Reqs, NEW s \in Plain, CallbackUpsert(r, s) PROVE TypeOK'
  <2>1. s \in Subjects
    BY DEF Subjects
  <2>2. /\ users' \in [Subjects -> {"none", "person", "service"}]
        /\ admin' \in SUBSET Subjects
    <3>1. UpsertUser(s, s \in config.admins)
      BY <1>3 DEF CallbackUpsert
    <3>2. QED BY <2>1, <3>1 DEF UpsertUser, TypeOK
  <2>3. req' \in [Reqs -> Requests]
    <3>1. [req[r] EXCEPT !.pc = "session", !.subject = s] \in Requests
      BY <2>1 DEF TypeOK, Requests
    <3>2. req' = [req EXCEPT ![r] = [req[r] EXCEPT !.pc = "session", !.subject = s]]
      BY <1>3 DEF CallbackUpsert, TypeOK
    <3>3. QED BY <3>1, <3>2 DEF TypeOK
  <2>4. QED BY <1>q, <1>3, <2>2, <2>3 DEF CallbackUpsert, TypeOK
<1>4. ASSUME NEW r \in Reqs, NEW c \in Cookies, CreateSession(r, c) PROVE TypeOK'
  <2>1. [state |-> "live", left |-> SessionTTL, subject |-> req[r].subject,
         login |-> req[r].login]
          \in [state : {"fresh", "live", "gone"}, left : 0..SessionTTL,
               subject : Subjects \cup {None}, login : Logins \cup {None}]
    BY LifetimeAssumption DEF TypeOK, Requests
  <2>2. QED BY <1>q, <1>4, <2>1, ReplyType DEF CreateSession, TypeOK, accounts
<1>5. ASSUME NEW c \in Cookies, Logout(c) PROVE TypeOK'
  <2> DEFINE R == [state : {"fresh", "live", "gone"}, left : 0..SessionTTL,
                   subject : Subjects \cup {None}, login : Logins \cup {None}]
  <2>1. sessions \in [Cookies -> R]
    BY DEF TypeOK
  <2>2. [sessions[c] EXCEPT !.state = "gone"] \in R
    <3>1. sessions[c] \in R
      BY <2>1
    <3>2. QED BY <3>1
  <2>3. sessions' = [sessions EXCEPT ![c] = [sessions[c] EXCEPT !.state = "gone"]]
    BY <1>5, <2>1 DEF Logout
  <2> HIDE DEF R
  <2>4. sessions' \in [Cookies -> R]
    BY <2>1, <2>2, <2>3
  <2>5. QED BY <1>q, <1>5, <2>4 DEF Logout, TypeOK, accounts, R
<1>6. QED BY <1>1, <1>2, <1>3, <1>4, <1>5 DEF SignIn

\* So does every way of authenticating.
LEMMA AuthenticateType ==
    ASSUME TypeOK, NEW r \in Reqs, Authenticate(r) PROVE TypeOK'
<1>q. UNCHANGED <<config, up, boot, logins, sessions,
                  owner, open, deleted, grants, shown>>
  BY AuthenticateQuiet
<1> DEFINE Goal == /\ users' \in [Subjects -> {"none", "person", "service"}]
                   /\ admin' \in SUBSET Subjects
                   /\ req' \in [Reqs -> Requests]
<1> SUFFICES Goal
  BY <1>q DEF TypeOK
<1>1. ASSUME NEW c \in Cookies, AuthSession(r, c)
      PROVE  /\ UNCHANGED <<users, admin>>
             /\ req' \in [Reqs -> Requests]
  <2> DEFINE s == sessions[c].subject
  <2>1. s \in Subjects \cup {None}
    BY DEF TypeOK
  <2>2. (s \in admin) \in BOOLEAN
    OBVIOUS
  <2>3. ActAs(r, s, "person", s \in admin) /\ UNCHANGED <<users, admin>>
    BY <1>1 DEF AuthSession, accounts
  <2> HIDE DEF s
  <2>4. QED BY <2>1, <2>2, <2>3, ActAsType
<1>2. ASSUME NEW s \in Subjects, AuthDelegated(r, s)
      PROVE  /\ UNCHANGED <<users, admin>>
             /\ req' \in [Reqs -> Requests]
  <2>1. (s \in admin) \in BOOLEAN
    OBVIOUS
  <2>2. QED BY <1>2, <2>1, ActAsType DEF AuthDelegated, accounts
<1>3. ASSUME NEW s \in Subjects, AuthBearer(r, s) PROVE Goal
  <2>1. (s \in config.admins) \in BOOLEAN
    OBVIOUS
  <2>2. QED BY <1>3, <2>1, ActAsType, UpsertType DEF AuthBearer
<1>4. ASSUME NEW s \in Subjects, AuthService(r, s) PROVE Goal
  BY <1>4, ActAsType, UpsertType DEF AuthService
<1>5. ASSUME NEW s \in Subjects, NEW adm \in BOOLEAN, AuthAssertion(r, s, adm)
      PROVE Goal
  BY <1>5, ActAsType, UpsertType DEF AuthAssertion
<1>6. CASE \E c \in Cookies : AuthSession(r, c)
  BY <1>1, <1>6 DEF TypeOK
<1>7. CASE \E s \in Subjects : AuthBearer(r, s) \/ AuthService(r, s) \/ AuthDelegated(r, s)
  BY <1>2, <1>3, <1>4, <1>7 DEF TypeOK
<1>8. CASE \E s \in Subjects, adm \in BOOLEAN : AuthAssertion(r, s, adm)
  BY <1>5, <1>8
<1>9. QED BY <1>6, <1>7, <1>8 DEF Authenticate

\* The subject of a request that acts, and the viewer it is mapped to.
LEMMA ActorType ==
    ASSUME TypeOK, Steps, NEW r \in Reqs, req[r].pc = "acting"
    PROVE  /\ req[r].subject \in Subjects
           /\ config.viewer[req[r].subject] \in Subjects \cup {None}
BY ConfigType DEF Steps, Holds

\* And what the user does.
LEMMA ActType ==
    ASSUME TypeOK, Steps, NEW r \in Reqs, Act(r) PROVE TypeOK'
<1>q. /\ UNCHANGED <<config, up, boot, users, admin, logins, sessions>>
      /\ req' \in [Reqs -> Requests]
  BY ActQuiet, ReplyType
<1>1. ASSUME NEW a \in Artifacts, CommitVersion(r, a) PROVE TypeOK'
  <2> DEFINE v == config.viewer[req[r].subject]
  <2>1. req[r].subject \in Subjects /\ v \in Subjects \cup {None}
    BY <1>1, ActorType DEF CommitVersion
  <2>2. /\ owner' = [owner EXCEPT ![a] = req[r].subject]
        /\ grants' = IF v = None THEN grants ELSE grants \cup {<<a, v>>}
        /\ UNCHANGED <<open, deleted, shown>>
    BY <1>1 DEF CommitVersion
  <2> HIDE DEF v
  <2>3. QED BY <1>q, <2>1, <2>2 DEF TypeOK
<1>2. ASSUME NEW a \in Artifacts, SetArtifactVisibility(r, a) PROVE TypeOK'
  BY <1>q, <1>2 DEF SetArtifactVisibility, TypeOK
<1>3. ASSUME NEW a \in Artifacts, View(r, a) PROVE TypeOK'
  <2>1. req[r].subject \in Subjects
    BY <1>3, ActorType DEF View
  <2>2. QED BY <1>q, <1>3, <2>1 DEF View, TypeOK
<1>4. ASSUME NEW a \in Artifacts, AdminDelete(r, a) PROVE TypeOK'
  BY <1>q, <1>4 DEF AdminDelete, TypeOK
<1>5. CASE Abandon(r)
  BY <1>q, <1>5 DEF Abandon, TypeOK, content
<1>6. QED BY <1>1, <1>2, <1>3, <1>4, <1>5 DEF Act

\* And what the operator, the clock and a starting replica do.
LEMMA OperateType == TypeOK /\ Backfilled /\ Operate => TypeOK'
<1> SUFFICES ASSUME TypeOK, Backfilled, Operate PROVE TypeOK'
  OBVIOUS
<1>q. /\ UNCHANGED <<users, admin, owner, open, deleted, shown>>
      /\ req' \in [Reqs -> Requests]
  BY OperateQuiet, IdleType DEF TypeOK
<1>1. CASE BootBegin
  BY <1>q, <1>1 DEF BootBegin, TypeOK, content
<1>2. CASE BootDone
  BY <1>q, <1>2, IdleType DEF BootDone, TypeOK
<1>3. CASE BootFail
  BY <1>q, <1>3, IdleType DEF BootFail, TypeOK, content
<1>4. ASSUME NEW s \in Subjects, BootMap(s) PROVE TypeOK'
  <2> DEFINE v == config.viewer[s]
             mine == {a \in Artifacts : owner[a] = s /\ a \notin deleted}
  <2>1. v \in Subjects
    BY <1>4, ConfigType DEF BootMap, Backfilled
  <2>2. mine \X {v} \subseteq Artifacts \X Subjects
    BY <2>1
  <2>3. boot' = [boot EXCEPT !.todo = @ \ {s}, !.grants = @ \cup (mine \X {v})]
    BY <1>4 DEF BootMap
  <2> HIDE DEF v, mine
  <2>4. [on |-> boot.on, todo |-> boot.todo \ {s}, grants |-> boot.grants \cup (mine \X {v})]
          \in [on : BOOLEAN, todo : SUBSET Subjects,
               grants : SUBSET (Artifacts \X Subjects)]
    BY <2>2 DEF TypeOK
  <2>5. boot' = [on |-> boot.on, todo |-> boot.todo \ {s},
                 grants |-> boot.grants \cup (mine \X {v})]
    BY <2>3 DEF TypeOK
  <2>6. QED BY <1>q, <1>4, <2>4, <2>5 DEF BootMap, TypeOK, content
<1>5. ASSUME NEW c \in Configs, Redeploy(c) PROVE TypeOK'
  BY <1>q, <1>5, IdleType DEF Redeploy, TypeOK, content
<1>6. CASE Tick
  <2>1. ASSUME NEW l \in Logins
        PROVE  [logins[l] EXCEPT !.left = IF @ > 0 THEN @ - 1 ELSE 0]
                 \in [state : {"fresh", "live", "gone"}, left : 0..StateTTL]
    BY LifetimeAssumption DEF TypeOK
  <2>2. ASSUME NEW c \in Cookies
        PROVE  [sessions[c] EXCEPT !.left = IF @ > 0 THEN @ - 1 ELSE 0]
                 \in [state : {"fresh", "live", "gone"}, left : 0..SessionTTL,
                      subject : Subjects \cup {None}, login : Logins \cup {None}]
    BY LifetimeAssumption DEF TypeOK
  <2>3. QED BY <1>q, <1>6, <2>1, <2>2 DEF Tick, TypeOK, process, content
<1>7. QED BY <1>1, <1>2, <1>3, <1>4, <1>5, <1>6 DEF Operate

\* Every step of the system keeps every variable in its type.
LEMMA NextTypeOK == TypeOK /\ Steps /\ Backfilled /\ [Next]_vars => TypeOK'
<1>1. TypeOK /\ UNCHANGED vars => TypeOK'
  BY DEF TypeOK, vars
<1>2. QED BY <1>1, SignInType, AuthenticateType, ActType, OperateType DEF Next

-----------------------------------------------------------------------------
(* Kinds are settled: no step turns a person into a service user, a        *)
(* service user into a person, or either into nobody.                      *)

\* A row of users that is there keeps its kind (the WHERE clauses of both upserts).
LEMMA Settled ==
    ASSUME TypeOK, [Next]_vars
    PROVE  \A s \in Subjects : users[s] # "none" => users'[s] = users[s]
<1>1. ASSUME NEW s \in Subjects, NEW adm,
             UpsertUser(s, adm) \/ UpsertServiceUser(s)
      PROVE  \A t \in Subjects : users[t] # "none" => users'[t] = users[t]
  BY <1>1 DEF UpsertUser, UpsertServiceUser, TypeOK
<1>2. CASE SignIn
  <2>1. ASSUME NEW r \in Reqs, NEW s \in Plain, CallbackUpsert(r, s)
        PROVE  \A t \in Subjects : users[t] # "none" => users'[t] = users[t]
    BY <1>1, <2>1 DEF CallbackUpsert, Subjects
  <2>2. UNCHANGED users \/ \E r \in Reqs, s \in Plain : CallbackUpsert(r, s)
    BY <1>2 DEF SignIn, Login, ConsumeOIDCState, CreateSession, Logout, accounts
  <2>3. QED BY <2>1, <2>2
<1>3. ASSUME NEW r \in Reqs, Authenticate(r)
      PROVE  \A s \in Subjects : users[s] # "none" => users'[s] = users[s]
  <2>1. CASE \E s \in Subjects : AuthBearer(r, s)
    BY <1>1, <2>1 DEF AuthBearer
  <2>2. CASE \E s \in Subjects, adm \in BOOLEAN : AuthAssertion(r, s, adm)
    BY <1>1, <2>2 DEF AuthAssertion
  <2>3. CASE \E s \in Subjects : AuthService(r, s)
    BY <1>1, <2>3 DEF AuthService
  <2>4. CASE UNCHANGED users
    BY <2>4
  <2>5. QED
    BY <1>3, <2>1, <2>2, <2>3, <2>4
    DEF Authenticate, AuthSession, AuthDelegated, accounts
<1>4. QED BY <1>2, <1>3, ActQuiet, OperateQuiet DEF Next, vars

\* Every row keeps its kind, so a row that is there stays.
LEMMA Stay ==
    ASSUME TypeOK, [Next]_vars, NEW s \in Subjects
    PROVE  /\ users[s] # "none" => users'[s] # "none"
           /\ users[s] = "person" => users'[s] = "person"
           /\ users[s] = "service" => users'[s] = "service"
BY Settled

-----------------------------------------------------------------------------
(* What requests hold.                                                     *)

\* The conditions of NoInheritance for one request.
ViaOf(r) ==
    /\ req[r].via = "person" => users[req[r].subject] = "person"
    /\ req[r].via = "service" => users[req[r].subject] = "service"
    /\ req[r].admin => users[req[r].subject] = "person"

\* A request that replied, or whose replica stopped, holds nothing.
LEMMA DoneHolds ==
    ASSUME NEW r \in Reqs, req'[r] = Idle
    PROVE  Holds(r)' /\ ViaOf(r)'
BY DEF Holds, ViaOf, Idle

\* What a request holds while others work does not change.
LEMMA OthersHold ==
    ASSUME TypeOK, [Next]_vars, NEW r \in Reqs, req'[r] = req[r],
           Holds(r), ViaOf(r)
    PROVE  Holds(r)' /\ ViaOf(r)'
<1>1. CASE req[r].pc = "idle"
  BY <1>1, DoneHolds DEF Holds
<1>2. CASE req[r].pc = "exchange"
  BY <1>2 DEF Holds, ViaOf
<1>3. CASE req[r].pc = "session"
  BY <1>3, Stay DEF Holds, ViaOf
<1>4. CASE req[r].pc = "acting"
  BY <1>4, Stay DEF Holds, ViaOf
<1>5. QED BY <1>1, <1>2, <1>3, <1>4 DEF TypeOK, Requests

\* A request that just got a user: the row exists, it is of the kind that the way
\* of authenticating asks for, and an administrator's is a person's.
LEMMA ActAsHolds ==
    ASSUME TypeOK, NEW r \in Reqs, NEW s \in Subjects, NEW via, NEW adm,
           ActAs(r, s, via, adm),
           users'[s] # "none",
           via = "person" => users'[s] = "person",
           via = "service" => users'[s] = "service",
           adm => users'[s] = "person"
    PROVE  Holds(r)' /\ ViaOf(r)'
<1>1. req'[r] = [pc |-> "acting", login |-> None, subject |-> s, via |-> via,
                 admin |-> adm]
  BY DEF ActAs, TypeOK
<1>2. QED BY <1>1 DEF Holds, ViaOf

\* Steps and the conditions on requests in NoInheritance are kept by every step.
LEMMA RequestsHold ==
    ASSUME IInv, [Next]_vars, NEW q \in Reqs
    PROVE  Holds(q)' /\ ViaOf(q)'
<1> USE DEF IInv
<1>1. Holds(q) /\ ViaOf(q)
  BY DEF Steps, NoInheritance, ViaOf
<1>2. CASE req'[q] = req[q]
  BY <1>1, <1>2, OthersHold
<1>3. CASE req'[q] = Idle
  BY <1>3, DoneHolds
<1>4. ASSUME NEW r \in Reqs, Act(r)
      PROVE  req'[q] \in {req[q], Idle}
  BY <1>4, ActQuiet DEF Reply, TypeOK
<1>5. ASSUME Operate
      PROVE  req'[q] \in {req[q], Idle}
  BY <1>5, OperateQuiet
<1>6. ASSUME NEW r \in Reqs, Authenticate(r)
      PROVE  Holds(q)' /\ ViaOf(q)'
  <2>1. ASSUME NEW s, NEW via, NEW adm, ActAs(r, s, via, adm), q # r
        PROVE  req'[q] = req[q]
    BY <2>1 DEF ActAs, TypeOK
  <2>2. ASSUME NEW c \in Cookies, AuthSession(r, c)
        PROVE  Holds(q)' /\ ViaOf(q)'
    <3>1. sessions[c].subject \in Subjects
            /\ users'[sessions[c].subject] = "person"
      BY <2>2 DEF AuthSession, Valid, Taken, NoInheritance, accounts
    <3>2. ActAs(r, sessions[c].subject, "person", sessions[c].subject \in admin)
      BY <2>2 DEF AuthSession
    <3>3. QED BY <1>2, <2>1, <3>1, <3>2, ActAsHolds
  <2>3. ASSUME NEW s \in Subjects, AuthBearer(r, s)
        PROVE  Holds(q)' /\ ViaOf(q)'
    <3>1. users'[s] = "person" /\ ActAs(r, s, "person", s \in config.admins)
      BY <2>3 DEF AuthBearer, UpsertUser, TypeOK
    <3>2. QED BY <1>2, <2>1, <3>1, ActAsHolds
  <2>4. ASSUME NEW s \in Subjects, NEW adm \in BOOLEAN, AuthAssertion(r, s, adm)
        PROVE  Holds(q)' /\ ViaOf(q)'
    <3>1. users'[s] = "person" /\ ActAs(r, s, "person", adm)
      BY <2>4 DEF AuthAssertion, UpsertUser, TypeOK
    <3>2. QED BY <1>2, <2>1, <3>1, ActAsHolds
  <2>5. ASSUME NEW s \in Subjects, AuthService(r, s)
        PROVE  Holds(q)' /\ ViaOf(q)'
    <3>1. users'[s] = "service" /\ ActAs(r, s, "service", FALSE)
      BY <2>5 DEF AuthService, UpsertServiceUser, TypeOK
    <3>2. QED BY <1>2, <2>1, <3>1, ActAsHolds
  <2>6. ASSUME NEW s \in Subjects, AuthDelegated(r, s)
        PROVE  Holds(q)' /\ ViaOf(q)'
    <3>1. /\ ActAs(r, s, "gateway", s \in admin)
          /\ users'[s] # "none"
          /\ s \in admin => users'[s] = "person"
      BY <2>6 DEF AuthDelegated, NoInheritance, accounts
    <3>2. QED BY <1>2, <2>1, <3>1, ActAsHolds
  <2>7. QED BY <1>6, <2>2, <2>3, <2>4, <2>5, <2>6 DEF Authenticate
<1>7. ASSUME SignIn
      PROVE  Holds(q)' /\ ViaOf(q)'
  <2>1. CASE \E l \in Logins : Login(l)
    BY <1>2, <2>1 DEF Login
  <2>2. CASE \E c \in Cookies : Logout(c)
    BY <1>2, <2>2 DEF Logout
  <2>3. ASSUME NEW r \in Reqs, NEW l \in Logins, ConsumeOIDCState(r, l)
        PROVE  Holds(q)' /\ ViaOf(q)'
    <3>1. CASE q # r
      BY <1>2, <2>3, <3>1 DEF ConsumeOIDCState, TypeOK
    <3>2. CASE q = r
      <4>1. req[r] = Idle
        BY <1>1, <2>3, <3>2 DEF ConsumeOIDCState, Ready, Holds
      <4>2. req'[r] = [Idle EXCEPT !.pc = "exchange", !.login = l]
        BY <2>3, <4>1 DEF ConsumeOIDCState, TypeOK
      <4>3. QED BY <3>2, <4>2 DEF Idle, Holds, ViaOf
    <3>3. QED BY <3>1, <3>2
  <2>4. ASSUME NEW r \in Reqs, NEW s \in Plain, CallbackUpsert(r, s)
        PROVE  Holds(q)' /\ ViaOf(q)'
    <3>1. CASE q # r
      BY <1>2, <2>4, <3>1 DEF CallbackUpsert, TypeOK
    <3>2. CASE q = r
      <4>1. s \in Subjects /\ users'[s] = "person"
        BY <2>4 DEF CallbackUpsert, UpsertUser, TypeOK, Subjects
      <4>2. /\ req'[r].pc = "session" /\ req'[r].subject = s
            /\ req'[r].via = req[r].via /\ req'[r].admin = req[r].admin
            /\ req'[r].login = req[r].login
        BY <2>4 DEF CallbackUpsert, TypeOK, Requests
      <4>3. req[r].via = "nobody" /\ ~req[r].admin /\ req[r].login \in Logins
        BY <1>1, <2>4, <3>2 DEF CallbackUpsert, Holds
      <4>4. QED BY <3>2, <4>1, <4>2, <4>3 DEF Holds, ViaOf
    <3>3. QED BY <3>1, <3>2
  <2>5. ASSUME NEW r \in Reqs, NEW c \in Cookies, CreateSession(r, c)
        PROVE  Holds(q)' /\ ViaOf(q)'
    BY <1>2, <1>3, <2>5 DEF CreateSession, Reply, TypeOK
  <2>6. QED BY <1>7, <2>1, <2>2, <2>3, <2>4, <2>5 DEF SignIn
<1>8. CASE UNCHANGED vars
  BY <1>2, <1>8 DEF vars
<1>9. QED BY <1>2, <1>3, <1>4, <1>5, <1>6, <1>7, <1>8 DEF Next

-----------------------------------------------------------------------------
(* Persons and administrators.                                             *)

\* Administrators stay persons.
LEMMA AdminsHold ==
    ASSUME IInv, [Next]_vars
    PROVE  \A s \in admin' : users'[s] = "person"
<1> USE DEF IInv
<1>1. CASE admin' \subseteq admin
  BY <1>1, Stay DEF NoInheritance, TypeOK
<1>2. ASSUME NEW s \in Subjects, NEW adm, UpsertUser(s, adm) \/ UpsertServiceUser(s)
      PROVE  \A t \in admin' : users'[t] = "person"
  BY <1>2, Stay DEF NoInheritance, TypeOK, UpsertUser, UpsertServiceUser
<1>3. ASSUME NEW r \in Reqs, Authenticate(r)
      PROVE  \A s \in admin' : users'[s] = "person"
  <2>1. CASE \E s \in Subjects : AuthBearer(r, s)
    BY <1>2, <2>1 DEF AuthBearer
  <2>2. CASE \E s \in Subjects, adm \in BOOLEAN : AuthAssertion(r, s, adm)
    BY <1>2, <2>2 DEF AuthAssertion
  <2>3. CASE \E s \in Subjects : AuthService(r, s)
    BY <1>2, <2>3 DEF AuthService
  <2>4. QED
    BY <1>1, <1>3, <2>1, <2>2, <2>3
    DEF Authenticate, AuthSession, AuthDelegated, accounts
<1>4. ASSUME SignIn
      PROVE  \A s \in admin' : users'[s] = "person"
  <2>1. CASE \E r \in Reqs, s \in Plain : CallbackUpsert(r, s)
    BY <1>2, <2>1 DEF CallbackUpsert, Subjects
  <2>2. QED
    BY <1>1, <1>4, <2>1
    DEF SignIn, Login, ConsumeOIDCState, CreateSession, Logout, accounts
<1>5. QED BY <1>1, <1>3, <1>4, ActQuiet, OperateQuiet DEF Next, vars

\* Only CreateSession gives a cookie a live session; every other step keeps the
\* subject and the login it came from.
LEMMA SessionStep ==
    ASSUME TypeOK, [Next]_vars, NEW c \in Cookies,
           ~\E r \in Reqs : CreateSession(r, c)
    PROVE  /\ sessions'[c].subject = sessions[c].subject
           /\ sessions'[c].login = sessions[c].login
           /\ sessions'[c].state = "live" => sessions[c].state = "live"
<1>1. CASE UNCHANGED sessions
  BY <1>1
<1>2. CASE Tick
  BY <1>2 DEF Tick, TypeOK
<1>3. ASSUME NEW d \in Cookies, Logout(d)
      PROVE  /\ sessions'[c].subject = sessions[c].subject
             /\ sessions'[c].login = sessions[c].login
             /\ sessions'[c].state = "live" => sessions[c].state = "live"
  BY <1>3 DEF Logout, TypeOK
<1>4. ASSUME NEW r \in Reqs, NEW d \in Cookies, CreateSession(r, d)
      PROVE  sessions'[c] = sessions[c]
  BY <1>4 DEF CreateSession, TypeOK
<1>5. CASE SignIn
  BY <1>1, <1>3, <1>4, <1>5
  DEF SignIn, Login, ConsumeOIDCState, CallbackUpsert
<1>6. CASE Operate
  BY <1>1, <1>2, <1>6
  DEF Operate, BootBegin, BootDone, BootFail, BootMap, Redeploy
<1>7. QED BY <1>1, <1>5, <1>6, ActQuiet, AuthenticateQuiet DEF Next, vars

\* The session that CreateSession gives to a cookie.
LEMMA SessionMade ==
    ASSUME IInv, NEW r \in Reqs, NEW c \in Cookies, CreateSession(r, c)
    PROVE  /\ req[r].login \in Logins
           /\ req[r].subject \in Subjects
           /\ users[req[r].subject] = "person" /\ UNCHANGED <<users, logins>>
           /\ sessions'[c].subject = req[r].subject
           /\ sessions'[c].login = req[r].login
           /\ \A d \in Cookies \ {c} : sessions'[d] = sessions[d]
           /\ req'[r] = Idle
           /\ \A q \in Reqs \ {r} : req'[q] = req[q]
BY DEF IInv, TypeOK, Steps, Holds, CreateSession, Reply, accounts

\* A live session belongs to a person.
LEMMA PersonsHold ==
    ASSUME IInv, [Next]_vars, NEW c \in Cookies, sessions'[c].state = "live"
    PROVE  sessions'[c].subject \in Subjects /\ users'[sessions'[c].subject] = "person"
<1> USE DEF IInv
<1>1. CASE \E r \in Reqs : CreateSession(r, c)
  BY <1>1, SessionMade
<1>2. CASE ~\E r \in Reqs : CreateSession(r, c)
  <2>1. /\ sessions'[c].subject = sessions[c].subject
        /\ sessions[c].state = "live"
    BY <1>2, SessionStep
  <2>2. sessions[c].subject \in Subjects /\ users[sessions[c].subject] = "person"
    BY <2>1 DEF Taken, NoInheritance
  <2>3. QED BY <2>1, <2>2, Stay
<1>3. QED BY <1>1, <1>2

\* No step lets anyone act as, or administer as, a user of the other kind.
LEMMA NoInheritanceStep == IInv /\ [Next]_vars => NoInheritance'
BY RequestsHold, AdminsHold, PersonsHold DEF NoInheritance, ViaOf

-----------------------------------------------------------------------------
(* Login states.                                                           *)

\* A state that is gone stays gone.
LEMMA GoneStays ==
    ASSUME TypeOK, [Next]_vars, NEW l \in Logins, logins[l].state = "gone"
    PROVE  logins'[l].state = "gone"
<1>1. CASE UNCHANGED logins
  BY <1>1
<1>2. CASE Tick
  BY <1>2 DEF Tick, TypeOK
<1>3. CASE SignIn
  <2>1. ASSUME NEW m \in Logins, Login(m) PROVE logins'[l].state = "gone"
    BY <2>1 DEF Login, TypeOK
  <2>2. ASSUME NEW r \in Reqs, NEW m \in Logins, ConsumeOIDCState(r, m)
        PROVE  logins'[l].state = "gone"
    BY <2>2 DEF ConsumeOIDCState, TypeOK
  <2>3. QED BY <1>1, <1>3, <2>1, <2>2
            DEF SignIn, CallbackUpsert, CreateSession, Logout
<1>4. CASE Operate
  BY <1>1, <1>2, <1>4
  DEF Operate, BootBegin, BootDone, BootFail, BootMap, Redeploy
<1>5. QED BY <1>1, <1>3, <1>4, ActQuiet, AuthenticateQuiet DEF Next, vars

\* Only ConsumeOIDCState gives a request a login state.
LEMMA LoginStep ==
    ASSUME IInv, [Next]_vars, NEW q \in Reqs,
           ~\E l \in Logins : ConsumeOIDCState(q, l)
    PROVE  req'[q].login \in {req[q].login, None}
<1> USE DEF IInv
<1>1. CASE req'[q] \in {req[q], Idle}
  BY <1>1 DEF Idle
<1>2. ASSUME NEW r \in Reqs, NEW s, NEW via, NEW adm, ActAs(r, s, via, adm)
      PROVE  req'[q].login \in {req[q].login, None}
  BY <1>2 DEF ActAs, TypeOK
<1>3. ASSUME NEW r \in Reqs, Authenticate(r)
      PROVE  req'[q].login \in {req[q].login, None}
  BY <1>2, <1>3 DEF Authenticate, AuthSession, AuthBearer, AuthAssertion,
                    AuthService, AuthDelegated
<1>4. ASSUME SignIn
      PROVE  req'[q].login \in {req[q].login, None}
  <2>1. ASSUME NEW r \in Reqs, NEW s \in Plain, CallbackUpsert(r, s)
        PROVE  req'[q].login = req[q].login
    BY <2>1 DEF CallbackUpsert, TypeOK, Requests
  <2>2. ASSUME NEW r \in Reqs, NEW l \in Logins, ConsumeOIDCState(r, l), r # q
        PROVE  req'[q].login = req[q].login
    BY <2>2 DEF ConsumeOIDCState, TypeOK
  <2>3. ASSUME NEW r \in Reqs, NEW c \in Cookies, CreateSession(r, c)
        PROVE  req'[q] \in {req[q], Idle}
    BY <2>3 DEF CreateSession, Reply, TypeOK
  <2>4. QED BY <1>1, <1>4, <2>1, <2>2, <2>3 DEF SignIn, Login, Logout
<1>5. ASSUME NEW r \in Reqs, Act(r)
      PROVE  req'[q] \in {req[q], Idle}
  BY <1>5, ActQuiet DEF Reply, TypeOK
<1>6. QED BY <1>1, <1>3, <1>4, <1>5, OperateQuiet DEF Next, vars

\* The conditions of Taken for one request, and LoginOnce with the conditions on
\* cookies.
TakenBy(r) ==
    req[r].login # None =>
        /\ logins[req[r].login].state = "gone"
        /\ \A q \in Reqs : req[q].login = req[r].login => q = r
        /\ \A c \in Cookies : sessions[c].login # req[r].login

Spent ==
    /\ \A c \in Cookies :
          sessions[c].login # None => logins[sessions[c].login].state = "gone"
    /\ LoginOnce

\* A callback takes a state that no request and no session has.
LEMMA ConsumeTakes ==
    ASSUME IInv, [Next]_vars, NEW r \in Reqs, NEW l \in Logins, ConsumeOIDCState(r, l)
    PROVE  (\A q \in Reqs : TakenBy(q)') /\ Spent'
<1> USE DEF IInv
<1>1. /\ logins[l].state = "live" /\ logins'[l].state = "gone"
      /\ req'[r].login = l
      /\ \A q \in Reqs \ {r} : req'[q] = req[q]
      /\ UNCHANGED sessions
  BY DEF ConsumeOIDCState, Valid, TypeOK, Requests
<1>2. /\ \A q \in Reqs : req[q].login # l
      /\ \A c \in Cookies : sessions[c].login # l
  BY <1>1, NoneAssumption DEF Taken
<1>3. \A m \in Logins : logins[m].state = "gone" => logins'[m].state = "gone"
  BY GoneStays
<1>4. ASSUME NEW q \in Reqs PROVE TakenBy(q)'
  <2>1. CASE q = r
    BY <1>1, <1>2, <2>1 DEF TakenBy
  <2>2. CASE q # r
    BY <1>1, <1>2, <1>3, <2>2 DEF TakenBy, Taken, TypeOK, Requests
  <2>3. QED BY <2>1, <2>2
<1>5. Spent'
  BY <1>1, <1>3 DEF Spent, LoginOnce, Taken, TypeOK
<1>6. QED BY <1>4, <1>5

\* A session inherits the state from the request that took it.
LEMMA CreateInherits ==
    ASSUME IInv, [Next]_vars, NEW r \in Reqs, NEW c \in Cookies, CreateSession(r, c)
    PROVE  (\A q \in Reqs : TakenBy(q)') /\ Spent'
<1> USE DEF IInv
<1>1. /\ req[r].login \in Logins /\ req[r].login # None
      /\ sessions'[c].login = req[r].login
      /\ \A d \in Cookies \ {c} : sessions'[d] = sessions[d]
      /\ req'[r].login = None
      /\ \A q \in Reqs \ {r} : req'[q] = req[q]
      /\ UNCHANGED logins
  BY SessionMade, NoneAssumption DEF Idle
<1>2. /\ logins[req[r].login].state = "gone"
      /\ \A q \in Reqs \ {r} : req[q].login # req[r].login
      /\ \A d \in Cookies : sessions[d].login # req[r].login
  BY <1>1 DEF Taken
<1>3. ASSUME NEW q \in Reqs PROVE TakenBy(q)'
  <2>1. CASE q = r
    BY <1>1, <2>1 DEF TakenBy
  <2>2. CASE q # r
    BY <1>1, <1>2, <2>2 DEF TakenBy, Taken
  <2>3. QED BY <2>1, <2>2
<1>4. Spent'
  BY <1>1, <1>2 DEF Spent, LoginOnce, Taken
<1>5. QED BY <1>3, <1>4

\* No step hands a login state to a second request or session.
LEMMA TakenStep == IInv /\ [Next]_vars => Taken' /\ LoginOnce'
<1> SUFFICES ASSUME IInv, [Next]_vars PROVE Taken' /\ LoginOnce'
  OBVIOUS
<1>1. (\A q \in Reqs : TakenBy(q)') /\ Spent'
  <2>1. CASE \E r \in Reqs, l \in Logins : ConsumeOIDCState(r, l)
    BY <2>1, ConsumeTakes
  <2>2. CASE \E r \in Reqs, c \in Cookies : CreateSession(r, c)
    BY <2>2, CreateInherits
  <2>3. CASE /\ ~\E r \in Reqs, l \in Logins : ConsumeOIDCState(r, l)
             /\ ~\E r \in Reqs, c \in Cookies : CreateSession(r, c)
    <3>1. \A q \in Reqs : req'[q].login \in {req[q].login, None}
      BY <2>3, LoginStep
    <3>2. \A c \in Cookies : sessions'[c].login = sessions[c].login
      BY <2>3, SessionStep DEF IInv
    <3>3. \A m \in Logins : logins[m].state = "gone" => logins'[m].state = "gone"
      BY GoneStays DEF IInv
    <3>4. /\ \A q \in Reqs : req[q].login \in Logins \cup {None}
          /\ \A c \in Cookies : sessions[c].login \in Logins \cup {None}
      BY DEF IInv, TypeOK, Requests
    <3>5. ASSUME NEW q \in Reqs PROVE TakenBy(q)'
      BY <3>1, <3>2, <3>3, <3>4 DEF TakenBy, Taken, IInv
    <3>6. Spent'
      BY <3>2, <3>3, <3>4 DEF Spent, LoginOnce, Taken, IInv
    <3>7. QED BY <3>5, <3>6
  <2>4. QED BY <2>1, <2>2, <2>3
<1>2. \A c \in Cookies :
        sessions'[c].state = "live" => sessions'[c].subject \in Subjects
  BY PersonsHold
<1>3. QED BY <1>1, <1>2 DEF Taken, TakenBy, Spent

-----------------------------------------------------------------------------
(* Who is shown what.                                                      *)

\* Publishing a version takes no artifact away from whom it was shown to.
LEMMA SeenStep == IInv /\ [Next]_vars => Readers' /\ ServiceSees'
<1> SUFFICES ASSUME IInv, [Next]_vars PROVE Readers' /\ ServiceSees'
  OBVIOUS
<1> USE DEF IInv
\* A service user that was shown something was a service user then.
<1>k. \A a \in Artifacts, s \in Subjects :
        <<a, s>> \in shown =>
          /\ users'[s] # "none"
          /\ users'[s] = "service" => users[s] = "service"
  BY Settled DEF Readers
<1>1. CASE UNCHANGED <<owner, shown>> /\ grants \subseteq grants'
  BY <1>1, <1>k DEF Readers, ServiceSees
<1>2. ASSUME NEW r \in Reqs, NEW a \in Artifacts, CommitVersion(r, a)
      PROVE  Readers' /\ ServiceSees'
  <2>1. /\ owner' = [owner EXCEPT ![a] = req[r].subject]
        /\ owner[a] \in {None, req[r].subject}
        /\ grants \subseteq grants'
        /\ UNCHANGED shown
    BY <1>2 DEF CommitVersion, Own
  <2>2. QED BY <1>k, <2>1, NoneAssumption DEF Readers, ServiceSees, TypeOK
<1>3. ASSUME NEW r \in Reqs, NEW a \in Artifacts, View(r, a)
      PROVE  Readers' /\ ServiceSees'
  <2>1. /\ req[r].subject \in Subjects
        /\ users[req[r].subject] # "none"
    BY <1>3, ActorType DEF View, Steps, Holds
  <2>2. /\ shown' = shown \cup {<<a, req[r].subject>>}
        /\ UNCHANGED <<users, owner, grants>>
        /\ users[req[r].subject] = "service" =>
             owner[a] = req[r].subject \/ <<a, req[r].subject>> \in grants
    BY <1>3, ActQuiet DEF View, Sees, accounts
  <2>3. QED BY <2>1, <2>2 DEF Readers, ServiceSees
<1>4. ASSUME NEW r \in Reqs, Act(r) PROVE Readers' /\ ServiceSees'
  BY <1>1, <1>2, <1>3, <1>4
  DEF Act, SetArtifactVisibility, AdminDelete, Abandon, content
<1>5. CASE Operate
  <2>1. grants \subseteq grants'
    BY <1>5 DEF Operate, BootBegin, BootDone, BootFail, BootMap, Redeploy, Tick,
                content
  <2>2. QED BY <1>1, <1>5, <2>1, OperateQuiet
<1>6. QED BY <1>1, <1>4, <1>5, SignInQuiet, AuthenticateQuiet DEF Next, vars

-----------------------------------------------------------------------------
(* The grants of publishers' viewers.                                      *)

\* No step of a serving or a starting replica leaves a mapped viewer behind.
LEMMA GrantedStep == IInv /\ [Next]_vars => Backfilled' /\ PublisherGranted'
<1> SUFFICES ASSUME IInv, [Next]_vars PROVE Backfilled' /\ PublisherGranted'
  OBVIOUS
<1> USE DEF IInv
<1>1. CASE UNCHANGED <<config, up, boot, owner, deleted, grants>>
  BY <1>1 DEF Backfilled, PublisherGranted
<1>2. ASSUME NEW r \in Reqs, Act(r) PROVE Backfilled' /\ PublisherGranted'
  <2>1. UNCHANGED <<config, up, boot>>
    BY <1>2, ActQuiet
  <2>2. ASSUME NEW a \in Artifacts, CommitVersion(r, a)
        PROVE  Backfilled' /\ PublisherGranted'
    <3> DEFINE v == config.viewer[req[r].subject]
    <3>1. /\ owner' = [owner EXCEPT ![a] = req[r].subject]
          /\ grants' = IF v = None THEN grants ELSE grants \cup {<<a, v>>}
          /\ UNCHANGED deleted
      BY <2>2 DEF CommitVersion
    <3>2. ASSUME NEW b \in Artifacts, NEW s \in Subjects,
                 owner'[b] = s, config.viewer[s] # None
          PROVE  \/ owner[b] = s
                 \/ <<b, config.viewer[s]>> \in grants'
      BY <3>1, <3>2 DEF TypeOK
    <3>3. grants \subseteq grants'
      BY <3>1
    <3> HIDE DEF v
    <3>4. QED BY <2>1, <3>1, <3>2, <3>3 DEF Backfilled, PublisherGranted
  <2>3. ASSUME NEW a \in Artifacts, AdminDelete(r, a)
        PROVE  Backfilled' /\ PublisherGranted'
    BY <2>1, <2>3 DEF AdminDelete, Backfilled, PublisherGranted
  <2>4. QED BY <1>1, <1>2, <2>1, <2>2, <2>3
            DEF Act, SetArtifactVisibility, View, Abandon, content
<1>3. CASE Operate
  <2>1. UNCHANGED <<owner, deleted>>
    BY <1>3, OperateQuiet
  <2>2. CASE BootBegin
    BY <2>1, <2>2 DEF BootBegin, Backfilled, PublisherGranted, content
  <2>3. CASE BootDone
    BY <2>1, <2>3 DEF BootDone, NoBoot, Backfilled, PublisherGranted
  <2>4. CASE BootFail
    BY <2>1, <2>4 DEF BootFail, NoBoot, Backfilled, PublisherGranted, content
  <2>5. ASSUME NEW s \in Subjects, BootMap(s)
        PROVE  Backfilled' /\ PublisherGranted'
    <3> DEFINE v == config.viewer[s]
               mine == {a \in Artifacts : owner[a] = s /\ a \notin deleted}
    <3>1. /\ boot.on /\ boot'.on /\ boot'.todo = boot.todo \ {s}
          /\ boot'.grants = boot.grants \cup (mine \X {v})
          /\ UNCHANGED <<config, up, grants>>
      BY <2>5 DEF BootMap, TypeOK, content
    <3>2. \A a \in mine : <<a, v>> \in boot'.grants
      BY <3>1
    <3>3. QED BY <2>1, <3>1, <3>2 DEF Backfilled, PublisherGranted
  <2>6. CASE \E c \in Configs : Redeploy(c)
    BY <2>1, <2>6 DEF Redeploy, NoBoot, Backfilled, PublisherGranted
  <2>7. CASE Tick
    BY <1>1, <2>1, <2>7 DEF Tick, process, content
  <2>8. QED BY <1>3, <2>2, <2>3, <2>4, <2>5, <2>6, <2>7 DEF Operate
<1>4. QED BY <1>1, <1>2, <1>3, SignInQuiet, AuthenticateQuiet DEF Next, vars

-----------------------------------------------------------------------------
(* The theorems.                                                           *)

\* The invariant holds of an empty database before the first deployment.
LEMMA InitIInv == Init => IInv
<1> SUFFICES ASSUME Init PROVE IInv
  OBVIOUS
<1>1. TypeOK
  BY InitTypeOK
<1>2. Steps /\ Readers /\ Backfilled
  BY DEF Init, Steps, Holds, Idle, Readers, Backfilled, NoBoot
<1>3. Taken /\ LoginOnce
  BY DEF Init, Taken, LoginOnce, Idle, NewSession
<1>4. NoInheritance /\ ServiceSees /\ PublisherGranted
  BY DEF Init, NoInheritance, ServiceSees, PublisherGranted, Idle, NewSession
<1>5. QED BY <1>1, <1>2, <1>3, <1>4 DEF IInv

\* The invariant is inductive.
LEMMA NextIInv == IInv /\ [Next]_vars => IInv'
<1> SUFFICES ASSUME IInv, [Next]_vars PROVE IInv'
  OBVIOUS
<1>1. TypeOK'
  BY NextTypeOK DEF IInv
<1>2. Steps'
  BY RequestsHold DEF Steps
<1>3. Taken' /\ LoginOnce'
  BY TakenStep
<1>4. Readers' /\ ServiceSees'
  BY SeenStep
<1>5. Backfilled' /\ PublisherGranted'
  BY GrantedStep
<1>6. NoInheritance'
  BY NoInheritanceStep
<1>7. QED BY <1>1, <1>2, <1>3, <1>4, <1>5, <1>6 DEF IInv

\* The strengthened invariant: every reachable state types and every part of it
\* that the four properties rest on (all handlers, the start-up transaction, the
\* operator and the clock).
THEOREM IdentityInvariant == Spec => []IInv
<1>1. Init => IInv
  BY InitIInv
<1>2. IInv /\ [Next]_vars => IInv'
  BY NextIInv
<1>3. QED BY <1>1, <1>2, PTL DEF Spec

\* However many callbacks present one login state, one session comes of it
\* (ConsumeOIDCState's DELETE ... RETURNING).
THEOREM LoginStartsOneSession == Spec => []LoginOnce
<1>1. IInv => LoginOnce
  BY DEF IInv
<1>2. QED BY <1>1, IdentityInvariant, PTL

\* No person acts as a service user, no service as a person, and administrators
\* are persons, under every sequence of valid configurations (UpsertUser,
\* UpsertServiceUser, UserBySession).
THEOREM NobodyInherits == Spec => []NoInheritance
<1>1. IInv => NoInheritance
  BY DEF IInv
<1>2. QED BY <1>1, IdentityInvariant, PTL

\* Every page a service user was served is of an artifact it owns or was granted
\* (ArtifactForUser's WHERE clause, and a row's kind being settled).
THEOREM ServiceUsersSeeTheirOwn == Spec => []ServiceSees
<1>1. IInv => ServiceSees
  BY DEF IInv
<1>2. QED BY <1>1, IdentityInvariant, PTL

\* While a replica serves, mapped viewers have the grants of all their publishers'
\* active artifacts (BackfillPublisherViewers against CommitVersion).
THEOREM ViewersAreGranted == Spec => []PublisherGranted
<1>1. IInv => PublisherGranted
  BY DEF IInv
<1>2. QED BY <1>1, IdentityInvariant, PTL
=============================================================================

------------------------------ MODULE Branding ------------------------------
(***************************************************************************)
(* The instance's branding: a singleton row that says which theme is       *)
(* active, the saved themes, and the copy of the row that every server     *)
(* process caches behind a mutex.                                          *)
(*                                                                         *)
(* Administrators save, activate and delete themes through any process;    *)
(* every page, and every change before it begins, reads the cached         *)
(* branding of the process that serves it.  What a theme looks like is     *)
(* left out; revisions count the commits, so that an older copy of the row *)
(* can be told from a newer one.                                           *)
(***************************************************************************)
EXTENDS Naturals, FiniteSets

CONSTANTS
    Names,     \* theme names
    Default,   \* the theme the schema installs
    MaxThemes, \* MaxBrandingThemes
    Procs,     \* server processes
    Reqs,      \* requests in flight
    TTL,       \* brandingCacheTTL in ticks
    MaxRev,    \* bound on the number of commits
    None       \* no theme, no process

ASSUME DefaultAssumption == Default \in Names
ASSUME BoundsAssumption == MaxThemes \in Nat \ {0} /\ TTL \in Nat \ {0} /\ MaxRev \in Nat
ASSUME NoneAssumption == None \notin Names /\ None \notin Procs

VARIABLES
    active,  \* instance_branding.theme_name
    rev,     \* commits of UpdateBranding so far
    saved,   \* branding_themes
    cache,   \* brandingCache and the ticks to brandingExpires, per process
    acked,   \* the newest commit a process has answered (history)
    req      \* requests in flight

db == <<active, rev, saved>>
vars == <<active, rev, saved, cache, acked, req>>

\* rev: the revision of the copy the request uses, then of its own commit;
\* since: what its process had acknowledged when a change began (history).
Idle == [pc |-> "idle", for |-> None, proc |-> None, name |-> None, rev |-> 0,
         since |-> 0]
Requests == [pc : {"idle", "branding", "query", "store", "read", "lock", "check",
                   "commit", "invalidate", "delete"},
             for : {"page", "save", "activate", "delete", None},
             proc : Procs \cup {None}, name : Names \cup {None},
             rev : 0..MaxRev, since : 0..MaxRev]

TypeOK ==
    /\ active \in Names
    /\ rev \in 0..MaxRev
    /\ saved \in SUBSET Names
    /\ cache \in [Procs -> [rev : 0..rev, left : 0..TTL]]
    /\ acked \in [Procs -> 0..rev]
    /\ req \in [Reqs -> Requests]

Init ==
    /\ active = Default
    /\ rev = 0
    /\ saved = {Default}
    /\ cache = [p \in Procs |-> [rev |-> 0, left |-> 0]]
    /\ acked = [p \in Procs |-> 0]
    /\ req = [r \in Reqs |-> Idle]

\* brandingMu, held for the whole query, and the lock on the singleton row.
MutexFree(p) == \A r \in Reqs : req[r].proc = p => req[r].pc \notin {"query", "store"}
RowFree == \A r \in Reqs : req[r].pc \notin {"check", "commit"}

Goto(r, pc) == req' = [req EXCEPT ![r].pc = pc]
Reply(r) == req' = [req EXCEPT ![r] = Idle]

\* A page or a change of an administrator.
Begin(r, for, p, n) ==
    /\ req[r].pc = "idle"
    /\ for = "page" <=> n = None
    /\ req' = [req EXCEPT ![r] = [Idle EXCEPT !.pc = "branding", !.for = for,
                    !.proc = p, !.name = n,
                    !.since = IF for = "save" THEN acked[p] ELSE 0]]
    /\ UNCHANGED <<db, cache, acked>>

-----------------------------------------------------------------------------
(* branding: a copy that has not expired is used as it is, or else the row *)
(* is queried under the mutex.                                             *)

\* What the handler does with a copy of the branding: a page shows it; a new
\* design keeps its logo and favicon unless others come with it; activating a
\* theme does without.
Use(r, copy) ==
    \/ req[r].for = "page" /\ Reply(r)
    \/ /\ req[r].for = "activate"
       /\ req' = [req EXCEPT ![r].pc = "read", ![r].rev = 0]
    \/ /\ req[r].for = "save"
       /\ req' = [req EXCEPT ![r].pc = "lock", ![r].rev = copy]

Cached(r) ==
    LET p == req[r].proc IN
    /\ req[r].pc = "branding"
    /\ MutexFree(p)
    /\ cache[p].left > 0
    /\ Use(r, cache[p].rev)
    /\ UNCHANGED <<db, cache, acked>>

\* Variant: the mutex guards the fields but not the query.
QueryUnlocked(r) ==
    /\ req[r].pc = "branding"
    /\ cache[req[r].proc].left = 0
    /\ Goto(r, "query")
    /\ UNCHANGED <<db, cache, acked>>

Query(r) ==
    /\ req[r].pc = "branding"
    /\ MutexFree(req[r].proc)
    /\ cache[req[r].proc].left = 0
    /\ Goto(r, "query")
    /\ UNCHANGED <<db, cache, acked>>

QueryRow(r) ==
    /\ req[r].pc = "query"
    /\ req' = [req EXCEPT ![r].pc = "store", ![r].rev = rev]
    /\ UNCHANGED <<db, cache, acked>>

Store(r) ==
    /\ req[r].pc = "store"
    /\ cache' = [cache EXCEPT ![req[r].proc] = [rev |-> req[r].rev, left |-> TTL]]
    /\ Use(r, req[r].rev)
    /\ UNCHANGED <<db, acked>>

-----------------------------------------------------------------------------
(* ActivateBrandingTheme reads the theme and then saves what it read.      *)

ReadTheme(r) ==
    /\ req[r].pc = "read"
    /\ IF req[r].name \in saved THEN Goto(r, "lock") ELSE Reply(r)
    /\ UNCHANGED <<db, cache, acked>>

-----------------------------------------------------------------------------
(* UpdateBranding, for a theme to save or one to activate.                 *)

\* Variant: SELECT without FOR UPDATE.
LockUnlocked(r) ==
    /\ req[r].pc = "lock"
    /\ Goto(r, "check")
    /\ UNCHANGED <<db, cache, acked>>

\* SELECT theme_name FROM instance_branding FOR UPDATE.
Lock(r) ==
    /\ req[r].pc = "lock"
    /\ RowFree
    /\ Goto(r, "check")
    /\ UNCHANGED <<db, cache, acked>>

\* Does the theme exist, or is there room?  Only the holder of the lock adds
\* themes, so asking both questions at once loses nothing.
Check(r) ==
    /\ req[r].pc = "check"
    /\ IF req[r].name \in saved \/ Cardinality(saved) < MaxThemes
         THEN Goto(r, "commit")
         ELSE Reply(r)
    /\ UNCHANGED <<db, cache, acked>>

\* Variant: COMMIT is missing, the deferred Rollback undoes everything.
CommitForgotten(r) ==
    /\ req[r].pc = "commit"
    /\ rev < MaxRev
    /\ req' = [req EXCEPT ![r].pc = "invalidate", ![r].rev = rev + 1,
                                 ![r].since = 0]
    /\ UNCHANGED <<db, cache, acked>>

\* The upsert of the theme, the UPDATE of the singleton row and COMMIT.  When its
\* reply is lost the handler fails and leaves the cache alone.
Commit(r) ==
    /\ req[r].pc = "commit"
    /\ rev < MaxRev
    /\ active' = req[r].name
    /\ rev' = rev + 1
    /\ saved' = saved \cup {req[r].name}
    /\ \/ req' = [req EXCEPT ![r].pc = "invalidate", ![r].rev = rev + 1,
                                 ![r].since = 0]
       \/ Reply(r)
    /\ UNCHANGED <<cache, acked>>

\* Variant: brandingExpires is reset without the mutex.
InvalidateUnlocked(r) ==
    LET p == req[r].proc IN
    /\ req[r].pc = "invalidate"
    /\ cache' = [cache EXCEPT ![p].left = 0]
    /\ acked' = [acked EXCEPT ![p] = IF @ < req[r].rev THEN req[r].rev ELSE @]
    /\ Reply(r)
    /\ UNCHANGED db

\* invalidateBranding, and the answer to the administrator.
Invalidate(r) ==
    LET p == req[r].proc IN
    /\ req[r].pc = "invalidate"
    /\ MutexFree(p)
    /\ cache' = [cache EXCEPT ![p].left = 0]
    /\ acked' = [acked EXCEPT ![p] = IF @ < req[r].rev THEN req[r].rev ELSE @]
    /\ Reply(r)
    /\ UNCHANGED db

-----------------------------------------------------------------------------
(* DeleteBrandingTheme: one DELETE.  Which theme is active is read from    *)
(* the statement's snapshot and not looked at again when the row of the    *)
(* theme, changed by an UpdateBranding meanwhile, has to be re-read.       *)

DeleteSelect(r, p, n) ==
    /\ req[r].pc = "idle"
    /\ n \in saved /\ n # active
    /\ req' = [req EXCEPT ![r] = [Idle EXCEPT !.pc = "delete", !.for = "delete",
                                             !.proc = p, !.name = n]]
    /\ UNCHANGED <<db, cache, acked>>

\* Other deletions of this row find it gone.
Delete(r) ==
    LET n == req[r].name IN
    /\ req[r].pc = "delete"
    /\ saved' = saved \ {n}
    /\ req' = [q \in Reqs |-> IF req[q].pc = "delete" /\ req[q].name = n
                                THEN Idle ELSE req[q]]
    /\ UNCHANGED <<active, rev, cache, acked>>

-----------------------------------------------------------------------------
(* The environment.                                                        *)

\* A failed statement or a cancelled request, before anything is committed.
Abort(r) ==
    /\ req[r].pc \notin {"idle", "invalidate"}
    /\ Reply(r)
    /\ UNCHANGED <<db, cache, acked>>

Tick ==
    /\ cache' = [p \in Procs |->
                   [cache[p] EXCEPT !.left = IF @ > 0 THEN @ - 1 ELSE 0]]
    /\ UNCHANGED <<db, acked, req>>

Next ==
    \/ \E r \in Reqs :
         \/ \E p \in Procs :
              \/ \E for \in {"page", "save", "activate"}, n \in Names \cup {None} :
                   Begin(r, for, p, n)
              \/ \E n \in Names : DeleteSelect(r, p, n)
         \/ Cached(r) \/ Query(r) \/ QueryRow(r) \/ Store(r)
         \/ ReadTheme(r)
         \/ Lock(r) \/ Check(r) \/ Commit(r) \/ Invalidate(r)
         \/ Delete(r)
         \/ Abort(r)
    \/ Tick

Spec == Init /\ [][Next]_vars

-----------------------------------------------------------------------------
(* Properties.                                                             *)

\* However many administrators save at once, there are never more than
\* MaxThemes themes ("concurrent saves cannot both observe room below the
\* saved-theme limit", UpdateBranding), a theme that is deleted while it is
\* being saved included.
ThemeLimit == Cardinality(saved) <= MaxThemes

\* An administrator whose change was answered is not shown an older branding by
\* the same process: no query that began before the commit is cached after it;
\* and a change that begins after that keeps no older branding's logo (branding,
\* invalidateBranding, adminBranding).
CacheFresh ==
    /\ \A p \in Procs : cache[p].left > 0 => cache[p].rev >= acked[p]
    /\ \A r \in Reqs :
         req[r].for = "save" /\ req[r].pc \in {"lock", "check", "commit"} =>
            req[r].rev >= req[r].since

\* The branding a process shows never goes back to an older revision, whichever
\* of its requests refreshes the cache (branding).
CacheMonotone ==
    [][\A p \in Procs : cache'[p].rev >= cache[p].rev]_vars

\* README: "The active theme cannot be deleted."
ActiveThemeSaved == active \in saved
=============================================================================

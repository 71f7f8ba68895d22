--------------------------- MODULE BrandingProofs ---------------------------
(***************************************************************************)
(* Theorems about Branding, for every set of themes, processes and         *)
(* requests, every lifetime of the cache and every limit.                  *)
(***************************************************************************)
EXTENDS Branding, FiniteSetTheorems, TLAPS

-----------------------------------------------------------------------------
(* The inductive invariant.                                                *)

\* A request that is being served runs in a process, goes through the steps of
\* what it is for, names the theme it changes and has seen no revision but those
\* committed.
RequestOk(q, committed) ==
    /\ q.pc # "idle" => q.proc \in Procs
    /\ q.pc \in {"branding", "query", "store"} => q.for \in {"page", "save", "activate"}
    /\ q.pc = "read" => q.for = "activate"
    /\ q.pc \in {"lock", "check", "commit", "invalidate"} => q.for \in {"save", "activate"}
    /\ q.pc = "delete" => q.for = "delete"
    /\ q.pc # "idle" /\ q.for \in {"save", "activate", "delete"} => q.name \in Names
    /\ q.rev <= committed

Wellformed == \A r \in Reqs : RequestOk(req[r], rev)

\* Each of the two locks has one holder: brandingMu in a process, and the
\* singleton row.
MutexHeldOnce ==
    \A q, r \in Reqs :
        /\ req[q].pc \in {"query", "store"}
        /\ req[r].pc \in {"query", "store"}
        /\ req[q].proc = req[r].proc
        => q = r

RowHeldOnce ==
    \A q, r \in Reqs :
        req[q].pc \in {"check", "commit"} /\ req[r].pc \in {"check", "commit"}
        => q = r

\* What Check found under the row lock still holds when Commit uses it.
RoomToCommit ==
    /\ IsFiniteSet(saved)
    /\ Cardinality(saved) <= MaxThemes
    /\ \A r \in Reqs : req[r].pc = "commit" =>
          Cardinality(saved \cup {req[r].name}) <= MaxThemes

\* What a request has to do with the caches.  The row a query has read is no
\* older than what its process has cached and acknowledged; a change began with
\* nothing newer than that, and goes on with nothing older.
RequestFresh(q) ==
    /\ q.pc = "store" => q.rev >= acked[q.proc] /\ q.rev >= cache[q.proc].rev
    /\ q.for = "save" /\ q.pc \in {"branding", "query", "store"} =>
          q.since <= acked[q.proc]
    /\ q.for = "save" /\ q.pc \in {"lock", "check", "commit"} => q.rev >= q.since

Fresh ==
    /\ \A r \in Reqs : RequestFresh(req[r])
    /\ \A p \in Procs : cache[p].left > 0 => cache[p].rev >= acked[p]

Locks == Wellformed /\ MutexHeldOnce /\ RowHeldOnce

IInv == TypeOK /\ Locks /\ RoomToCommit /\ Fresh
-----------------------------------------------------------------------------
(* Type correctness.                                                       *)

\* The bounds, as facts about numbers.
LEMMA Bounds == MaxThemes \in Nat /\ MaxThemes > 0 /\ TTL \in Nat /\ TTL > 0 /\ MaxRev \in Nat
BY BoundsAssumption

\* A request that is not being served is well typed.
LEMMA IdleType == Idle \in Requests
BY Bounds DEF Idle, Requests

\* So is one that goes on to its next step, with another revision perhaps.
LEMMA GotoType ==
    ASSUME NEW q \in Requests, NEW n \in 0..MaxRev, NEW m \in 0..MaxRev,
           NEW pc \in {"idle", "branding", "query", "store", "read", "lock", "check",
                       "commit", "invalidate", "delete"}
    PROVE  /\ [q EXCEPT !.pc = pc] \in Requests
           /\ [q EXCEPT !.pc = pc, !.rev = n] \in Requests
           /\ [q EXCEPT !.pc = pc, !.rev = n, !.since = m] \in Requests
BY DEF Requests

\* What the handler makes of a copy of the row leaves the requests well typed.
LEMMA UseType ==
    ASSUME TypeOK, NEW r \in Reqs, NEW copy \in 0..MaxRev, Use(r, copy)
    PROVE  req' \in [Reqs -> Requests]
<1> USE IdleType, Bounds
<1>1. req[r] \in Requests
  BY DEF TypeOK
<1>2. CASE Reply(r)
  BY <1>2 DEF Reply, TypeOK
<1>3. CASE req' = [req EXCEPT ![r].pc = "read", ![r].rev = 0]
  <2>1. 0 \in 0..MaxRev
    OBVIOUS
  <2>2. [req[r] EXCEPT !.pc = "read", !.rev = 0] \in Requests
    BY <1>1, <2>1, GotoType
  <2>3. QED BY <1>3, <2>2 DEF TypeOK
<1>4. CASE req' = [req EXCEPT ![r].pc = "lock", ![r].rev = copy]
  <2>1. [req[r] EXCEPT !.pc = "lock", !.rev = copy] \in Requests
    BY <1>1, GotoType
  <2>2. QED BY <1>4, <2>1 DEF TypeOK
<1>5. QED BY <1>2, <1>3, <1>4 DEF Use

\* A step of a request to its next statement leaves the requests well typed.
LEMMA StepType ==
    ASSUME TypeOK, NEW r \in Reqs,
           NEW pc \in {"query", "lock", "check", "commit"}, Goto(r, pc)
    PROVE  req' \in [Reqs -> Requests]
<1>1. req[r] \in Requests /\ 0 \in 0..MaxRev
  BY Bounds DEF TypeOK
<1>2. [req[r] EXCEPT !.pc = pc] \in Requests
  BY <1>1, GotoType
<1>3. QED BY <1>2 DEF Goto, TypeOK

\* A commit leaves older numbers between 0 and the revision.
LEMMA LaterRev ==
    ASSUME NEW n \in 0..MaxRev, n < MaxRev, NEW k \in 0..n
    PROVE  n + 1 \in 0..MaxRev /\ k \in 0..(n + 1)
BY Bounds

\* An empty cache and the default theme are well typed.
LEMMA InitTypeOK == Init => TypeOK
BY IdleType, Bounds, DefaultAssumption DEF Init, TypeOK

\* Each step keeps every variable in its type: a theme that becomes active is a
\* theme, and no copy is newer than the row.
LEMMA NextTypeOK == TypeOK /\ Wellformed /\ [Next]_vars => TypeOK'
<1> SUFFICES ASSUME TypeOK, Wellformed, [Next]_vars PROVE TypeOK'
  OBVIOUS
<1> USE IdleType, Bounds
<1>1. ASSUME NEW r \in Reqs, NEW p \in Procs, NEW n \in Names \cup {None},
             NEW for \in {"page", "save", "activate"}, Begin(r, for, p, n)
      PROVE  TypeOK'
  <2> DEFINE since == IF for = "save" THEN acked[p] ELSE 0
             new == [Idle EXCEPT !.pc = "branding", !.for = for, !.proc = p,
                                 !.name = n, !.since = since]
  <2>1. since \in 0..MaxRev
    BY DEF TypeOK
  <2>2. new \in Requests
    BY <2>1 DEF Requests, Idle
  <2>3. req' = [req EXCEPT ![r] = new]
    BY <1>1 DEF Begin
  <2>4. QED BY <1>1, <2>2, <2>3 DEF Begin, TypeOK, db
<1>2. ASSUME NEW r \in Reqs, NEW p \in Procs, NEW n \in Names,
             DeleteSelect(r, p, n)
      PROVE  TypeOK'
  <2> DEFINE new == [Idle EXCEPT !.pc = "delete", !.for = "delete", !.proc = p,
                                 !.name = n]
  <2>1. new \in Requests
    BY DEF Requests, Idle
  <2>2. req' = [req EXCEPT ![r] = new]
    BY <1>2 DEF DeleteSelect
  <2>3. QED BY <1>2, <2>1, <2>2 DEF DeleteSelect, TypeOK, db
<1>3. ASSUME NEW r \in Reqs, Cached(r) PROVE TypeOK'
  <2>1. cache[req[r].proc].rev \in 0..MaxRev
    <3>1. req[r].proc \in Procs
      BY <1>3 DEF Cached, Wellformed, RequestOk
    <3>2. QED BY <3>1 DEF TypeOK
  <2>2. req' \in [Reqs -> Requests]
    BY <1>3, <2>1, UseType DEF Cached
  <2>3. QED BY <1>3, <2>2 DEF Cached, TypeOK, db
<1>4. ASSUME NEW r \in Reqs, Query(r) PROVE TypeOK'
  BY <1>4, StepType DEF Query, TypeOK, db
<1>5. ASSUME NEW r \in Reqs, QueryRow(r) PROVE TypeOK'
  <2>1. [req[r] EXCEPT !.pc = "store", !.rev = rev] \in Requests
    BY GotoType DEF TypeOK
  <2>2. QED BY <1>5, <2>1 DEF QueryRow, TypeOK, db
<1>6. ASSUME NEW r \in Reqs, Store(r) PROVE TypeOK'
  <2>1. req[r].rev \in 0..rev /\ req[r].rev \in 0..MaxRev
    BY DEF TypeOK, Requests, Wellformed, RequestOk
  <2>2. req' \in [Reqs -> Requests]
    BY <1>6, <2>1, UseType DEF Store
  <2>3. cache' \in [Procs -> [rev : 0..rev, left : 0..TTL]]
    <3>1. [rev |-> req[r].rev, left |-> TTL] \in [rev : 0..rev, left : 0..TTL]
      BY <2>1
    <3>2. QED BY <1>6, <3>1 DEF Store, TypeOK
  <2>4. QED BY <1>6, <2>2, <2>3 DEF Store, TypeOK, db
<1>7. ASSUME NEW r \in Reqs, ReadTheme(r) PROVE TypeOK'
  BY <1>7, StepType DEF ReadTheme, Reply, TypeOK, db
<1>8. ASSUME NEW r \in Reqs, Lock(r) PROVE TypeOK'
  BY <1>8, StepType DEF Lock, TypeOK, db
<1>9. ASSUME NEW r \in Reqs, Check(r) PROVE TypeOK'
  BY <1>9, StepType DEF Check, Reply, TypeOK, db
<1>10. ASSUME NEW r \in Reqs, Commit(r) PROVE TypeOK'
  <2>1. req[r].name \in Names
    BY <1>10 DEF Commit, Wellformed, RequestOk
  <2>2. rev' = rev + 1 /\ rev' \in 0..MaxRev
    BY <1>10, LaterRev DEF Commit, TypeOK
  <2>3. cache' \in [Procs -> [rev : 0..rev', left : 0..TTL]]
    <3>1. ASSUME NEW p \in Procs PROVE cache[p] \in [rev : 0..rev', left : 0..TTL]
      BY <2>2 DEF TypeOK
    <3>2. QED BY <1>10, <3>1 DEF Commit, TypeOK
  <2>4. acked' \in [Procs -> 0..rev']
    <3>1. ASSUME NEW p \in Procs PROVE acked[p] \in 0..rev'
      BY <2>2 DEF TypeOK
    <3>2. QED BY <1>10, <3>1 DEF Commit, TypeOK
  <2>5. req' \in [Reqs -> Requests]
    <3>1. req[r] \in Requests /\ rev + 1 \in 0..MaxRev /\ 0 \in 0..MaxRev
      BY <2>2 DEF TypeOK
    <3>2. [req[r] EXCEPT !.pc = "invalidate", !.rev = rev + 1, !.since = 0]
            \in Requests
      BY <3>1, GotoType
    <3>3. QED BY <1>10, <3>2 DEF Commit, Reply, TypeOK
  <2>6. QED BY <1>10, <2>1, <2>2, <2>3, <2>4, <2>5 DEF Commit, TypeOK
<1>11. ASSUME NEW r \in Reqs, Invalidate(r) PROVE TypeOK'
  <2> DEFINE p == req[r].proc
  <2>1. p \in Procs /\ req[r].rev \in 0..rev
    BY <1>11 DEF Invalidate, Wellformed, RequestOk, TypeOK, Requests
  <2>2. cache' \in [Procs -> [rev : 0..rev, left : 0..TTL]]
    BY <1>11, <2>1 DEF Invalidate, TypeOK
  <2>3. acked' \in [Procs -> 0..rev]
    BY <1>11, <2>1 DEF Invalidate, TypeOK
  <2>4. QED BY <1>11, <2>2, <2>3 DEF Invalidate, Reply, TypeOK, db
<1>12. ASSUME NEW r \in Reqs, Delete(r) PROVE TypeOK'
  BY <1>12 DEF Delete, TypeOK
<1>13. ASSUME NEW r \in Reqs, Abort(r) PROVE TypeOK'
  BY <1>13 DEF Abort, Reply, TypeOK, db
<1>14. ASSUME Tick PROVE TypeOK'
  BY <1>14 DEF Tick, TypeOK, db
<1>15. CASE UNCHANGED vars
  BY <1>15 DEF vars, db, TypeOK
<1>16. QED
  BY <1>1, <1>2, <1>3, <1>4, <1>5, <1>6, <1>7, <1>8, <1>9, <1>10, <1>11, <1>12,
     <1>13, <1>14, <1>15 DEF Next
-----------------------------------------------------------------------------
(* Locks, room and freshness.                                              *)

\* A request is served where and for what it began with, and no request has
\* seen a revision that was never committed.
LEMMA NextWellformed == TypeOK /\ Wellformed /\ [Next]_vars => Wellformed'
<1> SUFFICES ASSUME TypeOK, Wellformed, [Next]_vars, NEW q \in Reqs
             PROVE  RequestOk(req'[q], rev')
  BY DEF Wellformed
<1> USE DEF RequestOk
<1>0. /\ rev \in Nat /\ req[q] \in Requests /\ RequestOk(Idle, rev)
      /\ RequestOk(req[q], rev)
  <2>1. rev \in Nat /\ req[q] \in Requests
    BY DEF TypeOK
  <2>2. RequestOk(Idle, rev)
    BY <2>1, NoneAssumption DEF Idle
  <2>3. QED BY <2>1, <2>2 DEF Wellformed
<1>1. ASSUME NEW r \in Reqs, NEW p \in Procs, NEW n \in Names \cup {None},
             NEW for \in {"page", "save", "activate"}, Begin(r, for, p, n)
      PROVE  RequestOk(req'[q], rev')
  <2> DEFINE since == IF for = "save" THEN acked[p] ELSE 0
             new == [Idle EXCEPT !.pc = "branding", !.for = for, !.proc = p,
                                 !.name = n, !.since = since]
  <2>1. RequestOk(new, rev)
    BY <1>0, <1>1 DEF Idle, Begin
  <2>2. req' = [req EXCEPT ![r] = new] /\ rev' = rev
    BY <1>1 DEF Begin, db
  <2>. HIDE DEF new
  <2>3. QED BY <1>0, <2>1, <2>2 DEF TypeOK
<1>2. ASSUME NEW r \in Reqs, NEW p \in Procs, NEW n \in Names,
             DeleteSelect(r, p, n)
      PROVE  RequestOk(req'[q], rev')
  <2> DEFINE new == [Idle EXCEPT !.pc = "delete", !.for = "delete", !.proc = p,
                                 !.name = n]
  <2>1. RequestOk(new, rev)
    BY <1>0 DEF Idle
  <2>2. req' = [req EXCEPT ![r] = new] /\ rev' = rev
    BY <1>2 DEF DeleteSelect, db
  <2>. HIDE DEF new
  <2>3. QED BY <1>0, <2>1, <2>2 DEF TypeOK
<1>3. ASSUME NEW r \in Reqs, Cached(r) PROVE RequestOk(req'[q], rev')
  <2>1. cache[req[r].proc].rev <= rev
    BY <1>3 DEF Cached, TypeOK, Wellformed
  <2>2. QED BY <1>0, <1>3, <2>1 DEF Cached, Use, Reply, TypeOK, Requests, db
<1>4. ASSUME NEW r \in Reqs, Query(r) PROVE RequestOk(req'[q], rev')
  BY <1>0, <1>4 DEF Query, Goto, TypeOK, Requests, db
<1>5. ASSUME NEW r \in Reqs, QueryRow(r) PROVE RequestOk(req'[q], rev')
  BY <1>0, <1>5 DEF QueryRow, TypeOK, Requests, db
<1>6. ASSUME NEW r \in Reqs, Store(r) PROVE RequestOk(req'[q], rev')
  <2>1. req[r].rev <= rev
    BY DEF Wellformed
  <2>2. QED BY <1>0, <1>6, <2>1 DEF Store, Use, Reply, TypeOK, Requests, db
<1>7. ASSUME NEW r \in Reqs, ReadTheme(r) PROVE RequestOk(req'[q], rev')
  BY <1>0, <1>7 DEF ReadTheme, Goto, Reply, TypeOK, Requests, db
<1>8. ASSUME NEW r \in Reqs, Lock(r) PROVE RequestOk(req'[q], rev')
  BY <1>0, <1>8 DEF Lock, Goto, TypeOK, Requests, db
<1>9. ASSUME NEW r \in Reqs, Check(r) PROVE RequestOk(req'[q], rev')
  <2>1. CASE Goto(r, "commit")
    BY <1>0, <1>9, <2>1 DEF Check, Goto, TypeOK, Requests, db
  <2>2. CASE Reply(r)
    BY <1>0, <1>9, <2>2 DEF Check, Reply, TypeOK, db
  <2>3. QED BY <1>9, <2>1, <2>2 DEF Check
<1>10. ASSUME NEW r \in Reqs, Commit(r) PROVE RequestOk(req'[q], rev')
  <2>1. rev' = rev + 1 /\ req[q].rev \in Nat /\ Idle.rev = 0
    BY <1>0, <1>10 DEF Commit, Requests, Idle
  <2>2. RequestOk(Idle, rev + 1) /\ RequestOk(req[q], rev + 1)
    BY <1>0, <2>1
  <2>3. QED BY <1>0, <1>10, <2>1, <2>2 DEF Commit, Reply, TypeOK, Requests
<1>11. ASSUME NEW r \in Reqs, Invalidate(r) PROVE RequestOk(req'[q], rev')
  BY <1>0, <1>11 DEF Invalidate, Reply, TypeOK, db
<1>12. ASSUME NEW r \in Reqs, Delete(r) PROVE RequestOk(req'[q], rev')
  BY <1>0, <1>12 DEF Delete, TypeOK
<1>13. ASSUME NEW r \in Reqs, Abort(r) PROVE RequestOk(req'[q], rev')
  BY <1>0, <1>13 DEF Abort, Reply, TypeOK, db
<1>14. ASSUME Tick PROVE RequestOk(req'[q], rev')
  BY <1>0, <1>14 DEF Tick, TypeOK, db
<1>15. CASE UNCHANGED vars
  BY <1>0, <1>15 DEF vars, db
<1>16. QED
  BY <1>1, <1>2, <1>3, <1>4, <1>5, <1>6, <1>7, <1>8, <1>9, <1>10, <1>11, <1>12,
     <1>13, <1>14, <1>15 DEF Next

\* A request that takes neither lock with its step leaves both held at most once.
LEMMA TakesNoLock ==
    ASSUME TypeOK, MutexHeldOnce, RowHeldOnce, NEW r \in Reqs,
           \A q \in Reqs \ {r} : req'[q] = req[q],
           req'[r].pc \in {"query", "store"} =>
              req[r].pc \in {"query", "store"} /\ req'[r].proc = req[r].proc,
           req'[r].pc \in {"check", "commit"} => req[r].pc \in {"check", "commit"}
    PROVE  (MutexHeldOnce /\ RowHeldOnce)'
BY DEF MutexHeldOnce, RowHeldOnce

\* Neither lock is ever held twice.  A request takes brandingMu only when it
\* is free, and the row lock likewise.
LEMMA NextHeldOnce ==
    TypeOK /\ MutexHeldOnce /\ RowHeldOnce /\ [Next]_vars => (MutexHeldOnce /\ RowHeldOnce)'
<1> SUFFICES ASSUME TypeOK, MutexHeldOnce, RowHeldOnce, [Next]_vars
             PROVE  (MutexHeldOnce /\ RowHeldOnce)'
  OBVIOUS
<1> USE DEF MutexHeldOnce, RowHeldOnce
<1>1. ASSUME NEW r \in Reqs, NEW p \in Procs, NEW n \in Names \cup {None},
             NEW for \in {"page", "save", "activate"}, Begin(r, for, p, n)
      PROVE  (MutexHeldOnce /\ RowHeldOnce)'
  BY <1>1 DEF Begin, Idle, TypeOK, Requests
<1>2. ASSUME NEW r \in Reqs, NEW p \in Procs, NEW n \in Names,
             DeleteSelect(r, p, n)
      PROVE  (MutexHeldOnce /\ RowHeldOnce)'
  BY <1>2 DEF DeleteSelect, Idle, TypeOK, Requests
<1>3. ASSUME NEW r \in Reqs, Cached(r) PROVE (MutexHeldOnce /\ RowHeldOnce)'
  <2>1. \A q \in Reqs \ {r} : req'[q] = req[q]
    BY <1>3 DEF Cached, Use, Reply, TypeOK
  <2>2. /\ req'[r].pc \in {"query", "store"} =>
              req[r].pc \in {"query", "store"} /\ req'[r].proc = req[r].proc
        /\ req'[r].pc \in {"check", "commit"} => req[r].pc \in {"check", "commit"}
    BY <1>3 DEF Cached, Use, Reply, Idle, TypeOK, Requests
  <2>3. QED BY <2>1, <2>2, TakesNoLock
<1>4. ASSUME NEW r \in Reqs, Query(r) PROVE (MutexHeldOnce /\ RowHeldOnce)'
  BY <1>4 DEF Query, MutexFree, Goto, TypeOK, Requests
<1>5. ASSUME NEW r \in Reqs, QueryRow(r) PROVE (MutexHeldOnce /\ RowHeldOnce)'
  BY <1>5 DEF QueryRow, TypeOK, Requests
<1>6. ASSUME NEW r \in Reqs, Store(r) PROVE (MutexHeldOnce /\ RowHeldOnce)'
  <2>1. \A q \in Reqs \ {r} : req'[q] = req[q]
    BY <1>6 DEF Store, Use, Reply, TypeOK
  <2>2. /\ req'[r].pc \in {"query", "store"} =>
              req[r].pc \in {"query", "store"} /\ req'[r].proc = req[r].proc
        /\ req'[r].pc \in {"check", "commit"} => req[r].pc \in {"check", "commit"}
    BY <1>6 DEF Store, Use, Reply, Idle, TypeOK, Requests
  <2>3. QED BY <2>1, <2>2, TakesNoLock
<1>7. ASSUME NEW r \in Reqs, ReadTheme(r) PROVE (MutexHeldOnce /\ RowHeldOnce)'
  <2>1. \A q \in Reqs \ {r} : req'[q] = req[q]
    BY <1>7 DEF ReadTheme, Goto, Reply, TypeOK
  <2>2. /\ req'[r].pc \in {"query", "store"} =>
              req[r].pc \in {"query", "store"} /\ req'[r].proc = req[r].proc
        /\ req'[r].pc \in {"check", "commit"} => req[r].pc \in {"check", "commit"}
    BY <1>7 DEF ReadTheme, Goto, Reply, Idle, TypeOK, Requests
  <2>3. QED BY <2>1, <2>2, TakesNoLock
<1>8. ASSUME NEW r \in Reqs, Lock(r) PROVE (MutexHeldOnce /\ RowHeldOnce)'
  BY <1>8 DEF Lock, RowFree, Goto, TypeOK, Requests
<1>9. ASSUME NEW r \in Reqs, Check(r) PROVE (MutexHeldOnce /\ RowHeldOnce)'
  <2>1. \A q \in Reqs \ {r} : req'[q] = req[q]
    BY <1>9 DEF Check, Goto, Reply, TypeOK
  <2>2. /\ req'[r].pc \in {"query", "store"} =>
              req[r].pc \in {"query", "store"} /\ req'[r].proc = req[r].proc
        /\ req'[r].pc \in {"check", "commit"} => req[r].pc \in {"check", "commit"}
    BY <1>9 DEF Check, Goto, Reply, Idle, TypeOK, Requests
  <2>3. QED BY <2>1, <2>2, TakesNoLock
<1>10. ASSUME NEW r \in Reqs, Commit(r) PROVE (MutexHeldOnce /\ RowHeldOnce)'
  <2>1. \A q \in Reqs \ {r} : req'[q] = req[q]
    BY <1>10 DEF Commit, Reply, TypeOK
  <2>2. /\ req'[r].pc \in {"query", "store"} =>
              req[r].pc \in {"query", "store"} /\ req'[r].proc = req[r].proc
        /\ req'[r].pc \in {"check", "commit"} => req[r].pc \in {"check", "commit"}
    BY <1>10 DEF Commit, Reply, Idle, TypeOK, Requests
  <2>3. QED BY <2>1, <2>2, TakesNoLock
<1>11. ASSUME NEW r \in Reqs, Invalidate(r) PROVE (MutexHeldOnce /\ RowHeldOnce)'
  BY <1>11 DEF Invalidate, Reply, Idle, TypeOK, Requests
<1>12. ASSUME NEW r \in Reqs, Delete(r) PROVE (MutexHeldOnce /\ RowHeldOnce)'
  BY <1>12 DEF Delete, Idle, TypeOK, Requests
<1>13. ASSUME NEW r \in Reqs, Abort(r) PROVE (MutexHeldOnce /\ RowHeldOnce)'
  BY <1>13 DEF Abort, Reply, Idle, TypeOK, Requests
<1>14. ASSUME Tick PROVE (MutexHeldOnce /\ RowHeldOnce)'
  BY <1>14 DEF Tick
<1>15. CASE UNCHANGED vars
  BY <1>15 DEF vars
<1>16. QED
  BY <1>1, <1>2, <1>3, <1>4, <1>5, <1>6, <1>7, <1>8, <1>9, <1>10, <1>11, <1>12,
     <1>13, <1>14, <1>15 DEF Next
-----------------------------------------------------------------------------
(* The limit on themes.                                                    *)

\* Adding one theme adds at most one to the count; a theme that is there already
\* adds none; taking one away adds none.
LEMMA CountAdd ==
    ASSUME NEW S, IsFiniteSet(S), NEW n
    PROVE  /\ IsFiniteSet(S \cup {n})
           /\ Cardinality(S) \in Nat
           /\ Cardinality(S \cup {n}) \in Nat
           /\ Cardinality(S \cup {n}) <= Cardinality(S) + 1
           /\ n \in S => Cardinality(S \cup {n}) = Cardinality(S)
<1>1. Cardinality(S) \in Nat
  BY FS_CardinalityType
<1>2. /\ IsFiniteSet(S \cup {n})
      /\ n \in S => Cardinality(S \cup {n}) = Cardinality(S)
      /\ n \notin S => Cardinality(S \cup {n}) = Cardinality(S) + 1
  BY FS_AddElement
<1>3. QED BY <1>1, <1>2

LEMMA CountSubset ==
    ASSUME NEW S, IsFiniteSet(S), NEW R \in SUBSET S
    PROVE  /\ IsFiniteSet(R)
           /\ Cardinality(R) \in Nat /\ Cardinality(S) \in Nat
           /\ Cardinality(R) <= Cardinality(S)
BY FS_Subset, FS_CardinalityType

\* Themes are left alone by requests that do not come to hold room.
LEMMA KeepsRoom ==
    ASSUME RoomToCommit, saved' = saved,
           \A q \in Reqs : req'[q].pc = "commit" =>
              req[q].pc = "commit" /\ req'[q].name = req[q].name
    PROVE  RoomToCommit'
BY DEF RoomToCommit

\* The room a saver has found under the row lock stays until it commits.
\* Only its holder adds a theme, and a deletion only makes more room.
LEMMA NextRoom ==
    TypeOK /\ RowHeldOnce /\ RoomToCommit /\ [Next]_vars => RoomToCommit'
<1> SUFFICES ASSUME TypeOK, RowHeldOnce, RoomToCommit, [Next]_vars
             PROVE  RoomToCommit'
  OBVIOUS
<1>1. ASSUME NEW r \in Reqs, NEW p \in Procs, NEW n \in Names \cup {None},
             NEW for \in {"page", "save", "activate"}, Begin(r, for, p, n)
      PROVE  RoomToCommit'
  BY <1>1, KeepsRoom DEF Begin, Idle, TypeOK, Requests, db
<1>2. ASSUME NEW r \in Reqs, NEW p \in Procs, NEW n \in Names,
             DeleteSelect(r, p, n)
      PROVE  RoomToCommit'
  BY <1>2, KeepsRoom DEF DeleteSelect, Idle, TypeOK, Requests, db
<1>3. ASSUME NEW r \in Reqs, Cached(r) PROVE RoomToCommit'
  BY <1>3, KeepsRoom DEF Cached, Use, Reply, Idle, TypeOK, Requests, db
<1>4. ASSUME NEW r \in Reqs, Query(r) PROVE RoomToCommit'
  BY <1>4, KeepsRoom DEF Query, Goto, TypeOK, Requests, db
<1>5. ASSUME NEW r \in Reqs, QueryRow(r) PROVE RoomToCommit'
  BY <1>5, KeepsRoom DEF QueryRow, TypeOK, Requests, db
<1>6. ASSUME NEW r \in Reqs, Store(r) PROVE RoomToCommit'
  <2>1. saved' = saved /\ req'[r].pc # "commit"
    BY <1>6 DEF Store, Use, Reply, Idle, TypeOK, Requests, db
  <2>2. \A q \in Reqs \ {r} : req'[q] = req[q]
    BY <1>6 DEF Store, Use, Reply, TypeOK
  <2>3. QED BY <2>1, <2>2, KeepsRoom
<1>7. ASSUME NEW r \in Reqs, ReadTheme(r) PROVE RoomToCommit'
  BY <1>7, KeepsRoom DEF ReadTheme, Goto, Reply, Idle, TypeOK, Requests, db
<1>8. ASSUME NEW r \in Reqs, Lock(r) PROVE RoomToCommit'
  BY <1>8, KeepsRoom DEF Lock, Goto, TypeOK, Requests, db
<1>9. ASSUME NEW r \in Reqs, Check(r) PROVE RoomToCommit'
  <2>1. CASE Reply(r)
    BY <1>9, <2>1, KeepsRoom DEF Check, Reply, Idle, TypeOK, db
  <2>2. CASE /\ req[r].name \in saved \/ Cardinality(saved) < MaxThemes
             /\ Goto(r, "commit")
    <3>1. IsFiniteSet(saved) /\ Cardinality(saved) <= MaxThemes /\ MaxThemes \in Nat
      BY Bounds DEF RoomToCommit
    <3>2. Cardinality(saved \cup {req[r].name}) <= MaxThemes
      <4> DEFINE n == req[r].name
      <4>1. /\ Cardinality(saved) \in Nat
            /\ Cardinality(saved \cup {n}) \in Nat
            /\ Cardinality(saved \cup {n}) <= Cardinality(saved) + 1
            /\ n \in saved => Cardinality(saved \cup {n}) = Cardinality(saved)
        BY <3>1, CountAdd
      <4>2. QED BY <2>2, <3>1, <4>1
    <3>3. saved' = saved
      BY <1>9 DEF Check, db
    <3>4. ASSUME NEW q \in Reqs, req'[q].pc = "commit"
          PROVE  req'[q].name = req[q].name /\ (q # r => req[q].pc = "commit")
      BY <2>2, <3>4 DEF Goto, TypeOK, Requests
    <3>5. QED BY <3>1, <3>2, <3>3, <3>4 DEF RoomToCommit
  <2>3. QED BY <1>9, <2>1, <2>2 DEF Check
<1>10. ASSUME NEW r \in Reqs, Commit(r) PROVE RoomToCommit'
  <2>1. saved' = saved \cup {req[r].name}
    BY <1>10 DEF Commit
  <2>2. IsFiniteSet(saved') /\ Cardinality(saved') <= MaxThemes
    BY <1>10, <2>1, CountAdd DEF RoomToCommit, Commit
  <2>3. \A q \in Reqs : req'[q].pc # "commit"
    BY <1>10 DEF Commit, Reply, Idle, RowHeldOnce, TypeOK, Requests
  <2>4. QED BY <2>2, <2>3 DEF RoomToCommit
<1>11. ASSUME NEW r \in Reqs, Invalidate(r) PROVE RoomToCommit'
  BY <1>11, KeepsRoom DEF Invalidate, Reply, Idle, TypeOK, Requests, db
<1>12. ASSUME NEW r \in Reqs, Delete(r) PROVE RoomToCommit'
  <2> DEFINE n == req[r].name
  <2>1. saved' = saved \ {n}
    BY <1>12 DEF Delete
  <2>2. /\ IsFiniteSet(saved) /\ Cardinality(saved) <= MaxThemes
        /\ MaxThemes \in Nat
    BY Bounds DEF RoomToCommit
  <2>3. saved' \in SUBSET saved
    BY <2>1
  <2>4. IsFiniteSet(saved') /\ Cardinality(saved') <= MaxThemes
    BY <2>2, <2>3, CountSubset
  <2>5. ASSUME NEW q \in Reqs, req'[q].pc = "commit"
        PROVE  Cardinality(saved' \cup {req'[q].name}) <= MaxThemes
    <3>1. req[q].pc = "commit" /\ req'[q].name = req[q].name
      BY <1>12, <2>5 DEF Delete, Idle
    <3>2. Cardinality(saved \cup {req[q].name}) <= MaxThemes
      BY <3>1 DEF RoomToCommit
    <3>3. saved' \cup {req[q].name} \in SUBSET (saved \cup {req[q].name})
      BY <2>3
    <3>4. IsFiniteSet(saved \cup {req[q].name})
      BY <2>2, CountAdd
    <3>5. /\ Cardinality(saved' \cup {req[q].name}) \in Nat
          /\ Cardinality(saved \cup {req[q].name}) \in Nat
          /\ Cardinality(saved' \cup {req[q].name})
                <= Cardinality(saved \cup {req[q].name})
      BY <3>3, <3>4, CountSubset
    <3>6. QED BY <2>2, <3>1, <3>2, <3>5
  <2>6. QED BY <2>4, <2>5 DEF RoomToCommit
<1>13. ASSUME NEW r \in Reqs, Abort(r) PROVE RoomToCommit'
  BY <1>13, KeepsRoom DEF Abort, Reply, Idle, TypeOK, Requests, db
<1>14. ASSUME Tick PROVE RoomToCommit'
  BY <1>14, KeepsRoom DEF Tick, db
<1>15. CASE UNCHANGED vars
  BY <1>15, KeepsRoom DEF vars, db
<1>16. QED
  BY <1>1, <1>2, <1>3, <1>4, <1>5, <1>6, <1>7, <1>8, <1>9, <1>10, <1>11, <1>12,
     <1>13, <1>14, <1>15 DEF Next
-----------------------------------------------------------------------------
(* Freshness of the cached branding.                                       *)

\* Numbers that the freshness of a request compares.
LEMMA FreshTypes ==
    ASSUME TypeOK, Wellformed
    PROVE  /\ rev \in Nat /\ rev <= MaxRev
           /\ \A p \in Procs : /\ acked[p] \in Nat /\ acked[p] <= rev
                              /\ cache[p].rev \in Nat /\ cache[p].rev <= rev
                              /\ cache[p].left \in Nat
           /\ \A r \in Reqs : /\ req[r].rev \in Nat /\ req[r].since \in Nat
                              /\ req[r].rev <= rev
                              /\ req[r].pc # "idle" => req[r].proc \in Procs
BY Bounds DEF TypeOK, Requests, Wellformed, RequestOk

\* A request that is being served runs in a process, whose numbers these are.
LEMMA Serving ==
    ASSUME TypeOK, Wellformed, NEW r \in Reqs, req[r].pc # "idle"
    PROVE  /\ req[r].proc \in Procs
           /\ req[r].rev \in Nat /\ req[r].since \in Nat
           /\ acked[req[r].proc] \in Nat
           /\ cache[req[r].proc].rev \in Nat
<1>1. req[r].proc \in Procs
  BY DEF Wellformed, RequestOk
<1>2. req[r].rev \in Nat /\ req[r].since \in Nat
  BY FreshTypes
<1>3. \A p \in Procs : acked[p] \in Nat /\ cache[p].rev \in Nat
  BY FreshTypes
<1>4. QED BY <1>1, <1>2, <1>3

\* A step that changes one request only, and no cache, keeps everything fresh
\* when that request stays fresh.
LEMMA OneRequest ==
    ASSUME Fresh, NEW r \in Reqs, cache' = cache, acked' = acked,
           \A q \in Reqs \ {r} : req'[q] = req[q],
           RequestFresh(req[r])'
    PROVE  Fresh'
BY DEF Fresh, RequestFresh

\* A request that is answered has nothing to do with the caches any more.
LEMMA IdleFresh ==
    ASSUME NEW r \in Reqs, TypeOK, Reply(r)
    PROVE  RequestFresh(req[r])' /\ \A q \in Reqs \ {r} : req'[q] = req[q]
BY DEF Reply, RequestFresh, Idle, TypeOK

\* A copy that is no older than what the request began with may be used.
LEMMA UseFresh ==
    ASSUME NEW r \in Reqs, NEW copy \in Nat, TypeOK, Use(r, copy),
           req[r].for = "save" => copy >= req[r].since
    PROVE  RequestFresh(req[r])' /\ \A q \in Reqs \ {r} : req'[q] = req[q]
<1>1. CASE Reply(r)
  BY <1>1, IdleFresh
<1>2. CASE /\ req[r].for = "activate"
           /\ req' = [req EXCEPT ![r].pc = "read", ![r].rev = 0]
  BY <1>2 DEF RequestFresh, TypeOK, Requests
<1>3. CASE /\ req[r].for = "save"
           /\ req' = [req EXCEPT ![r].pc = "lock", ![r].rev = copy]
  BY <1>3 DEF RequestFresh, TypeOK, Requests
<1>4. QED BY <1>1, <1>2, <1>3 DEF Use

\* No step leaves an older copy in the cache of a process than that process has
\* acknowledged.  Whoever fills the cache holds brandingMu from before the query
\* to the end, so no acknowledgement and no other fill comes in between.
LEMMA NextFresh ==
    TypeOK /\ Wellformed /\ MutexHeldOnce /\ Fresh /\ [Next]_vars => Fresh'
<1> SUFFICES ASSUME TypeOK, Wellformed, MutexHeldOnce, Fresh, [Next]_vars
             PROVE  Fresh'
  OBVIOUS
<1>. USE FreshTypes
<1>1. ASSUME NEW r \in Reqs, NEW p \in Procs, NEW n \in Names \cup {None},
             NEW for \in {"page", "save", "activate"}, Begin(r, for, p, n)
      PROVE  Fresh'
  <2> DEFINE since == IF for = "save" THEN acked[p] ELSE 0
             new == [Idle EXCEPT !.pc = "branding", !.for = for, !.proc = p,
                                 !.name = n, !.since = since]
  <2>1. req' = [req EXCEPT ![r] = new] /\ cache' = cache /\ acked' = acked
    BY <1>1 DEF Begin
  <2>2. req'[r] = new /\ \A q \in Reqs \ {r} : req'[q] = req[q]
    BY <2>1 DEF TypeOK
  <2>3. new.pc = "branding" /\ new.for = for /\ new.proc = p /\ new.since = since
    BY DEF Idle
  <2>4. for = "save" => since <= acked[p]
    OBVIOUS
  <2>. HIDE DEF new, since
  <2>5. RequestFresh(req[r])'
    BY <2>1, <2>2, <2>3, <2>4 DEF RequestFresh
  <2>6. QED BY <2>1, <2>2, <2>5, OneRequest
<1>2. ASSUME NEW r \in Reqs, NEW p \in Procs, NEW n \in Names,
             DeleteSelect(r, p, n)
      PROVE  Fresh'
  <2>1. RequestFresh(req[r])' /\ \A q \in Reqs \ {r} : req'[q] = req[q]
    BY <1>2 DEF DeleteSelect, RequestFresh, Idle, TypeOK
  <2>2. QED BY <1>2, <2>1, OneRequest DEF DeleteSelect
<1>3. ASSUME NEW r \in Reqs, Cached(r) PROVE Fresh'
  <2> DEFINE p == req[r].proc
  <2>1. p \in Procs /\ cache[p].rev \in Nat /\ acked[p] \in Nat
        /\ req[r].since \in Nat
    BY <1>3, Serving DEF Cached
  <2>2. cache[p].rev >= acked[p]
    BY <1>3, <2>1 DEF Cached, Fresh
  <2>3. req[r].for = "save" => req[r].since <= acked[p]
    BY <1>3 DEF Cached, Fresh, RequestFresh
  <2>4. req[r].for = "save" => cache[p].rev >= req[r].since
    BY <2>1, <2>2, <2>3
  <2>5. RequestFresh(req[r])' /\ \A q \in Reqs \ {r} : req'[q] = req[q]
    BY <1>3, <2>1, <2>4, UseFresh DEF Cached
  <2>6. QED BY <1>3, <2>5, OneRequest DEF Cached
<1>4. ASSUME NEW r \in Reqs, Query(r) PROVE Fresh'
  <2>1. RequestFresh(req[r])' /\ \A q \in Reqs \ {r} : req'[q] = req[q]
    BY <1>4 DEF Query, Goto, Fresh, RequestFresh, TypeOK, Requests
  <2>2. QED BY <1>4, <2>1, OneRequest DEF Query
<1>5. ASSUME NEW r \in Reqs, QueryRow(r) PROVE Fresh'
  <2>1. RequestFresh(req[r])' /\ \A q \in Reqs \ {r} : req'[q] = req[q]
    BY <1>5 DEF QueryRow, Fresh, RequestFresh, TypeOK, Requests
  <2>2. QED BY <1>5, <2>1, OneRequest DEF QueryRow
<1>6. ASSUME NEW r \in Reqs, Store(r) PROVE Fresh'
  <2> DEFINE p == req[r].proc
  <2>1. /\ p \in Procs /\ req[r].rev \in Nat /\ acked[p] \in Nat
        /\ req[r].since \in Nat
    BY <1>6, Serving DEF Store
  <2>2. req[r].rev >= acked[p]
    BY <1>6 DEF Store, Fresh, RequestFresh
  <2>3. req[r].for = "save" => req[r].since <= acked[p]
    BY <1>6 DEF Store, Fresh, RequestFresh
  <2>4. req[r].for = "save" => req[r].rev >= req[r].since
    BY <2>1, <2>2, <2>3
  <2>5. Use(r, req[r].rev) /\ acked' = acked /\ req[r].pc = "store"
    BY <1>6 DEF Store
  <2>6. /\ \A q \in Reqs \ {r} : req'[q] = req[q]
        /\ RequestFresh(req[r])'
    BY <2>1, <2>4, <2>5, UseFresh
  <2>7. /\ cache'[p].rev = req[r].rev
        /\ \A o \in Procs \ {p} : cache'[o] = cache[o]
    BY <1>6, <2>1 DEF Store, TypeOK
  <2>8. ASSUME NEW q \in Reqs \ {r} PROVE RequestFresh(req[q])'
    <3>1. req[q].pc = "store" => req[q].proc # p /\ req[q].proc \in Procs
      BY <2>5, Serving DEF MutexHeldOnce
    <3>2. RequestFresh(req[q])
      BY DEF Fresh
    <3>3. QED BY <2>5, <2>6, <2>7, <3>1, <3>2 DEF RequestFresh
  <2>9. \A o \in Procs : cache'[o].left > 0 => cache'[o].rev >= acked[o]
    BY <2>2, <2>7 DEF Fresh
  <2>10. QED BY <2>5, <2>6, <2>8, <2>9 DEF Fresh
<1>7. ASSUME NEW r \in Reqs, ReadTheme(r) PROVE Fresh'
  <2>1. CASE Reply(r)
    BY <1>7, <2>1, IdleFresh, OneRequest DEF ReadTheme
  <2>2. CASE Goto(r, "lock")
    <3>1. req[r].for = "activate"
      BY <1>7 DEF ReadTheme, Wellformed, RequestOk
    <3>2. RequestFresh(req[r])' /\ \A q \in Reqs \ {r} : req'[q] = req[q]
      BY <2>2, <3>1 DEF Goto, RequestFresh, TypeOK, Requests
    <3>3. QED BY <1>7, <3>2, OneRequest DEF ReadTheme
  <2>3. QED BY <1>7, <2>1, <2>2 DEF ReadTheme
<1>8. ASSUME NEW r \in Reqs, Lock(r) PROVE Fresh'
  <2>1. RequestFresh(req[r])' /\ \A q \in Reqs \ {r} : req'[q] = req[q]
    BY <1>8 DEF Lock, Goto, Fresh, RequestFresh, TypeOK, Requests
  <2>2. QED BY <1>8, <2>1, OneRequest DEF Lock
<1>9. ASSUME NEW r \in Reqs, Check(r) PROVE Fresh'
  <2>1. CASE Reply(r)
    BY <1>9, <2>1, IdleFresh, OneRequest DEF Check
  <2>2. CASE Goto(r, "commit")
    <3>1. RequestFresh(req[r])' /\ \A q \in Reqs \ {r} : req'[q] = req[q]
      BY <1>9, <2>2 DEF Check, Goto, Fresh, RequestFresh, TypeOK, Requests
    <3>2. QED BY <1>9, <3>1, OneRequest DEF Check
  <2>3. QED BY <1>9, <2>1, <2>2 DEF Check
<1>10. ASSUME NEW r \in Reqs, Commit(r) PROVE Fresh'
  <2>1. CASE Reply(r)
    BY <1>10, <2>1, IdleFresh, OneRequest DEF Commit
  <2>2. CASE req' = [req EXCEPT ![r].pc = "invalidate", ![r].rev = rev + 1,
                                ![r].since = 0]
    <3>1. RequestFresh(req[r])' /\ \A q \in Reqs \ {r} : req'[q] = req[q]
      BY <2>2 DEF RequestFresh, TypeOK, Requests
    <3>2. QED BY <1>10, <3>1, OneRequest DEF Commit
  <2>3. QED BY <1>10, <2>1, <2>2 DEF Commit
<1>11. ASSUME NEW r \in Reqs, Invalidate(r) PROVE Fresh'
  <2> DEFINE p == req[r].proc
  <2>1. p \in Procs /\ req[r].rev \in Nat /\ acked[p] \in Nat /\ MutexFree(p)
    BY <1>11, Serving DEF Invalidate
  <2>2. RequestFresh(req[r])' /\ \A q \in Reqs \ {r} : req'[q] = req[q]
    BY <1>11, IdleFresh DEF Invalidate
  <2>3. /\ cache'[p].left = 0 /\ cache'[p].rev = cache[p].rev
        /\ acked'[p] \in Nat /\ acked'[p] >= acked[p]
        /\ \A o \in Procs \ {p} : cache'[o] = cache[o] /\ acked'[o] = acked[o]
    BY <1>11, <2>1 DEF Invalidate, TypeOK
  <2>4. ASSUME NEW q \in Reqs \ {r} PROVE RequestFresh(req[q])'
    <3>1. req[q].proc = p => req[q].pc # "store"
      BY <2>1 DEF MutexFree
    <3>0. req[q].pc # "idle" => req[q].proc \in Procs /\ req[q].since \in Nat
      BY Serving
    <3>2. RequestFresh(req[q])
      BY DEF Fresh
    <3>3. CASE req[q].proc = p
      BY <2>1, <2>2, <2>3, <3>0, <3>1, <3>2, <3>3 DEF RequestFresh
    <3>4. CASE req[q].proc # p
      BY <2>2, <2>3, <3>0, <3>1, <3>2, <3>4 DEF RequestFresh
    <3>5. QED BY <3>3, <3>4
  <2>5. \A o \in Procs : cache'[o].left > 0 => cache'[o].rev >= acked'[o]
    BY <2>3 DEF Fresh
  <2>6. QED BY <2>2, <2>4, <2>5 DEF Fresh
<1>12. ASSUME NEW r \in Reqs, Delete(r) PROVE Fresh'
  BY <1>12 DEF Delete, Fresh, RequestFresh, Idle
<1>13. ASSUME NEW r \in Reqs, Abort(r) PROVE Fresh'
  BY <1>13, IdleFresh, OneRequest DEF Abort
<1>14. ASSUME Tick PROVE Fresh'
  <2>1. req' = req /\ acked' = acked
    BY <1>14 DEF Tick
  <2>2. \A p \in Procs : /\ cache'[p].rev = cache[p].rev
                         /\ cache'[p].left > 0 => cache[p].left > 0
    BY <1>14 DEF Tick, TypeOK
  <2>3. ASSUME NEW p \in Procs, cache'[p].left > 0
        PROVE  cache'[p].rev >= acked'[p]
    <3>1. cache[p].left > 0 => cache[p].rev >= acked[p]
      BY DEF Fresh
    <3>2. QED BY <2>1, <2>2, <2>3, <3>1
  <2>4. ASSUME NEW q \in Reqs PROVE RequestFresh(req[q])'
    <3>1. RequestFresh(req[q]) /\ (req[q].pc # "idle" => req[q].proc \in Procs)
      BY Serving DEF Fresh
    <3>2. req[q].pc = "store" => req[q].rev >= cache'[req[q].proc].rev
      BY <2>2, <3>1 DEF RequestFresh
    <3>3. QED BY <2>1, <3>1, <3>2 DEF RequestFresh
  <2>5. QED BY <2>1, <2>3, <2>4 DEF Fresh
<1>15. CASE UNCHANGED vars
  BY <1>15 DEF vars, Fresh, RequestFresh
<1>16. QED
  BY <1>1, <1>2, <1>3, <1>4, <1>5, <1>6, <1>7, <1>8, <1>9, <1>10, <1>11, <1>12,
     <1>13, <1>14, <1>15 DEF Next
-----------------------------------------------------------------------------
(* The theorems.                                                           *)

\* The inductive invariant holds at first, with nothing cached or in flight, and
\* every step keeps it.
LEMMA InitIInv == Init => IInv
<1> SUFFICES ASSUME Init PROVE IInv
  OBVIOUS
<1>1. TypeOK
  BY InitTypeOK
<1>2. Wellformed
  BY NoneAssumption DEF Init, Wellformed, RequestOk, Idle
<1>3. MutexHeldOnce /\ RowHeldOnce
  BY DEF Init, MutexHeldOnce, RowHeldOnce, Idle
<1>4. RoomToCommit
  <2>1. IsFiniteSet(saved) /\ Cardinality(saved) = 1
    BY FS_Singleton DEF Init
  <2>2. QED BY <2>1, Bounds DEF Init, RoomToCommit, Idle
<1>5. Fresh
  BY DEF Init, Fresh, RequestFresh, Idle
<1>6. QED BY <1>1, <1>2, <1>3, <1>4, <1>5 DEF IInv, Locks

LEMMA NextIInv == IInv /\ [Next]_vars => IInv'
BY NextTypeOK, NextWellformed, NextHeldOnce, NextRoom, NextFresh DEF IInv, Locks

LEMMA Invariance == Spec => []IInv
BY InitIInv, NextIInv, PTL DEF Spec

\* The types of the row, the caches and the requests hold in every reachable
\* state.
THEOREM TypeCorrect == Spec => []TypeOK
<1>1. IInv => TypeOK
  BY DEF IInv
<1>2. QED BY <1>1, Invariance, PTL

\* However many administrators save and delete at once, in however many
\* processes, there are never more than MaxThemes themes (UpdateBranding).
THEOREM ThemesLimited == Spec => []ThemeLimit
<1>1. IInv => ThemeLimit
  BY DEF IInv, RoomToCommit, ThemeLimit
<1>2. QED BY <1>1, Invariance, PTL

\* No process shows or keeps an older branding than it has acknowledged, for every
\* lifetime of the cache (branding, invalidateBranding, adminBranding).
THEOREM CachesFresh == Spec => []CacheFresh
<1>1. IInv => CacheFresh
  BY DEF IInv, Fresh, RequestFresh, CacheFresh
<1>2. QED BY <1>1, Invariance, PTL

\* A cache is never refilled with an older copy of the row (branding).
LEMMA StepMonotone ==
    IInv /\ [Next]_vars => [\A p \in Procs : cache'[p].rev >= cache[p].rev]_vars
<1> SUFFICES ASSUME IInv, Next, NEW p \in Procs
             PROVE  cache'[p].rev >= cache[p].rev
  OBVIOUS
<1>1. TypeOK /\ Wellformed /\ Fresh /\ cache[p].rev \in Nat
  BY FreshTypes DEF IInv, Locks
<1>2. CASE cache' = cache
  BY <1>1, <1>2
<1>3. ASSUME NEW r \in Reqs, Store(r) PROVE cache'[p].rev >= cache[p].rev
  <2>1. req[r].proc \in Procs /\ req[r].rev >= cache[req[r].proc].rev
    BY <1>1, <1>3, Serving DEF Store, Fresh, RequestFresh
  <2>2. QED BY <1>1, <1>3, <2>1 DEF Store, TypeOK
<1>4. ASSUME NEW r \in Reqs, Invalidate(r) PROVE cache'[p].rev >= cache[p].rev
  BY <1>1, <1>4 DEF Invalidate, TypeOK
<1>5. ASSUME Tick PROVE cache'[p].rev >= cache[p].rev
  BY <1>1, <1>5 DEF Tick, TypeOK
<1>6. QED
  BY <1>2, <1>3, <1>4, <1>5 DEF Next, Begin, DeleteSelect, Cached, Query, QueryRow,
     ReadTheme, Lock, Check, Commit, Delete, Abort

\* The branding a process shows never goes back to an older revision (branding).
THEOREM CachesMonotone == Spec => CacheMonotone
<1>1. Spec => [][\A p \in Procs : cache'[p].rev >= cache[p].rev]_vars
  BY Invariance, StepMonotone, PTL DEF Spec
<1>2. QED BY <1>1 DEF CacheMonotone
=============================================================================

-------------------------- MODULE ConnectionCacheProofs --------------------------
(***************************************************************************)
(* Proofs about ConnectionCache, for every number of queries, updates and  *)
(* versions: types, that the cache is stale only by a load that met an     *)
(* update, that every query is given to a runtime that is open, and that   *)
(* the map of a thread has just its live MSSQL pools.                      *)
(***************************************************************************)
EXTENDS ConnectionCache, QueueLemmas

(* The variables the two properties depend on.                             *)
Types ==
  /\ row \in [status : {"active", "inactive", "absent"}, version : Versions]
  /\ cache \in Versions \cup {None}
  /\ raced \in BOOLEAN
  /\ runtime \in Runtimes \cup {NoPool}
  /\ closed \in BOOLEAN
  /\ update \in [Updates -> {"new", "done"} \cup Change]
  /\ pc \in [Queries -> {"new", "load", "read", "pool", "done"}]
  /\ overlap \in [Queries -> BOOLEAN]
  /\ snapshot \in [Queries -> Versions \cup {None}]
  /\ on \in [Queries -> Runtimes \cup {NoPool}]

Is(v) == row.status = "active" /\ row.version = v
Loading(q) == pc[q] \in {"load", "read"}

(* An entry whose load met no update is the row, and only a create, which  *)
(* an existing row refuses, can be under way.                              *)
CacheIsRow ==
  cache # None /\ raced = FALSE =>
    Is(cache) /\ \A u \in Updates : UnderWay(u) => update[u] = "create"

(* While a load has met no update, none is under way, and what it has read *)
(* is the row.                                                             *)
LoadIsRow ==
  \A q \in Queries : Loading(q) /\ overlap[q] = FALSE =>
    /\ \A u \in Updates : ~UnderWay(u)
    /\ pc[q] = "read" /\ snapshot[q] # None => Is(snapshot[q])

IInv == Types /\ CacheIsRow /\ LoadIsRow

LEMMA NoneIsNoVersion == None \notin Versions
BY NoneAssumption, MaxVersionAssumption DEF Versions

LEMMA IInvImplies == IInv => StaleOnlyByRace
<1> SUFFICES ASSUME IInv, Stale PROVE raced
  BY DEF StaleOnlyByRace
<1>1. cache # None /\ ~Is(cache)
  BY DEF Stale, Is
<1>2. raced \in BOOLEAN /\ raced # FALSE
  <2>1. raced \in BOOLEAN
    BY DEF IInv, Types
  <2>2. raced # FALSE
    BY <1>1 DEF IInv, CacheIsRow
  <2>3. QED
    BY <2>1, <2>2
<1>3. QED
  BY <1>2

LEMMA InitHolds == Init => IInv
<1> SUFFICES ASSUME Init PROVE IInv
  OBVIOUS
<1>1. Types
  <2>1. 1 \in Versions /\ 1 \in Runtimes /\ NoPool \in Runtimes \cup {NoPool}
    BY MaxVersionAssumption DEF Versions, Runtimes
  <2>2. row \in [status : {"active", "inactive", "absent"}, version : Versions]
    BY <2>1 DEF Init
  <2>3. QED
    BY <2>1, <2>2 DEF Init, Types
<1>2. CacheIsRow /\ LoadIsRow
  BY DEF Init, CacheIsRow, LoadIsRow, Loading
<1>3. QED
  BY <1>1, <1>2 DEF IInv

(* A step that changes neither row nor cache, starts no update and loads   *)
(* nothing.                                                                *)
LEMMA Elsewhere ==
  ASSUME IInv, Types', UNCHANGED <<dbvars, cachevars, overlap, snapshot>>,
         \A q \in Queries : Loading(q)' => pc'[q] = pc[q]
  PROVE  IInv'
<1>1. CacheIsRow'
  BY DEF IInv, CacheIsRow, Is, UnderWay, dbvars, cachevars
<1>2. ASSUME NEW q \in Queries, Loading(q)', overlap'[q] = FALSE
      PROVE  /\ \A u \in Updates : ~UnderWay(u)'
             /\ pc'[q] = "read" /\ snapshot'[q] # None => Is(snapshot[q])'
  <2>1. Loading(q) /\ overlap[q] = FALSE
    BY <1>2 DEF Loading
  <2>2. QED
    BY <1>2, <2>1 DEF IInv, LoadIsRow, Is, UnderWay, dbvars
<1>3. QED
  BY <1>1, <1>2 DEF IInv, LoadIsRow

(* The cache is emptied.                                                   *)
LEMMA Emptied ==
  ASSUME IInv, Types', UNCHANGED <<row, update, overlap, snapshot>>, cache' = None,
         \A q \in Queries : Loading(q)' => pc'[q] = pc[q]
  PROVE  IInv'
<1>1. CacheIsRow'
  BY DEF CacheIsRow
<1>2. ASSUME NEW q \in Queries, Loading(q)', overlap'[q] = FALSE
      PROVE  /\ \A u \in Updates : ~UnderWay(u)'
             /\ pc'[q] = "read" /\ snapshot'[q] # None => Is(snapshot[q])'
  <2>1. Loading(q) /\ overlap[q] = FALSE
    BY <1>2 DEF Loading
  <2>2. QED
    BY <1>2, <2>1 DEF IInv, LoadIsRow, Is, UnderWay
<1>3. QED
  BY <1>1, <1>2 DEF IInv, LoadIsRow

LEMMA QueryStepHolds ==
  ASSUME IInv, NEW q \in Queries, QueryStep(q)
  PROVE  IInv'
<1>0. Types /\ None \notin Versions
  BY NoneIsNoVersion DEF IInv
<1>1. CASE Hit(q)
  <2>1. Types'
    BY <1>0, <1>1 DEF Hit, Types, Submit, GetDbWorkerPool, dbvars, cachevars, Runtimes, NoPool
  <2>2. /\ UNCHANGED <<dbvars, cachevars, overlap>> /\ pc[q] = "new"
        /\ pc' = [pc EXCEPT ![q] = "pool"] /\ snapshot' = [snapshot EXCEPT ![q] = cache]
    BY <1>1 DEF Hit, Submit
  <2>3. CacheIsRow'
    BY <2>2 DEF IInv, CacheIsRow, Is, UnderWay, dbvars, cachevars
  <2>4. ASSUME NEW p \in Queries, Loading(p)', overlap'[p] = FALSE
        PROVE  /\ \A u \in Updates : ~UnderWay(u)'
               /\ pc'[p] = "read" /\ snapshot'[p] # None => Is(snapshot[p])'
    <3>1. p # q /\ Loading(p) /\ overlap[p] = FALSE /\ snapshot'[p] = snapshot[p] /\ pc'[p] = pc[p]
      BY <1>0, <2>2, <2>4 DEF Loading, Types
    <3>2. QED
      BY <2>2, <3>1 DEF IInv, LoadIsRow, Is, UnderWay, dbvars
  <2>5. QED
    BY <2>1, <2>3, <2>4 DEF IInv, LoadIsRow
<1>2. CASE Miss(q)
  <2>1. Types'
    BY <1>0, <1>2 DEF Miss, Types, dbvars, cachevars
  <2>2. /\ UNCHANGED <<dbvars, cachevars, snapshot>> /\ pc[q] = "new"
        /\ pc' = [pc EXCEPT ![q] = "load"]
        /\ overlap' = [overlap EXCEPT ![q] = \E u \in Updates : UnderWay(u)]
    BY <1>2 DEF Miss
  <2>3. CacheIsRow'
    BY <2>2 DEF IInv, CacheIsRow, Is, UnderWay, dbvars, cachevars
  <2>4. ASSUME NEW p \in Queries, Loading(p)', overlap'[p] = FALSE
        PROVE  /\ \A u \in Updates : ~UnderWay(u)'
               /\ pc'[p] = "read" /\ snapshot'[p] # None => Is(snapshot[p])'
    <3>1. CASE p = q
      <4>1. pc'[p] = "load" /\ (overlap'[p] <=> \E u \in Updates : UnderWay(u))
        BY <1>0, <2>2, <3>1, Zenon DEF Types
      <4>2. \A u \in Updates : ~UnderWay(u)
        BY <2>4, <4>1
      <4>3. QED
        BY <2>2, <4>1, <4>2 DEF UnderWay, dbvars
    <3>2. CASE p # q
      <4>1. Loading(p) /\ overlap[p] = FALSE /\ pc'[p] = pc[p]
        BY <1>0, <2>2, <2>4, <3>2 DEF Loading, Types
      <4>2. QED
        BY <2>2, <4>1 DEF IInv, LoadIsRow, Is, UnderWay, dbvars
    <3>3. QED
      BY <3>1, <3>2
  <2>5. QED
    BY <2>1, <2>3, <2>4 DEF IInv, LoadIsRow
<1>3. CASE Read(q)
  <2>1. /\ UNCHANGED <<dbvars, cachevars, runtime, closed, overlap, on>> /\ pc[q] = "load"
        /\ pc' = [pc EXCEPT ![q] = "read"]
        /\ snapshot' = [snapshot EXCEPT ![q] = IF row.status = "active" THEN row.version ELSE None]
    BY <1>3 DEF Read
  <2>2. Types'
    BY <1>0, <2>1 DEF Types, dbvars, cachevars
  <2>3. CacheIsRow'
    BY <2>1 DEF IInv, CacheIsRow, Is, UnderWay, dbvars, cachevars
  <2>4. ASSUME NEW p \in Queries, Loading(p)', overlap'[p] = FALSE
        PROVE  /\ \A u \in Updates : ~UnderWay(u)'
               /\ pc'[p] = "read" /\ snapshot'[p] # None => Is(snapshot[p])'
    <3>1. Loading(p) /\ overlap[p] = FALSE
      BY <1>0, <2>1, <2>4 DEF Loading, Types
    <3>2. p = q => (snapshot'[p] # None => Is(snapshot[p])')
      BY <1>0, <2>1 DEF Is, Types, dbvars
    <3>3. p # q => pc'[p] = pc[p] /\ snapshot'[p] = snapshot[p]
      BY <1>0, <2>1 DEF Types
    <3>4. QED
      BY <2>1, <3>1, <3>2, <3>3 DEF IInv, LoadIsRow, Is, UnderWay, dbvars
  <2>5. QED
    BY <2>2, <2>3, <2>4 DEF IInv, LoadIsRow
<1>4. CASE Return(q)
  <2>1. /\ pc[q] = "read" /\ snapshot[q] # None
        /\ cache' = snapshot[q] /\ raced' = overlap[q]
        /\ pc' = [pc EXCEPT ![q] = "pool"] /\ snapshot' = [snapshot EXCEPT ![q] = snapshot[q]]
        /\ UNCHANGED <<row, update, closed, overlap>>
    BY <1>4 DEF Return, Submit, dbvars
  <2>2. snapshot' = snapshot
    BY <1>0, <2>1 DEF Types
  <2>3. Types'
    BY <1>0, <1>4, <2>1, <2>2 DEF Return, Types, Submit, GetDbWorkerPool, Runtimes, NoPool
  <2>4. CacheIsRow'
    <3> SUFFICES ASSUME overlap[q] = FALSE
                 PROVE  Is(cache)' /\ \A u \in Updates : UnderWay(u)' => update'[u] = "create"
      BY <2>1 DEF CacheIsRow
    <3>1. Is(snapshot[q]) /\ \A u \in Updates : ~UnderWay(u)
      BY <2>1 DEF IInv, LoadIsRow, Loading
    <3>2. QED
      BY <2>1, <3>1 DEF Is, UnderWay
  <2>5. ASSUME NEW p \in Queries, Loading(p)', overlap'[p] = FALSE
        PROVE  /\ \A u \in Updates : ~UnderWay(u)'
               /\ pc'[p] = "read" /\ snapshot'[p] # None => Is(snapshot[p])'
    <3>1. p # q /\ Loading(p) /\ overlap[p] = FALSE /\ pc'[p] = pc[p]
      BY <1>0, <2>1, <2>5 DEF Loading, Types
    <3>2. QED
      BY <2>1, <2>2, <3>1 DEF IInv, LoadIsRow, Is, UnderWay
  <2>6. QED
    BY <2>3, <2>4, <2>5 DEF IInv, LoadIsRow
<1>5. CASE ReturnError(q) \/ Answer(q)
  <2>1. /\ pc' = [pc EXCEPT ![q] = "done"]
        /\ UNCHANGED <<dbvars, cachevars, runtime, closed, overlap, snapshot, on>>
    BY <1>5 DEF ReturnError, Answer
  <2>2. Types'
    BY <1>0, <2>1 DEF Types, dbvars, cachevars
  <2>3. \A p \in Queries : Loading(p)' => pc'[p] = pc[p]
    BY <1>0, <2>1 DEF Loading, Types
  <2>4. QED
    BY <2>1, <2>2, <2>3, Elsewhere
<1>6. CASE Connected(q) \/ ConnectFails(q) \/ \E g \in Runtimes : TakeQuery(g, q)
  <2>1. UNCHANGED <<dbvars, cachevars, runtime, closed, qvars>>
    BY <1>6 DEF Connected, ConnectFails, Connect, TakeQuery
  <2>2. Types'
    BY <1>0, <2>1 DEF Types, dbvars, cachevars, qvars
  <2>3. QED
    BY <2>1, <2>2, Elsewhere DEF qvars
<1>7. QED
  BY <1>1, <1>2, <1>3, <1>4, <1>5, <1>6 DEF QueryStep

(* A request begins: the loads it meets are marked, and the cache is empty *)
(* unless the request can only create.                                     *)
LEMMA BeginHolds ==
  ASSUME IInv, NEW u \in Updates, NEW c \in Change, Begin(u, c)
  PROVE  IInv'
<1>0. Types
  BY DEF IInv
<1>1. /\ update[u] = "new" /\ update' = [update EXCEPT ![u] = c] /\ LoadsMeet
      /\ UNCHANGED <<row, runtime, closed, pc, snapshot, on>>
  BY DEF Begin
<1>2. \A q \in Queries : Loading(q)' => overlap'[q] = TRUE
  BY <1>1 DEF LoadsMeet, Loading
<1>3. overlap' \in [Queries -> BOOLEAN]
  BY <1>0, <1>1 DEF LoadsMeet, Types
<1>4. CASE c = "create"
  <2>1. UNCHANGED cachevars
    BY <1>4 DEF Begin
  <2>2. Types'
    BY <1>0, <1>1, <1>3, <2>1 DEF Types, cachevars
  <2>3. CacheIsRow'
    BY <1>0, <1>1, <1>4, <2>1 DEF IInv, Types, CacheIsRow, Is, UnderWay, cachevars
  <2>4. LoadIsRow'
    BY <1>2 DEF LoadIsRow
  <2>5. QED
    BY <2>2, <2>3, <2>4 DEF IInv
<1>5. CASE c # "create"
  <2>1. cache' = None /\ raced' = FALSE
    BY <1>5 DEF Begin, Invalidate
  <2>2. Types'
    BY <1>0, <1>1, <1>3, <2>1 DEF Types
  <2>3. CacheIsRow' /\ LoadIsRow'
    BY <1>2, <2>1 DEF CacheIsRow, LoadIsRow
  <2>4. QED
    BY <2>2, <2>3 DEF IInv
<1>6. QED
  BY <1>4, <1>5

(* The write changes the row only if no fresh entry and no fresh load      *)
(* relies on it.                                                           *)
LEMMA WriteHolds ==
  ASSUME IInv, NEW u \in Updates, Write(u)
  PROVE  IInv'
<1>0. Types
  BY DEF IInv
<1>1. /\ UnderWay(u) /\ row' = Changed(update[u]) /\ update' = [update EXCEPT ![u] = "done"]
      /\ UNCHANGED <<cache, raced, runtime, closed, pc, overlap, snapshot, on>>
  BY DEF Write, cachevars, qvars
<1>2. update[u] \in Change
  BY <1>0, <1>1 DEF Types, UnderWay
<1>3. row' \in [status : {"active", "inactive", "absent"}, version : Versions]
  <2>1. row.version < MaxVersion => row.version + 1 \in Versions
    BY <1>0, MaxVersionAssumption DEF Types, Versions
  <2>2. QED
    BY <1>0, <1>1, <1>2, <2>1 DEF Changed, Types, Change
<1>4. Types'
  BY <1>0, <1>1, <1>3 DEF Types
<1>5. CacheIsRow'
  <2> SUFFICES ASSUME cache # None, raced = FALSE
               PROVE  Is(cache)' /\ \A v \in Updates : UnderWay(v)' => update'[v] = "create"
    BY <1>1 DEF CacheIsRow
  <2>1. Is(cache) /\ \A v \in Updates : UnderWay(v) => update[v] = "create"
    BY DEF IInv, CacheIsRow
  <2>2. row' = row
    BY <1>1, <2>1 DEF Changed, Is
  <2>3. QED
    BY <1>0, <1>1, <2>1, <2>2 DEF Is, UnderWay, Types
<1>6. LoadIsRow'
  BY <1>1 DEF IInv, LoadIsRow, Loading
<1>7. QED
  BY <1>4, <1>5, <1>6 DEF IInv

LEMMA StepHolds == IInv /\ [Next]_vars => IInv'
<1> SUFFICES ASSUME IInv, [Next]_vars PROVE IInv'
  OBVIOUS
<1>0. Types
  BY DEF IInv
<1>1. CASE UNCHANGED vars
  <2>1. UNCHANGED <<row, cache, raced, runtime, closed, update, pc, overlap, snapshot, on>>
    BY <1>1 DEF vars, dbvars, cachevars, qvars
  <2>2. Types'
    BY <1>0, <2>1 DEF Types
  <2>3. QED
    BY <2>1, <2>2, Elsewhere DEF dbvars, cachevars
<1>2. ASSUME NEW g \in Runtimes, TakeClose(g) PROVE IInv'
  <2>1. UNCHANGED <<dbvars, cachevars, runtime, closed, pc, overlap, snapshot, on>>
    BY <1>2 DEF TakeClose, qvars
  <2>2. Types'
    BY <1>0, <2>1 DEF Types, dbvars, cachevars
  <2>3. QED
    BY <2>1, <2>2, Elsewhere
<1>3. ASSUME NEW g \in Runtimes, ThreadEnds(g) PROVE IInv'
  <2>1. /\ UNCHANGED <<dbvars, cachevars, runtime, closed, overlap, snapshot, on>>
        /\ pc' = IF slot[g] = None THEN pc ELSE [pc EXCEPT ![slot[g]] = "done"]
    BY <1>3 DEF ThreadEnds
  <2>2. Types'
    BY <1>0, <2>1 DEF Types, dbvars, cachevars
  <2>3. \A q \in Queries : Loading(q)' => pc'[q] = pc[q]
    BY <1>0, <2>1 DEF Loading, Types
  <2>4. QED
    BY <2>1, <2>2, <2>3, Elsewhere
<1>4. CASE CloseRuntime
  <2>1. /\ UNCHANGED <<row, update, overlap, snapshot, on>>
        /\ cache' = None /\ raced' = FALSE /\ runtime' = NoPool /\ closed' = TRUE
        /\ pc' = [q \in Queries |-> IF pc[q] = "pool" THEN "done" ELSE pc[q]]
    BY <1>4 DEF CloseRuntime, dbvars
  <2>2. Types'
    BY <1>0, <2>1 DEF Types
  <2>3. \A q \in Queries : Loading(q)' => pc'[q] = pc[q]
    BY <2>1 DEF Loading
  <2>4. QED
    BY <2>1, <2>2, <2>3, Emptied
<1>5. QED
  BY <1>1, <1>2, <1>3, <1>4, QueryStepHolds, BeginHolds, WriteHolds DEF Next

(* The cache serves a replaced, disabled or deleted connection only when   *)
(* its load met an update, for any number of loads and updates in flight.  *)
THEOREM CacheStaleOnlyByRace == Spec => []StaleOnlyByRace
BY InitHolds, StepHolds, IInvImplies, PTL DEF Spec

-----------------------------------------------------------------------------
(* The query runtime                                                       *)

(* The first runtime is in use just until it is closed.                    *)
RuntimeIsOpen == /\ QueriesGetAnOpenRuntime
                 /\ closed => runtime # 1

(* No query is given to a runtime that is closing: one that comes after    *)
(* closeDbQueryRuntime gets a new runtime.                                 *)
THEOREM RuntimesAreOpen == Spec => []QueriesGetAnOpenRuntime
<1>1. Init => RuntimeIsOpen
  BY DEF Init, RuntimeIsOpen, QueriesGetAnOpenRuntime
<1>2. IInv /\ RuntimeIsOpen /\ [Next]_vars => RuntimeIsOpen'
  <2> SUFFICES ASSUME IInv, RuntimeIsOpen, [Next]_vars PROVE RuntimeIsOpen'
    OBVIOUS
  <2>0. Types
    BY DEF IInv
  <2>1. ASSUME UNCHANGED <<runtime, closed, on>>,
               \A q \in Queries : pc'[q] = "pool" => pc[q] = "pool"
        PROVE  RuntimeIsOpen'
    BY <2>1 DEF RuntimeIsOpen, QueriesGetAnOpenRuntime
  <2>2. ASSUME NEW q \in Queries, Hit(q) \/ Return(q) PROVE RuntimeIsOpen'
    <3>1. /\ runtime' = GetDbWorkerPool /\ on' = [on EXCEPT ![q] = GetDbWorkerPool]
          /\ pc' = [pc EXCEPT ![q] = "pool"] /\ UNCHANGED closed
      BY <2>2 DEF Hit, Return, Submit
    <3>2. closed => GetDbWorkerPool = 2
      BY <2>0 DEF RuntimeIsOpen, GetDbWorkerPool, Types, Runtimes, NoPool
    <3>3. \A p \in Queries : p # q => pc'[p] = pc[p] /\ on'[p] = on[p]
      BY <2>0, <3>1 DEF Types
    <3>4. on'[q] = GetDbWorkerPool
      BY <2>0, <3>1 DEF Types
    <3>5. QED
      BY <3>1, <3>2, <3>3, <3>4 DEF RuntimeIsOpen, QueriesGetAnOpenRuntime
  <2>3. ASSUME NEW q \in Queries, QueryStep(q), ~(Hit(q) \/ Return(q)) PROVE RuntimeIsOpen'
    <3>1. UNCHANGED <<runtime, closed, on>>
      BY <2>3 DEF QueryStep, Miss, Read, ReturnError, Connected, ConnectFails, Connect, Answer,
                  TakeQuery, qvars
    <3>2. pc' = pc \/ \E w \in {"load", "read", "done"} : pc' = [pc EXCEPT ![q] = w]
      BY <2>3 DEF QueryStep, Miss, Read, ReturnError, Connected, ConnectFails, Connect, Answer,
                  TakeQuery, qvars
    <3>3. QED
      BY <2>0, <2>1, <3>1, <3>2 DEF Types
  <2>4. ASSUME NEW u \in Updates, Write(u) \/ \E c \in Change : Begin(u, c) PROVE RuntimeIsOpen'
    BY <2>1, <2>4 DEF Write, Begin, qvars
  <2>5. ASSUME NEW g \in Runtimes, TakeClose(g) \/ ThreadEnds(g) PROVE RuntimeIsOpen'
    <3>1. UNCHANGED <<runtime, closed, on>>
      BY <2>5 DEF TakeClose, ThreadEnds, qvars
    <3>2. pc' = pc \/ pc' = [pc EXCEPT ![slot[g]] = "done"]
      BY <2>5 DEF TakeClose, ThreadEnds, qvars
    <3>3. QED
      BY <2>0, <2>1, <3>1, <3>2 DEF Types
  <2>6. CASE CloseRuntime
    BY <2>6 DEF CloseRuntime, RuntimeIsOpen, QueriesGetAnOpenRuntime, NoPool
  <2>7. CASE UNCHANGED vars
    BY <2>1, <2>7 DEF vars, qvars
  <2>8. QED
    BY <2>2, <2>3, <2>4, <2>5, <2>6, <2>7 DEF Next
<1>3. RuntimeIsOpen => QueriesGetAnOpenRuntime
  BY DEF RuntimeIsOpen
<1>4. QED
  BY <1>1, <1>2, <1>3, InitHolds, StepHolds, PTL DEF Spec
-----------------------------------------------------------------------------
(* The worker threads and their MSSQL pools                                *)

ThreadTypes ==
  /\ slot \in [Runtimes -> Queries \cup {None}]
  /\ queue \in [Runtimes -> Seq(Queries)]
  /\ inbox \in [Runtimes -> Seq(Queries \cup {CloseMessage})]
  /\ pools \in [Runtimes -> [Versions -> Queries \cup {None}]]
  /\ pool \in [Queries -> {"none", "connecting", "doomed", "open", "closed", "failed"}]
  /\ using \in [Queries -> Queries \cup {None}]

LEMMA AllTypes == TypeOK <=> Types /\ ThreadTypes
BY DEF TypeOK, Types, ThreadTypes

(* A thread has at most one query, which it has in its inbox or has taken. *)
Posted ==
  \A g \in Runtimes :
    /\ slot[g] # None => pc[slot[g]] = "pool" /\ on[slot[g]] = g
    /\ \A q \in Queries : Holds(inbox[g], q) => slot[g] = q /\ using[q] = None
    /\ Only(inbox[g], Queries)

(* The queries that wait for a thread are others, each there once.         *)
Waiting ==
  \A g \in Runtimes :
    /\ Distinct(queue[g])
    /\ \A q \in Queries : Holds(queue[g], q) =>
         pc[q] = "pool" /\ on[q] = g /\ using[q] = None /\ slot[g] # q

(* A query asks for a pool while its thread has it, and keeps the thread   *)
(* at least until a pool that it made has connected.                       *)
Owned ==
  \A q \in Queries :
    /\ pc[q] \in {"new", "load", "read"} => using[q] = None
    /\ pc[q] = "pool" => /\ on[q] \in Runtimes /\ snapshot[q] \in Versions
                         /\ using[q] # None => slot[on[q]] = q
    /\ pool[q] # "none" => /\ on[q] \in Runtimes /\ snapshot[q] \in Versions
                           /\ using[q] = q /\ pc[q] \in {"pool", "done"}
    /\ pool[q] \in {"connecting", "doomed"} => pc[q] = "pool"

(* The map of a thread: live pools, each under its maker's key.            *)
Mapped ==
  \A g \in Runtimes, v \in Versions : pools[g][v] # None =>
    /\ on[pools[g][v]] = g /\ snapshot[pools[g][v]] = v
    /\ pool[pools[g][v]] \in {"connecting", "open"}

DoomedAlone == \A p \in Queries : pool[p] = "doomed" => pools[on[p]][snapshot[p]] = None

(* The first runtime gets all queries until it is closed, and none then.   *)
RuntimeInUse == /\ ~closed => runtime = 1 /\ \A q \in Queries : on[q] # 2
                /\ closed => runtime # 1

TInv == TypeOK /\ Posted /\ Waiting /\ Owned /\ Mapped /\ PoolsStayClosable /\ DoomedAlone
        /\ RuntimeInUse

LEMMA NoneIsNoQuery == None \notin Queries /\ CloseMessage \notin Queries
BY NoneAssumption, CloseMessageAssumption

LEMMA TInvImplies == TInv => MapHasLivePools
BY DEF TInv, Mapped, DoomedAlone, MapHasLivePools

LEMMA TInit == Init => TInv
<1> SUFFICES ASSUME Init PROVE TInv
  OBVIOUS
<1>1. NoPools \in [Versions -> Queries \cup {None}]
  BY DEF NoPools
<1>2. TypeOK
  BY <1>1, InitHolds, AllTypes DEF Init, IInv, ThreadTypes
<1>3. \A g \in Runtimes : \A x : ~Holds(queue[g], x) /\ ~Holds(inbox[g], x)
  BY EmptyHolds DEF Init
<1>4. \A g \in Runtimes : Distinct(queue[g]) /\ Only(inbox[g], Queries)
  BY EmptyHolds DEF Init, Distinct
<1>5. Posted /\ Waiting
  BY <1>3, <1>4 DEF Init, Posted, Waiting
<1>6. Owned /\ PoolsStayClosable /\ DoomedAlone /\ RuntimeInUse
  BY DEF Init, Owned, PoolsStayClosable, DoomedAlone, RuntimeInUse, NoPool
<1>7. Mapped
  BY DEF Init, Mapped, NoPools
<1>8. QED
  BY <1>2, <1>5, <1>6, <1>7 DEF TInv

-----------------------------------------------------------------------------
(* The threads' queues                                                     *)

(* The slot is free: nobody is posted, or the head of the queue.           *)
LEMMA NextQueryFacts ==
  ASSUME TypeOK, NEW g \in Runtimes, NEW box \in Seq(Queries \cup {CloseMessage}),
         \A x \in Queries : ~Holds(box, x), Distinct(queue[g]), NextQuery(g, box)
  PROVE  /\ slot' \in [Runtimes -> Queries \cup {None}]
         /\ queue' \in [Runtimes -> Seq(Queries)]
         /\ inbox' \in [Runtimes -> Seq(Queries \cup {CloseMessage})]
         /\ \A h \in Runtimes : h # g =>
              slot'[h] = slot[h] /\ queue'[h] = queue[h] /\ inbox'[h] = inbox[h]
         /\ slot'[g] # None => Holds(queue[g], slot'[g])
         /\ \A x \in Queries : Holds(inbox'[g], x) => x = slot'[g]
         /\ Only(inbox'[g], Queries)
         /\ Distinct(queue'[g])
         /\ \A x \in Queries : Holds(queue'[g], x) => Holds(queue[g], x) /\ slot'[g] # x
<1>0. queue[g] \in Seq(Queries) /\ Only(box, Queries)
  BY DEF TypeOK, Only, Holds
<1>1. CASE queue[g] = <<>>
  <2>1. slot' = [slot EXCEPT ![g] = None] /\ inbox' = [inbox EXCEPT ![g] = box] /\ queue' = queue
    BY <1>1 DEF NextQuery
  <2>2. \A x : ~Holds(queue[g], x)
    BY <1>1, EmptyHolds
  <2>3. slot'[g] = None /\ inbox'[g] = box
    BY <2>1 DEF TypeOK
  <2>4. QED
    BY <1>0, <2>1, <2>2, <2>3 DEF TypeOK
<1>2. CASE queue[g] # <<>>
  <2> DEFINE h == Head(queue[g])
             t == Tail(queue[g])
             b == Append(box, h)
  <2>1. /\ h \in Queries /\ Holds(queue[g], h) /\ t \in Seq(Queries) /\ Distinct(t)
        /\ \A x : Holds(t, x) <=> Holds(queue[g], x) /\ x # h
    BY <1>0, <1>2, TailHolds
  <2>2. h \in Queries \cup {CloseMessage}
    BY <2>1
  <2>3. /\ b \in Seq(Queries \cup {CloseMessage}) /\ Only(b, Queries)
        /\ \A x : Holds(b, x) <=> Holds(box, x) \/ x = h
    BY <1>0, <2>2, AppendOnly
  <2>4. /\ slot' = [slot EXCEPT ![g] = h] /\ inbox' = [inbox EXCEPT ![g] = b]
        /\ queue' = [queue EXCEPT ![g] = t]
    BY <1>2 DEF NextQuery
  <2> HIDE DEF h, t, b
  <2>5. slot'[g] = h /\ inbox'[g] = b /\ queue'[g] = t
    BY <2>4 DEF TypeOK
  <2>6. QED
    BY <2>1, <2>3, <2>4, <2>5 DEF TypeOK
<1>3. QED
  BY <1>1, <1>2

-----------------------------------------------------------------------------
(* Every step                                                              *)

LEMMA PoolsStay ==
  ASSUME TInv, UNCHANGED <<pools, pool>>,
         \A p \in Queries : pool[p] # "none" => on'[p] = on[p] /\ snapshot'[p] = snapshot[p]
  PROVE  Mapped' /\ PoolsStayClosable' /\ DoomedAlone'
<1>1. \A g \in Runtimes, v \in Versions : pools[g][v] # None => pools[g][v] \in Queries
  BY DEF TInv, TypeOK
<1>2. QED
  BY <1>1 DEF TInv, Mapped, PoolsStayClosable, DoomedAlone

LEMMA SubmitHolds ==
  ASSUME TInv, TypeOK', NEW q \in Queries, NEW v \in Versions, pc[q] \in {"new", "read"},
         Submit(q, v), UNCHANGED <<closed, pools, pool, using>>
  PROVE  TInv'
<1> DEFINE g == GetDbWorkerPool
<1>0. TypeOK /\ None \notin Queries
  BY NoneIsNoQuery DEF TInv
<1>1. g \in Runtimes /\ (~closed => g = 1) /\ (closed => g = 2)
  BY <1>0 DEF TInv, TypeOK, RuntimeInUse, GetDbWorkerPool, Runtimes, NoPool
<1>2. /\ runtime' = g /\ on' = [on EXCEPT ![q] = g] /\ pc' = [pc EXCEPT ![q] = "pool"]
      /\ snapshot' = [snapshot EXCEPT ![q] = v]
  BY DEF Submit
<1>3. /\ on'[q] = g /\ pc'[q] = "pool" /\ snapshot'[q] = v
      /\ \A p \in Queries : p # q =>
           on'[p] = on[p] /\ pc'[p] = pc[p] /\ snapshot'[p] = snapshot[p]
  BY <1>0, <1>2 DEF TypeOK
<1>4. /\ using[q] = None /\ pool[q] = "none"
      /\ \A h \in Runtimes : slot[h] # q /\ ~Holds(queue[h], q) /\ ~Holds(inbox[h], q)
  BY <1>0 DEF TInv, Owned, Posted, Waiting
<1>5. CASE slot[g] = None
  <2> DEFINE box == Append(inbox[g], q)
  <2>1. slot' = [slot EXCEPT ![g] = q] /\ inbox' = [inbox EXCEPT ![g] = box] /\ queue' = queue
    BY <1>5 DEF Submit
  <2>2. inbox[g] \in Seq(Queries \cup {CloseMessage}) /\ q \in Queries \cup {CloseMessage}
    BY <1>0, <1>1 DEF TypeOK
  <2>3. \A x \in Queries : ~Holds(inbox[g], x)
    BY <1>0, <1>1, <1>5 DEF TInv, Posted
  <2>4. Only(box, Queries) /\ \A x : Holds(box, x) <=> Holds(inbox[g], x) \/ x = q
    BY <1>1, <2>2, <2>3, AppendOnly DEF TInv, Posted
  <2> HIDE DEF box, g
  <2>5. /\ slot'[g] = q /\ inbox'[g] = box
        /\ \A h \in Runtimes : h # g => slot'[h] = slot[h] /\ inbox'[h] = inbox[h]
    BY <1>0, <1>1, <2>1 DEF TypeOK
  <2>6. \A h \in Runtimes : slot[h] # None => slot[h] \in Queries
    BY <1>0 DEF TypeOK
  <2>7. Posted'
    <3> SUFFICES ASSUME NEW h \in Runtimes
                 PROVE  /\ slot'[h] # None => pc'[slot'[h]] = "pool" /\ on'[slot'[h]] = h
                        /\ \A x \in Queries : Holds(inbox'[h], x) => slot'[h] = x /\ using[x] = None
                        /\ Only(inbox'[h], Queries)
      BY DEF Posted
    <3>1. CASE h = g
      BY <1>3, <1>4, <2>3, <2>4, <2>5, <3>1
    <3>2. CASE h # g
      BY <1>3, <1>4, <2>5, <2>6, <3>2 DEF TInv, Posted
    <3>3. QED
      BY <3>1, <3>2
  <2>8. Waiting'
    BY <1>3, <1>4, <2>1, <2>5 DEF TInv, Waiting
  <2>9. Owned'
    BY <1>1, <1>3, <1>4, <1>5, <1>0, <2>5 DEF TInv, Owned
  <2>10. RuntimeInUse'
    BY <1>1, <1>2, <1>3 DEF TInv, RuntimeInUse
  <2>11. Mapped' /\ PoolsStayClosable' /\ DoomedAlone'
    BY <1>3, <1>4, PoolsStay
  <2>12. QED
    BY <2>7, <2>8, <2>9, <2>10, <2>11 DEF TInv
<1>6. CASE slot[g] # None
  <2> DEFINE line == Append(queue[g], q)
  <2>1. slot' = slot /\ inbox' = inbox /\ queue' = [queue EXCEPT ![g] = line]
    BY <1>6 DEF Submit
  <2>2. queue[g] \in Seq(Queries) /\ ~Holds(queue[g], q) /\ Distinct(queue[g])
    BY <1>0, <1>1, <1>4 DEF TypeOK, TInv, Waiting
  <2>3. Distinct(line) /\ \A x : Holds(line, x) <=> Holds(queue[g], x) \/ x = q
    BY <2>2, AppendHolds
  <2> HIDE DEF line, g
  <2>4. queue'[g] = line /\ \A h \in Runtimes : h # g => queue'[h] = queue[h]
    BY <1>0, <1>1, <2>1 DEF TypeOK
  <2>5. \A h \in Runtimes : slot[h] # None => slot[h] \in Queries
    BY <1>0 DEF TypeOK
  <2>6. Posted'
    BY <1>3, <1>4, <2>1, <2>5 DEF TInv, Posted
  <2>7. Waiting'
    <3> SUFFICES ASSUME NEW h \in Runtimes
                 PROVE  /\ Distinct(queue'[h])
                        /\ \A x \in Queries : Holds(queue'[h], x) =>
                             pc'[x] = "pool" /\ on'[x] = h /\ using[x] = None /\ slot[h] # x
      BY <2>1 DEF Waiting
    <3>1. CASE h = g
      BY <1>1, <1>3, <1>4, <2>3, <2>4, <3>1 DEF TInv, Waiting
    <3>2. CASE h # g
      BY <1>3, <1>4, <2>4, <3>2 DEF TInv, Waiting
    <3>3. QED
      BY <3>1, <3>2
  <2>8. Owned'
    BY <1>0, <1>1, <1>3, <1>4, <2>1 DEF TInv, Owned
  <2>9. RuntimeInUse'
    BY <1>1, <1>2, <1>3 DEF TInv, RuntimeInUse
  <2>10. Mapped' /\ PoolsStayClosable' /\ DoomedAlone'
    BY <1>3, <1>4, PoolsStay
  <2>11. QED
    BY <2>6, <2>7, <2>8, <2>9, <2>10 DEF TInv
<1>7. QED
  BY <1>5, <1>6

(* A step of a query that has not been given to a runtime.                 *)
LEMMA LoadHolds ==
  ASSUME TInv, TypeOK', NEW q \in Queries, Miss(q) \/ Read(q) \/ ReturnError(q)
  PROVE  TInv'
<1>0. TypeOK
  BY DEF TInv
<1>1. /\ UNCHANGED <<runtime, closed, on, slot, queue, inbox, pools, pool, using>>
      /\ pc[q] \in {"new", "load", "read"} /\ pc'[q] \in {"load", "read", "done"}
      /\ \A p \in Queries : p # q => pc'[p] = pc[p] /\ snapshot'[p] = snapshot[p]
  BY <1>0 DEF Miss, Read, ReturnError, wvars, pvars, TypeOK
<1>2. /\ using[q] = None /\ pool[q] = "none"
      /\ \A h \in Runtimes : slot[h] # q /\ ~Holds(queue[h], q) /\ ~Holds(inbox[h], q)
  BY <1>0, <1>1, NoneIsNoQuery DEF TInv, Owned, Posted, Waiting
<1>3. \A h \in Runtimes : slot[h] # None => slot[h] \in Queries
  BY <1>0 DEF TypeOK
<1>4. Posted'
  BY <1>1, <1>2, <1>3 DEF TInv, Posted
<1>5. Waiting'
  BY <1>1, <1>2 DEF TInv, Waiting
<1>6. Owned'
  BY <1>1, <1>2 DEF TInv, Owned
<1>7. Mapped' /\ PoolsStayClosable' /\ DoomedAlone'
  BY <1>1, <1>2, PoolsStay
<1>8. QED
  BY <1>1, <1>4, <1>5, <1>6, <1>7 DEF TInv, RuntimeInUse

(* The thread reads its next message.                                      *)
LEMMA ReadMessage ==
  ASSUME TInv, NEW g \in Runtimes, inbox[g] # <<>>, inbox' = [inbox EXCEPT ![g] = Tail(@)]
  PROVE  /\ inbox' \in [Runtimes -> Seq(Queries \cup {CloseMessage})]
         /\ \A h \in Runtimes : Only(inbox'[h], Queries)
         /\ \A h \in Runtimes : \A x : Holds(inbox'[h], x) => Holds(inbox[h], x)
         /\ Holds(inbox[g], Head(inbox[g]))
         /\ Head(inbox[g]) \in Queries => \A x \in Queries : ~Holds(inbox'[g], x)
<1>1. inbox[g] \in Seq(Queries \cup {CloseMessage}) /\ Only(inbox[g], Queries)
  BY DEF TInv, TypeOK, Posted
<1> DEFINE t == Tail(inbox[g])
<1>2. /\ t \in Seq(Queries \cup {CloseMessage}) /\ Only(t, Queries)
      /\ \A x : Holds(t, x) => Holds(inbox[g], x)
      /\ Holds(inbox[g], Head(inbox[g]))
      /\ Head(inbox[g]) \in Queries => \A x \in Queries : ~Holds(t, x)
  BY <1>1, TailOnly
<1>3. inbox' = [inbox EXCEPT ![g] = t]
  OBVIOUS
<1> HIDE DEF t
<1>4. inbox'[g] = t /\ \A h \in Runtimes : h # g => inbox'[h] = inbox[h]
  BY <1>3 DEF TInv, TypeOK
<1>5. inbox' \in [Runtimes -> Seq(Queries \cup {CloseMessage})]
  BY <1>2, <1>3 DEF TInv, TypeOK
<1>6. ASSUME NEW h \in Runtimes
      PROVE  Only(inbox'[h], Queries) /\ \A x : Holds(inbox'[h], x) => Holds(inbox[h], x)
  <2>1. CASE h = g
    BY <1>2, <1>4, <2>1, Zenon
  <2>2. CASE h # g
    <3>1. inbox'[h] = inbox[h] /\ Only(inbox[h], Queries)
      BY <1>4, <2>2 DEF TInv, Posted
    <3>2. QED
      BY <3>1, Zenon
  <2>3. QED
    BY <2>1, <2>2
<1>7. /\ Holds(inbox[g], Head(inbox[g]))
      /\ Head(inbox[g]) \in Queries => \A x \in Queries : ~Holds(inbox'[g], x)
  BY <1>2, <1>4, Zenon
<1>8. QED
  BY <1>5, <1>6, <1>7, Zenon

(* The query on top of the inbox is the one the thread has.                *)
LEMMA TakeQueryFacts ==
  ASSUME TInv, NEW g \in Runtimes, NEW q \in Queries, TakeQuery(g, q)
  PROVE  /\ slot[g] = q /\ using[q] = None /\ pool[q] = "none" /\ pc[q] = "pool" /\ on[q] = g
         /\ snapshot[q] \in Versions
         /\ \A x \in Queries : ~Holds(inbox'[g], x)
         /\ \A h \in Runtimes : Only(inbox'[h], Queries)
         /\ \A h \in Runtimes : \A x : Holds(inbox'[h], x) => Holds(inbox[h], x)
         /\ using'[q] # None /\ \A p \in Queries : p # q => using'[p] = using[p]
<1>0. TypeOK /\ None \notin Queries
  BY NoneIsNoQuery DEF TInv
<1>1. inbox[g] # <<>> /\ Head(inbox[g]) = q /\ inbox' = [inbox EXCEPT ![g] = Tail(@)]
  BY DEF TakeQuery
<1>2. /\ Holds(inbox[g], q) /\ \A x \in Queries : ~Holds(inbox'[g], x)
      /\ \A h \in Runtimes : Only(inbox'[h], Queries)
      /\ \A h \in Runtimes : \A x : Holds(inbox'[h], x) => Holds(inbox[h], x)
  BY <1>1, ReadMessage
<1>3. slot[g] = q /\ using[q] = None
  BY <1>2 DEF TInv, Posted
<1>4. pc[q] = "pool" /\ on[q] = g /\ snapshot[q] \in Versions /\ pool[q] = "none"
  BY <1>0, <1>3 DEF TInv, Posted, Owned
<1>5. using'[q] # None /\ \A p \in Queries : p # q => using'[p] = using[p]
  BY <1>0, <1>4 DEF TakeQuery, TypeOK
<1>6. QED
  BY <1>2, <1>3, <1>4, <1>5

LEMMA TakeQueryHolds ==
  ASSUME TInv, TypeOK', NEW g \in Runtimes, NEW q \in Queries, TakeQuery(g, q)
  PROVE  TInv'
<1> DEFINE v == snapshot[q]
<1>0. TypeOK /\ None \notin Queries
  BY NoneIsNoQuery DEF TInv
<1>1. /\ slot[g] = q /\ using[q] = None /\ pool[q] = "none" /\ pc[q] = "pool" /\ on[q] = g
      /\ v \in Versions
      /\ \A x \in Queries : ~Holds(inbox'[g], x)
      /\ \A h \in Runtimes : Only(inbox'[h], Queries)
      /\ \A h \in Runtimes : \A x : Holds(inbox'[h], x) => Holds(inbox[h], x)
      /\ using'[q] # None /\ \A p \in Queries : p # q => using'[p] = using[p]
  BY TakeQueryFacts
<1>2. UNCHANGED <<runtime, closed, pc, on, snapshot, slot, queue>>
  BY DEF TakeQuery, qvars
<1>3. Posted'
  <2> SUFFICES ASSUME NEW h \in Runtimes, NEW x \in Queries, Holds(inbox'[h], x)
               PROVE  slot[h] = x /\ using'[x] = None
    BY <1>1, <1>2 DEF TInv, Posted
  <2>1. h # g /\ slot[h] = x /\ using[x] = None
    BY <1>1 DEF TInv, Posted
  <2>2. x # q
    BY <1>0, <1>1, <2>1 DEF TInv, Posted
  <2>3. QED
    BY <1>1, <2>1, <2>2
<1>4. Waiting'
  <2>1. \A h \in Runtimes : ~Holds(queue[h], q)
    BY <1>1 DEF TInv, Waiting
  <2>2. QED
    BY <1>1, <1>2, <2>1 DEF TInv, Waiting
<1>5. CASE pools[g][v] # None
  <2>1. UNCHANGED <<pools, pool>>
    BY <1>5 DEF TakeQuery
  <2>2. Owned'
    BY <1>1, <1>2, <2>1 DEF TInv, Owned
  <2>3. QED
    BY <1>2, <1>3, <1>4, <2>1, <2>2, PoolsStay DEF TInv, RuntimeInUse
<1>6. CASE pools[g][v] = None
  <2>1. /\ using' = [using EXCEPT ![q] = q] /\ pools' = [pools EXCEPT ![g][v] = q]
        /\ pool' = [pool EXCEPT ![q] = "connecting"]
    BY <1>6 DEF TakeQuery
  <2> HIDE DEF v
  <2>2. /\ using'[q] = q /\ pool'[q] = "connecting"
        /\ \A p \in Queries : p # q => pool'[p] = pool[p]
    BY <1>0, <2>1 DEF TypeOK
  <2>3. /\ pools'[g][v] = q
        /\ \A h \in Runtimes, w \in Versions : h # g \/ w # v => pools'[h][w] = pools[h][w]
    BY <1>0, <1>1, <2>1 DEF TypeOK
  <2>4. snapshot[q] = v
    BY DEF v
  <2>5. Owned'
    BY <1>1, <1>2, <2>2, <2>4 DEF TInv, Owned
  <2>6. Mapped'
    <3> SUFFICES ASSUME NEW h \in Runtimes, NEW w \in Versions, pools'[h][w] # None
                 PROVE  /\ on[pools'[h][w]] = h /\ snapshot[pools'[h][w]] = w
                        /\ pool'[pools'[h][w]] \in {"connecting", "open"}
      BY <1>2 DEF Mapped
    <3>1. CASE h = g /\ w = v
      BY <1>1, <2>2, <2>3, <2>4, <3>1
    <3>2. CASE h # g \/ w # v
      <4>1. pools[h][w] \in Queries
        BY <1>0, <2>3, <3>2 DEF TypeOK
      <4>2. pools[h][w] # q
        BY <1>1, <2>3, <3>2 DEF TInv, Mapped
      <4>3. QED
        BY <2>2, <2>3, <3>2, <4>1, <4>2 DEF TInv, Mapped
    <3>3. QED
      BY <3>1, <3>2
  <2>7. PoolsStayClosable'
    <3> SUFFICES ASSUME NEW p \in Queries, pool'[p] \in {"connecting", "open"}
                 PROVE  pools'[on[p]][snapshot[p]] = p
      BY <1>2 DEF PoolsStayClosable
    <3>1. CASE p = q
      BY <1>1, <2>3, <2>4, <3>1
    <3>2. CASE p # q
      <4>1. on[p] \in Runtimes /\ snapshot[p] \in Versions /\ pools[on[p]][snapshot[p]] = p
        BY <2>2, <3>2 DEF TInv, Owned, PoolsStayClosable
      <4>2. on[p] # g \/ snapshot[p] # v
        BY <1>0, <1>6, <4>1 DEF v
      <4>3. QED
        BY <2>3, <4>1, <4>2
    <3>3. QED
      BY <3>1, <3>2
  <2>8. DoomedAlone'
    <3> SUFFICES ASSUME NEW p \in Queries, pool'[p] = "doomed"
                 PROVE  pools'[on[p]][snapshot[p]] = None
      BY <1>2 DEF DoomedAlone
    <3>1. /\ p # q /\ pool[p] = "doomed" /\ on[p] \in Runtimes /\ snapshot[p] \in Versions
          /\ slot[on[p]] = p
      BY <1>0, <2>2 DEF TInv, Owned
    <3>2. on[p] # g
      BY <1>1, <3>1
    <3>3. QED
      BY <2>3, <3>1, <3>2 DEF TInv, DoomedAlone
  <2>9. QED
    BY <1>2, <1>3, <1>4, <2>5, <2>6, <2>7, <2>8 DEF TInv, RuntimeInUse
<1>7. QED
  BY <1>5, <1>6

(* A close message empties the map, and every pool in it closes or is      *)
(* doomed to.                                                              *)
LEMMA TakeCloseHolds ==
  ASSUME TInv, TypeOK', NEW g \in Runtimes, TakeClose(g)
  PROVE  TInv'
<1>0. TypeOK /\ None \notin Queries
  BY NoneIsNoQuery DEF TInv
<1>1. /\ UNCHANGED <<runtime, closed, pc, on, snapshot, slot, queue, using>>
      /\ inbox[g] # <<>> /\ inbox' = [inbox EXCEPT ![g] = Tail(@)]
      /\ pools' = [pools EXCEPT ![g] = NoPools]
      /\ pool' = [p \in Queries |-> IF InMap(g, p) THEN Closing(pool[p]) ELSE pool[p]]
  BY DEF TakeClose, qvars
<1>2. /\ \A h \in Runtimes : Only(inbox'[h], Queries)
      /\ \A h \in Runtimes : \A x : Holds(inbox'[h], x) => Holds(inbox[h], x)
  BY <1>1, ReadMessage
<1>3. Posted' /\ Waiting'
  BY <1>1, <1>2 DEF TInv, Posted, Waiting
<1>4. /\ \A v \in Versions : pools'[g][v] = None
      /\ \A h \in Runtimes : h # g => pools'[h] = pools[h]
  BY <1>0, <1>1 DEF TypeOK, NoPools
<1>5. \A p \in Queries : InMap(g, p) => pool[p] \in {"connecting", "open"} /\ on[p] = g
  BY <1>0 DEF TInv, Mapped, InMap
<1>6. \A p \in Queries : pool'[p] = IF InMap(g, p) THEN Closing(pool[p]) ELSE pool[p]
  BY <1>1
<1>7. Owned'
  BY <1>1, <1>5, <1>6 DEF TInv, Owned, Closing
<1>8. Mapped'
  <2> SUFFICES ASSUME NEW h \in Runtimes, NEW w \in Versions, pools'[h][w] # None
               PROVE  /\ on[pools'[h][w]] = h /\ snapshot[pools'[h][w]] = w
                      /\ pool'[pools'[h][w]] \in {"connecting", "open"}
    BY <1>1 DEF Mapped
  <2>1. h # g /\ pools[h][w] # None /\ pools[h][w] \in Queries /\ pools'[h][w] = pools[h][w]
    BY <1>0, <1>4 DEF TypeOK
  <2>2. ~InMap(g, pools[h][w])
    BY <1>5, <2>1 DEF TInv, Mapped
  <2>3. QED
    BY <1>6, <2>1, <2>2 DEF TInv, Mapped
<1>9. ASSUME NEW p \in Queries
      PROVE  /\ pool'[p] \in {"connecting", "open"} => pools'[on[p]][snapshot[p]] = p
             /\ pool'[p] = "doomed" => pools'[on[p]][snapshot[p]] = None
  <2>1. CASE InMap(g, p)
    BY <1>4, <1>5, <1>6, <2>1 DEF TInv, Owned, Closing
  <2>2. CASE ~InMap(g, p) /\ pool[p] \in {"connecting", "open"}
    <3>1. on[p] \in Runtimes /\ snapshot[p] \in Versions /\ pools[on[p]][snapshot[p]] = p
      BY <2>2 DEF TInv, Owned, PoolsStayClosable
    <3>2. on[p] # g
      BY <2>2, <3>1 DEF InMap
    <3>3. QED
      BY <1>4, <1>6, <2>2, <3>1, <3>2
  <2>3. CASE ~InMap(g, p) /\ pool[p] = "doomed"
    <3>1. on[p] \in Runtimes /\ snapshot[p] \in Versions /\ pools[on[p]][snapshot[p]] = None
      BY <2>3 DEF TInv, Owned, DoomedAlone
    <3>2. QED
      BY <1>4, <1>6, <2>3, <3>1
  <2>4. QED
    BY <1>6, <2>1, <2>2, <2>3
<1>10. QED
  BY <1>1, <1>3, <1>7, <1>8, <1>9 DEF TInv, RuntimeInUse, PoolsStayClosable, DoomedAlone

(* A pool connects, or fails to: nothing else changes but, perhaps, an     *)
(* entry of the map.                                                       *)
LEMMA ConnectHolds ==
  ASSUME TInv, TypeOK', NEW p \in Queries, Connected(p) \/ ConnectFails(p)
  PROVE  TInv'
<1> DEFINE g == on[p]
           v == snapshot[p]
<1>0. TypeOK /\ None \notin Queries
  BY NoneIsNoQuery DEF TInv
<1>1. /\ UNCHANGED <<runtime, closed, pc, on, snapshot, slot, queue, inbox, using>>
      /\ pool[p] \in {"connecting", "doomed"}
      /\ \A q \in Queries : q # p => pool'[q] = pool[q]
  BY <1>0 DEF Connected, ConnectFails, Connect, qvars, wvars, TypeOK
<1>2. /\ g \in Runtimes /\ v \in Versions /\ using[p] = p /\ pc[p] = "pool"
      /\ pool[p] = "connecting" => pools[g][v] = p
      /\ pool[p] = "doomed" => pools[g][v] = None
  BY <1>1 DEF TInv, Owned, PoolsStayClosable, DoomedAlone
<1>3. \A q \in Queries : q # p /\ pool[q] # "none" /\ on[q] = g /\ snapshot[q] = v
        => pool[q] \notin {"connecting", "open"}
  <2>1. ASSUME NEW q \in Queries, q # p, pool[q] \in {"connecting", "open"},
               on[q] = g, snapshot[q] = v
        PROVE  FALSE
    BY <1>0, <1>1, <1>2, <2>1 DEF TInv, PoolsStayClosable
  <2>2. QED
    BY <2>1
<1>4. Posted' /\ Waiting'
  BY <1>1 DEF TInv, Posted, Waiting
<1>5. \A h \in Runtimes, w \in Versions : pools[h][w] # None => pools[h][w] \in Queries
  BY <1>0 DEF TypeOK
<1>6. CASE Connected(p)
  <2>1. /\ pools' = pools
        /\ pool'[p] = IF pool[p] = "doomed" THEN "closed" ELSE "open"
    BY <1>0, <1>6 DEF Connected, Connect, TypeOK
  <2>2. Owned' /\ DoomedAlone' /\ PoolsStayClosable'
    BY <1>1, <1>2, <2>1 DEF TInv, Owned, DoomedAlone, PoolsStayClosable
  <2>3. Mapped'
    <3> SUFFICES ASSUME NEW h \in Runtimes, NEW w \in Versions, pools[h][w] = p
                 PROVE  pool'[p] \in {"connecting", "open"}
      BY <1>1, <1>5, <2>1 DEF TInv, Mapped
    <3>1. pool[p] \in {"connecting", "open"}
      BY <1>0 DEF TInv, Mapped
    <3>2. QED
      BY <1>1, <2>1, <3>1
  <2>4. QED
    BY <1>1, <1>4, <2>2, <2>3 DEF TInv, RuntimeInUse
<1>7. CASE ConnectFails(p)
  <2>1. pool'[p] = "failed" /\ pools' = [pools EXCEPT ![g][v] = None]
    BY <1>0, <1>7 DEF ConnectFails, Connect, TypeOK
  <2> HIDE DEF g, v
  <2>2. /\ pools'[g][v] = None
        /\ \A h \in Runtimes, w \in Versions : h # g \/ w # v => pools'[h][w] = pools[h][w]
    BY <1>0, <1>2, <2>1 DEF TypeOK
  <2>3. Owned'
    BY <1>1, <1>2, <2>1 DEF TInv, Owned
  <2>4. Mapped'
    <3> SUFFICES ASSUME NEW h \in Runtimes, NEW w \in Versions, pools'[h][w] # None
                 PROVE  /\ on[pools'[h][w]] = h /\ snapshot[pools'[h][w]] = w
                        /\ pool'[pools'[h][w]] \in {"connecting", "open"}
      BY <1>1 DEF Mapped
    <3>1. pools'[h][w] = pools[h][w] /\ (h # g \/ w # v)
      BY <2>2
    <3>2. pools[h][w] # p
      BY <1>0, <3>1 DEF TInv, Mapped, g, v
    <3>3. QED
      BY <1>1, <1>5, <3>1, <3>2 DEF TInv, Mapped
  <2>5. ASSUME NEW q \in Queries
        PROVE  /\ pool'[q] \in {"connecting", "open"} => pools'[on[q]][snapshot[q]] = q
               /\ pool'[q] = "doomed" => pools'[on[q]][snapshot[q]] = None
    <3>1. CASE q = p
      BY <2>1, <3>1
    <3>2. CASE q # p /\ pool[q] # "none"
      <4>1. on[q] \in Runtimes /\ snapshot[q] \in Versions
        BY <3>2 DEF TInv, Owned
      <4>2. CASE on[q] = g /\ snapshot[q] = v
        BY <1>1, <1>3, <2>2, <3>2, <4>2
      <4>3. CASE on[q] # g \/ snapshot[q] # v
        BY <1>1, <2>2, <3>2, <4>1, <4>3 DEF TInv, PoolsStayClosable, DoomedAlone
      <4>4. QED
        BY <4>2, <4>3
    <3>3. QED
      BY <1>1, <3>1, <3>2
  <2>6. QED
    BY <1>1, <1>4, <2>3, <2>4, <2>5 DEF TInv, RuntimeInUse, PoolsStayClosable, DoomedAlone
<1>8. QED
  BY <1>6, <1>7

(* The query that a thread has ends, and the next one is posted.           *)
LEMMA NextQueryHolds ==
  ASSUME TInv, NEW g \in Runtimes, NEW box \in Seq(Queries \cup {CloseMessage}),
         \A x \in Queries : ~Holds(box, x), NextQuery(g, box), UNCHANGED <<on, using>>,
         \A q \in Queries : pc'[q] = pc[q] \/ q = slot[g]
  PROVE  /\ Posted' /\ Waiting'
         /\ \A h \in Runtimes : h # g => slot'[h] = slot[h]
<1>0. TypeOK /\ None \notin Queries /\ Distinct(queue[g])
  BY NoneIsNoQuery DEF TInv, Waiting
<1>1. /\ slot' \in [Runtimes -> Queries \cup {None}]
      /\ \A h \in Runtimes : h # g =>
           slot'[h] = slot[h] /\ queue'[h] = queue[h] /\ inbox'[h] = inbox[h]
      /\ slot'[g] # None => Holds(queue[g], slot'[g])
      /\ \A x \in Queries : Holds(inbox'[g], x) => x = slot'[g]
      /\ Only(inbox'[g], Queries)
      /\ Distinct(queue'[g])
      /\ \A x \in Queries : Holds(queue'[g], x) => Holds(queue[g], x) /\ slot'[g] # x
  BY <1>0, NextQueryFacts
<1>2. ASSUME NEW q \in Queries, Holds(queue[g], q)
      PROVE  pc'[q] = "pool" /\ on[q] = g /\ using[q] = None
  BY <1>2 DEF TInv, Waiting
<1>3. ASSUME NEW h \in Runtimes
      PROVE  /\ slot'[h] # None => pc'[slot'[h]] = "pool" /\ on[slot'[h]] = h
             /\ \A q \in Queries : Holds(inbox'[h], q) => slot'[h] = q /\ using[q] = None
             /\ Only(inbox'[h], Queries)
  <2>1. CASE h = g
    BY <1>0, <1>1, <1>2, <2>1
  <2>2. CASE h # g
    <3>1. slot[h] # None => slot[h] \in Queries /\ slot[h] # slot[g]
      BY <1>0, <2>2 DEF TInv, Posted, TypeOK
    <3>2. QED
      BY <1>1, <2>2, <3>1 DEF TInv, Posted
  <2>3. QED
    BY <2>1, <2>2
<1>4. ASSUME NEW h \in Runtimes
      PROVE  /\ Distinct(queue'[h])
             /\ \A q \in Queries : Holds(queue'[h], q) =>
                  pc'[q] = "pool" /\ on[q] = h /\ using[q] = None /\ slot'[h] # q
  <2>1. CASE h = g
    BY <1>1, <1>2, <2>1
  <2>2. CASE h # g
    <3>1. ASSUME NEW q \in Queries, Holds(queue[h], q) PROVE q # slot[g]
      BY <1>0, <2>2, <3>1 DEF TInv, Posted, Waiting
    <3>2. QED
      BY <1>1, <2>2, <3>1 DEF TInv, Waiting
  <2>3. QED
    BY <2>1, <2>2
<1>5. QED
  BY <1>1, <1>3, <1>4 DEF Posted, Waiting

(* The pools of a thread that has ended.                                   *)
LEMMA GoneHolds ==
  ASSUME TInv, NEW g \in Runtimes, Gone(g), UNCHANGED <<on, snapshot>>
  PROVE  /\ Mapped' /\ PoolsStayClosable' /\ DoomedAlone'
         /\ \A p \in Queries : pool'[p] # "none" => pool[p] # "none"
         /\ \A p \in Queries : pool'[p] \in {"connecting", "doomed"} =>
              pool[p] \in {"connecting", "doomed"} /\ on[p] # g
<1>0. TypeOK /\ None \notin Queries
  BY NoneIsNoQuery DEF TInv
<1>1. /\ \A v \in Versions : pools'[g][v] = None
      /\ \A h \in Runtimes : h # g => pools'[h] = pools[h]
  BY <1>0 DEF Gone, TypeOK, NoPools
<1>2. \A p \in Queries :
        pool'[p] = IF on[p] = g /\ pool[p] \in {"connecting", "doomed", "open"}
                   THEN "closed" ELSE pool[p]
  BY DEF Gone
<1>3. Mapped'
  <2> SUFFICES ASSUME NEW h \in Runtimes, NEW w \in Versions, pools'[h][w] # None
               PROVE  /\ on[pools'[h][w]] = h /\ snapshot[pools'[h][w]] = w
                      /\ pool'[pools'[h][w]] \in {"connecting", "open"}
    BY DEF Mapped
  <2>1. h # g /\ pools'[h][w] = pools[h][w] /\ pools[h][w] \in Queries
    BY <1>0, <1>1 DEF TypeOK
  <2>2. QED
    BY <1>2, <2>1 DEF TInv, Mapped
<1>4. \A p \in Queries : pool[p] # "none" => on[p] \in Runtimes
  BY DEF TInv, Owned
<1>5. PoolsStayClosable' /\ DoomedAlone'
  BY <1>1, <1>2, <1>4 DEF TInv, PoolsStayClosable, DoomedAlone
<1>6. QED
  BY <1>2, <1>3, <1>5

LEMMA AnswerHolds ==
  ASSUME TInv, TypeOK', NEW q \in Queries, Answer(q)
  PROVE  TInv'
<1> DEFINE g == on[q]
           box == inbox[g]
<1>0. TypeOK /\ None \notin Queries
  BY NoneIsNoQuery DEF TInv
<1>1. /\ pc[q] = "pool" /\ using[q] # None /\ pool[using[q]] \in {"open", "closed", "failed"}
      /\ pc' = [pc EXCEPT ![q] = "done"] /\ NextQuery(g, box)
      /\ UNCHANGED <<runtime, closed, on, snapshot, pools, pool, using>>
  BY DEF Answer, pvars
<1>2. g \in Runtimes /\ slot[g] = q
  BY <1>1 DEF TInv, Owned
<1>3. box \in Seq(Queries \cup {CloseMessage}) /\ \A x \in Queries : ~Holds(box, x)
  BY <1>0, <1>1, <1>2 DEF TInv, TypeOK, Posted
<1>4. pc'[q] = "done" /\ \A p \in Queries : p # q => pc'[p] = pc[p]
  BY <1>0, <1>1 DEF TypeOK
<1> HIDE DEF g, box
<1>5. Posted' /\ Waiting' /\ \A h \in Runtimes : h # g => slot'[h] = slot[h]
  BY <1>1, <1>2, <1>3, <1>4, NextQueryHolds
<1>6. Owned'
  <2>1. pool[q] \notin {"connecting", "doomed"}
    BY <1>1 DEF TInv, Owned
  <2>2. ASSUME NEW p \in Queries, p # q, pc[p] = "pool", using[p] # None
        PROVE  slot'[on[p]] = p
    <3>1. on[p] \in Runtimes /\ slot[on[p]] = p
      BY <2>2 DEF TInv, Owned
    <3>2. QED
      BY <1>2, <1>5, <2>2, <3>1
  <2>3. QED
    BY <1>1, <1>4, <2>1, <2>2 DEF TInv, Owned
<1>7. Mapped' /\ PoolsStayClosable' /\ DoomedAlone'
  BY <1>1, PoolsStay
<1>8. QED
  BY <1>1, <1>5, <1>6, <1>7 DEF TInv, RuntimeInUse

LEMMA ThreadEndsHolds ==
  ASSUME TInv, TypeOK', NEW g \in Runtimes, ThreadEnds(g)
  PROVE  TInv'
<1>0. TypeOK /\ None \notin Queries
  BY NoneIsNoQuery DEF TInv
<1>1. /\ pc' = IF slot[g] = None THEN pc ELSE [pc EXCEPT ![slot[g]] = "done"]
      /\ NextQuery(g, <<>>) /\ Gone(g)
      /\ UNCHANGED <<runtime, closed, on, snapshot, using>>
  BY DEF ThreadEnds
<1>2. \A p \in Queries : IF p = slot[g] THEN pc'[p] = "done" ELSE pc'[p] = pc[p]
  BY <1>0, <1>1 DEF TypeOK
<1>3. <<>> \in Seq(Queries \cup {CloseMessage}) /\ \A x \in Queries : ~Holds(<<>>, x)
  BY EmptyHolds
<1>4. Posted' /\ Waiting' /\ \A h \in Runtimes : h # g => slot'[h] = slot[h]
  BY <1>1, <1>2, <1>3, NextQueryHolds
<1>5. /\ Mapped' /\ PoolsStayClosable' /\ DoomedAlone'
      /\ \A p \in Queries : pool'[p] # "none" => pool[p] # "none"
      /\ \A p \in Queries : pool'[p] \in {"connecting", "doomed"} =>
           pool[p] \in {"connecting", "doomed"} /\ on[p] # g
  BY <1>1, GoneHolds
<1>6. Owned'
  <2> SUFFICES ASSUME NEW p \in Queries
               PROVE  /\ pc'[p] \in {"new", "load", "read"} => using[p] = None
                      /\ pc'[p] = "pool" => /\ on[p] \in Runtimes /\ snapshot[p] \in Versions
                                            /\ using[p] # None => slot'[on[p]] = p
                      /\ pool'[p] # "none" => /\ on[p] \in Runtimes /\ snapshot[p] \in Versions
                                              /\ using[p] = p /\ pc'[p] \in {"pool", "done"}
                      /\ pool'[p] \in {"connecting", "doomed"} => pc'[p] = "pool"
    BY <1>1 DEF Owned
  <2>1. CASE p = slot[g]
    <3>1. pc[p] = "pool" /\ on[p] = g /\ pc'[p] = "done"
      BY <1>0, <1>2, <2>1 DEF TInv, Posted
    <3>2. QED
      BY <1>5, <3>1 DEF TInv, Owned
  <2>2. CASE p # slot[g]
    <3>1. pc'[p] = pc[p]
      BY <1>2, <2>2
    <3>2. QED
      BY <1>4, <1>5, <2>2, <3>1 DEF TInv, Owned
  <2>3. QED
    BY <2>1, <2>2
<1>7. QED
  BY <1>1, <1>4, <1>5, <1>6 DEF TInv, RuntimeInUse

(* shutdown finds the first runtime in use and the second one untouched.   *)
LEMMA CloseHolds ==
  ASSUME TInv, TypeOK', CloseRuntime
  PROVE  TInv'
<1>0. TypeOK /\ None \notin Queries
  BY NoneIsNoQuery DEF TInv
<1>1. runtime = 1 /\ 1 \in Runtimes /\ \A q \in Queries : on[q] # 2
  BY DEF CloseRuntime, TInv, RuntimeInUse, Runtimes
<1>2. /\ runtime' = NoPool /\ closed' = TRUE
      /\ pc' = [q \in Queries |-> IF pc[q] = "pool" THEN "done" ELSE pc[q]]
      /\ slot' = [slot EXCEPT ![1] = None] /\ queue' = [queue EXCEPT ![1] = <<>>]
      /\ inbox' = [inbox EXCEPT ![1] = <<>>]
      /\ Gone(1) /\ UNCHANGED <<on, snapshot, using>>
  BY <1>1 DEF CloseRuntime
<1>3. \A h \in Runtimes : h = 1 \/ h = 2
  BY DEF Runtimes
<1>4. /\ slot'[1] = None /\ queue'[1] = <<>> /\ inbox'[1] = <<>>
      /\ \A h \in Runtimes : h # 1 =>
           slot'[h] = slot[h] /\ queue'[h] = queue[h] /\ inbox'[h] = inbox[h]
  BY <1>0, <1>1, <1>2 DEF TypeOK
<1>5. ASSUME NEW h \in Runtimes, h # 1
      PROVE  /\ slot[h] = None
             /\ \A q \in Queries : ~Holds(queue[h], q) /\ ~Holds(inbox[h], q)
  <2>1. \A q \in Queries : on[q] # h
    BY <1>1, <1>3, <1>5
  <2>2. slot[h] = None
    BY <1>0, <2>1 DEF TInv, Posted, TypeOK
  <2>3. QED
    BY <1>0, <2>1, <2>2 DEF TInv, Posted, Waiting
<1>6. \A x : ~Holds(<<>>, x)
  BY EmptyHolds
<1>7. Only(<<>>, Queries) /\ Distinct(<<>>)
  BY EmptyHolds DEF Distinct
<1>8. Posted'
  <2> SUFFICES ASSUME NEW h \in Runtimes
               PROVE  /\ slot'[h] = None /\ Only(inbox'[h], Queries)
                      /\ \A q \in Queries : ~Holds(inbox'[h], q)
    BY DEF Posted
  <2>1. CASE h = 1
    BY <1>4, <1>6, <1>7, <2>1
  <2>2. CASE h # 1
    BY <1>4, <1>5, <2>2 DEF TInv, Posted
  <2>3. QED
    BY <2>1, <2>2
<1>9. Waiting'
  <2> SUFFICES ASSUME NEW h \in Runtimes
               PROVE  Distinct(queue'[h]) /\ \A q \in Queries : ~Holds(queue'[h], q)
    BY DEF Waiting
  <2>1. CASE h = 1
    BY <1>4, <1>6, <1>7, <2>1
  <2>2. CASE h # 1
    BY <1>4, <1>5, <2>2 DEF TInv, Waiting
  <2>3. QED
    BY <2>1, <2>2
<1>10. /\ Mapped' /\ PoolsStayClosable' /\ DoomedAlone'
       /\ \A p \in Queries : pool'[p] # "none" => pool[p] # "none"
       /\ \A p \in Queries : pool'[p] \in {"connecting", "doomed"} =>
            pool[p] \in {"connecting", "doomed"} /\ on[p] # 1
  BY <1>1, <1>2, GoneHolds
<1>11. Owned'
  <2>1. \A p \in Queries : pool'[p] \notin {"connecting", "doomed"}
    BY <1>1, <1>3, <1>10 DEF TInv, Owned
  <2>2. \A p \in Queries : pc'[p] = IF pc[p] = "pool" THEN "done" ELSE pc[p]
    BY <1>2
  <2>3. QED
    BY <1>2, <1>10, <2>1, <2>2 DEF TInv, Owned
<1>12. RuntimeInUse'
  BY <1>2 DEF RuntimeInUse, NoPool
<1>13. QED
  BY <1>8, <1>9, <1>10, <1>11, <1>12 DEF TInv

(* A request posts a close message at most.                                *)
LEMMA BeginKeepsThreads ==
  ASSUME TInv, TypeOK', NEW u \in Updates, NEW c \in Change, Begin(u, c)
  PROVE  TInv'
<1>0. TypeOK /\ CloseMessage \notin Queries
  BY NoneIsNoQuery DEF TInv
<1>1. UNCHANGED <<runtime, closed, pc, on, snapshot, slot, queue, pools, pool, using>>
  BY DEF Begin, pvars
<1>2. \A h \in Runtimes : /\ \A x \in Queries : Holds(inbox'[h], x) => Holds(inbox[h], x)
                          /\ Only(inbox'[h], Queries)
  <2>1. CASE inbox' = inbox
    BY <2>1 DEF TInv, Posted
  <2>2. CASE runtime \in Runtimes /\ inbox' = [inbox EXCEPT ![runtime] = Append(@, CloseMessage)]
    <3> DEFINE box == Append(inbox[runtime], CloseMessage)
    <3>1. inbox[runtime] \in Seq(Queries \cup {CloseMessage})
          /\ CloseMessage \in Queries \cup {CloseMessage} /\ Only(inbox[runtime], Queries)
      BY <1>0, <2>2 DEF TypeOK, TInv, Posted
    <3>2. Only(box, Queries) /\ \A x : Holds(box, x) <=> Holds(inbox[runtime], x) \/ x = CloseMessage
      BY <1>0, <3>1, AppendOnly
    <3>3. inbox' = [inbox EXCEPT ![runtime] = box]
      BY <2>2
    <3> HIDE DEF box
    <3>4. inbox'[runtime] = box /\ \A h \in Runtimes : h # runtime => inbox'[h] = inbox[h]
      BY <1>0, <2>2, <3>3 DEF TypeOK
    <3> TAKE h \in Runtimes
    <3>5. CASE h = runtime
      BY <1>0, <3>2, <3>4, <3>5
    <3>6. CASE h # runtime
      BY <3>4, <3>6 DEF TInv, Posted
    <3>7. QED
      BY <3>5, <3>6
  <2>3. QED
    BY <1>0, <2>1, <2>2 DEF Begin, Invalidate, CloseConnection, TypeOK
<1>3. Posted' /\ Waiting'
  BY <1>1, <1>2 DEF TInv, Posted, Waiting
<1>4. Owned'
  BY <1>1 DEF TInv, Owned
<1>5. Mapped' /\ PoolsStayClosable' /\ DoomedAlone'
  BY <1>1, PoolsStay
<1>6. QED
  BY <1>1, <1>3, <1>4, <1>5 DEF TInv, RuntimeInUse

-----------------------------------------------------------------------------
(* The types and the whole                                                 *)

(* One entry of one map changes.                                           *)
LEMMA EntryTypes ==
  ASSUME NEW S, NEW f \in [Runtimes -> [Versions -> S]], NEW g \in Runtimes, NEW v, NEW x \in S
  PROVE  [f EXCEPT ![g][v] = x] \in [Runtimes -> [Versions -> S]]
<1>1. [f[g] EXCEPT ![v] = x] \in [Versions -> S]
  OBVIOUS
<1>2. [f EXCEPT ![g] = [f[g] EXCEPT ![v] = x]] \in [Runtimes -> [Versions -> S]]
  BY <1>1
<1>3. QED
  BY <1>2

LEMMA ThreadTypesHold == TInv /\ Next => ThreadTypes'
<1> SUFFICES ASSUME TInv, Next PROVE ThreadTypes'
  OBVIOUS
<1>0. ThreadTypes /\ TypeOK /\ None \notin Queries
  BY AllTypes, NoneIsNoQuery DEF TInv
<1>1. \A g \in Runtimes : /\ queue[g] \in Seq(Queries)
                          /\ inbox[g] \in Seq(Queries \cup {CloseMessage})
  BY <1>0 DEF ThreadTypes
<1>2. CASE UNCHANGED <<slot, queue, inbox, pools, pool, using>>
  BY <1>0, <1>2 DEF ThreadTypes
<1>3. ASSUME NEW q \in Queries, NEW v, Submit(q, v), UNCHANGED pvars
      PROVE  ThreadTypes'
  <2> DEFINE g == GetDbWorkerPool
  <2>1. g \in Runtimes
    BY <1>0 DEF TypeOK, GetDbWorkerPool, Runtimes
  <2> HIDE DEF g
  <2>2. q \in Queries \cup {CloseMessage}
    OBVIOUS
  <2>3. /\ Append(queue[g], q) \in Seq(Queries)
        /\ Append(inbox[g], q) \in Seq(Queries \cup {CloseMessage})
    BY <1>1, <2>1, <2>2, AppendOnly
  <2>4. /\ slot' = slot \/ slot' = [slot EXCEPT ![g] = q]
        /\ inbox' = inbox \/ inbox' = [inbox EXCEPT ![g] = Append(inbox[g], q)]
        /\ queue' = queue \/ queue' = [queue EXCEPT ![g] = Append(queue[g], q)]
    BY <1>3 DEF Submit, g
  <2>5. slot' \in [Runtimes -> Queries \cup {None}]
    BY <1>0, <2>4 DEF ThreadTypes
  <2>6. queue' \in [Runtimes -> Seq(Queries)]
    BY <1>0, <2>3, <2>4 DEF ThreadTypes
  <2>7. inbox' \in [Runtimes -> Seq(Queries \cup {CloseMessage})]
    BY <1>0, <2>3, <2>4 DEF ThreadTypes
  <2>8. QED
    BY <1>0, <1>3, <2>5, <2>6, <2>7 DEF ThreadTypes, pvars
<1>4. ASSUME NEW g \in Runtimes, NEW q \in Queries, TakeQuery(g, q) PROVE ThreadTypes'
  <2>1. inbox' \in [Runtimes -> Seq(Queries \cup {CloseMessage})]
    BY <1>4, ReadMessage DEF TakeQuery
  <2>2. snapshot[q] \in Versions
    BY <1>4, TakeQueryFacts
  <2>3. CASE pools[g][snapshot[q]] # None
    <3>1. using' = [using EXCEPT ![q] = pools[g][snapshot[q]]] /\ UNCHANGED <<slot, queue, pools, pool>>
      BY <1>4, <2>3 DEF TakeQuery
    <3>2. pools[g][snapshot[q]] \in Queries \cup {None}
      BY <1>0, <2>2 DEF ThreadTypes
    <3>3. QED
      BY <1>0, <2>1, <3>1, <3>2 DEF ThreadTypes
  <2>4. CASE pools[g][snapshot[q]] = None
    <3>1. /\ using' = [using EXCEPT ![q] = q] /\ pools' = [pools EXCEPT ![g][snapshot[q]] = q]
          /\ pool' = [pool EXCEPT ![q] = "connecting"] /\ UNCHANGED <<slot, queue>>
      BY <1>4, <2>4 DEF TakeQuery
    <3>2. pools' \in [Runtimes -> [Versions -> Queries \cup {None}]]
      BY <1>0, <3>1, EntryTypes DEF ThreadTypes
    <3>3. QED
      BY <1>0, <2>1, <3>1, <3>2 DEF ThreadTypes
  <2>5. QED
    BY <2>3, <2>4
<1>5. ASSUME NEW g \in Runtimes, TakeClose(g) PROVE ThreadTypes'
  <2>1. inbox' \in [Runtimes -> Seq(Queries \cup {CloseMessage})]
    BY <1>5, ReadMessage DEF TakeClose
  <2>2. NoPools \in [Versions -> Queries \cup {None}]
    BY DEF NoPools
  <2>3. \A p \in Queries :
          Closing(pool[p]) \in {"none", "connecting", "doomed", "open", "closed", "failed"}
    BY DEF Closing
  <2>4. QED
    BY <1>0, <1>5, <2>1, <2>2, <2>3 DEF TakeClose, ThreadTypes
<1>6. ASSUME NEW p \in Queries, Connected(p) \/ ConnectFails(p) PROVE ThreadTypes'
  <2>1. pool' = [pool EXCEPT ![p] = "closed"] \/ pool' = [pool EXCEPT ![p] = "open"]
        \/ pool' = [pool EXCEPT ![p] = "failed"]
    BY <1>6 DEF Connected, ConnectFails, Connect
  <2>2. pools' = pools \/ pools' = [pools EXCEPT ![on[p]][snapshot[p]] = None]
    BY <1>6 DEF Connected, ConnectFails
  <2>3. pools' \in [Runtimes -> [Versions -> Queries \cup {None}]]
    <3>1. on[p] \in Runtimes
      BY <1>6 DEF Connected, ConnectFails, TInv, Owned
    <3>2. pools \in [Runtimes -> [Versions -> Queries \cup {None}]] /\ None \in Queries \cup {None}
      BY <1>0 DEF ThreadTypes
    <3>3. [pools EXCEPT ![on[p]][snapshot[p]] = None] \in [Runtimes -> [Versions -> Queries \cup {None}]]
      BY <3>1, <3>2, EntryTypes
    <3>4. QED
      BY <2>2, <3>2, <3>3
  <2>4. QED
    BY <1>0, <1>6, <2>1, <2>3 DEF Connected, ConnectFails, Connect, wvars, ThreadTypes
<1>7. ASSUME NEW g \in Runtimes, Gone(g)
      PROVE  /\ pools' \in [Runtimes -> [Versions -> Queries \cup {None}]]
             /\ pool' \in [Queries -> {"none", "connecting", "doomed", "open", "closed", "failed"}]
  BY <1>0, <1>7 DEF Gone, ThreadTypes, NoPools
<1>8. ASSUME NEW g \in Runtimes, NEW box \in Seq(Queries \cup {CloseMessage}),
             \A x \in Queries : ~Holds(box, x), NextQuery(g, box)
      PROVE  /\ slot' \in [Runtimes -> Queries \cup {None}]
             /\ queue' \in [Runtimes -> Seq(Queries)]
             /\ inbox' \in [Runtimes -> Seq(Queries \cup {CloseMessage})]
  BY <1>0, <1>8, NextQueryFacts DEF TInv, Waiting
<1>9. ASSUME NEW q \in Queries, Answer(q) PROVE ThreadTypes'
  <2>1. on[q] \in Runtimes /\ slot[on[q]] = q /\ using[q] # None
    BY <1>9 DEF Answer, TInv, Owned
  <2>2. \A x \in Queries : ~Holds(inbox[on[q]], x)
    BY <2>1 DEF TInv, Posted
  <2>3. /\ NextQuery(on[q], inbox[on[q]]) /\ UNCHANGED <<pools, pool, using>>
        /\ inbox[on[q]] \in Seq(Queries \cup {CloseMessage})
    BY <1>1, <1>9, <2>1 DEF Answer, pvars
  <2>4. /\ slot' \in [Runtimes -> Queries \cup {None}]
        /\ queue' \in [Runtimes -> Seq(Queries)]
        /\ inbox' \in [Runtimes -> Seq(Queries \cup {CloseMessage})]
    BY <1>8, <2>1, <2>2, <2>3
  <2>5. QED
    BY <1>0, <2>3, <2>4 DEF ThreadTypes
<1>10. ASSUME NEW g \in Runtimes, ThreadEnds(g) PROVE ThreadTypes'
  <2>1. <<>> \in Seq(Queries \cup {CloseMessage}) /\ \A x \in Queries : ~Holds(<<>>, x)
    BY EmptyHolds
  <2>2. NextQuery(g, <<>>) /\ Gone(g) /\ UNCHANGED using
    BY <1>10 DEF ThreadEnds
  <2>3. /\ slot' \in [Runtimes -> Queries \cup {None}]
        /\ queue' \in [Runtimes -> Seq(Queries)]
        /\ inbox' \in [Runtimes -> Seq(Queries \cup {CloseMessage})]
    BY <1>8, <2>1, <2>2
  <2>4. /\ pools' \in [Runtimes -> [Versions -> Queries \cup {None}]]
        /\ pool' \in [Queries -> {"none", "connecting", "doomed", "open", "closed", "failed"}]
    BY <1>7, <2>2
  <2>5. QED
    BY <1>0, <2>2, <2>3, <2>4 DEF ThreadTypes
<1>11. CASE CloseRuntime
  <2>1. runtime \in Runtimes
    BY <1>11 DEF CloseRuntime, TInv, RuntimeInUse, Runtimes
  <2>2. <<>> \in Seq(Queries) /\ <<>> \in Seq(Queries \cup {CloseMessage})
    BY EmptyHolds
  <2>3. /\ pools' \in [Runtimes -> [Versions -> Queries \cup {None}]]
        /\ pool' \in [Queries -> {"none", "connecting", "doomed", "open", "closed", "failed"}]
    BY <1>7, <1>11, <2>1 DEF CloseRuntime
  <2>4. /\ slot' = [slot EXCEPT ![runtime] = None] /\ queue' = [queue EXCEPT ![runtime] = <<>>]
        /\ inbox' = [inbox EXCEPT ![runtime] = <<>>] /\ UNCHANGED using
    BY <1>11 DEF CloseRuntime
  <2>5. QED
    BY <1>0, <2>1, <2>2, <2>3, <2>4 DEF ThreadTypes
<1>12. ASSUME NEW u \in Updates, NEW c \in Change, Begin(u, c) PROVE ThreadTypes'
  <2>1. inbox' = inbox \/ inbox' = [inbox EXCEPT ![runtime] = Append(inbox[runtime], CloseMessage)]
    BY <1>12 DEF Begin, Invalidate, CloseConnection
  <2>2. runtime \in Runtimes =>
          Append(inbox[runtime], CloseMessage) \in Seq(Queries \cup {CloseMessage})
    BY <1>1, AppendOnly
  <2>3. inbox' \in [Runtimes -> Seq(Queries \cup {CloseMessage})]
    BY <1>0, <2>1, <2>2 DEF ThreadTypes
  <2>4. QED
    BY <1>0, <1>12, <2>3 DEF Begin, pvars, ThreadTypes
<1>13. QED
  BY <1>2, <1>3, <1>4, <1>5, <1>6, <1>9, <1>10, <1>11, <1>12
     DEF Next, QueryStep, Hit, Return, Miss, Read, ReturnError, Write, wvars, pvars

LEMMA TStep == IInv /\ TInv /\ [Next]_vars => TInv'
<1> SUFFICES ASSUME IInv, TInv, [Next]_vars PROVE TInv'
  OBVIOUS
<1>1. CASE UNCHANGED vars
  BY <1>1 DEF vars, dbvars, cachevars, qvars, wvars, pvars, TInv, TypeOK, Posted, Waiting, Owned,
              Mapped, PoolsStayClosable, DoomedAlone, RuntimeInUse
<1>2. CASE Next
  <2>1. TypeOK'
    BY <1>2, StepHolds, ThreadTypesHold, AllTypes DEF IInv, Types, ThreadTypes, TypeOK
  <2>2. None \notin Versions /\ TypeOK
    BY NoneIsNoVersion DEF TInv
  <2>3. ASSUME NEW q \in Queries, Hit(q) PROVE TInv'
    <3>1. cache \in Versions /\ pc[q] \in {"new", "read"} /\ Submit(q, cache)
          /\ UNCHANGED <<closed, pools, pool, using>>
      BY <2>2, <2>3 DEF Hit, TypeOK, pvars
    <3>2. QED
      BY <2>1, <3>1, SubmitHolds
  <2>4. ASSUME NEW q \in Queries, Return(q) PROVE TInv'
    <3>1. snapshot[q] \in Versions /\ pc[q] \in {"new", "read"} /\ Submit(q, snapshot[q])
          /\ UNCHANGED <<closed, pools, pool, using>>
      BY <2>2, <2>4 DEF Return, TypeOK, pvars
    <3>2. QED
      BY <2>1, <3>1, SubmitHolds
  <2>5. ASSUME NEW u \in Updates, Write(u) PROVE TInv'
    BY <2>1, <2>5 DEF Write, qvars, wvars, pvars, TInv, Posted, Waiting, Owned,
                      Mapped, PoolsStayClosable, DoomedAlone, RuntimeInUse
  <2>6. QED
    BY <1>2, <2>1, <2>3, <2>4, <2>5, LoadHolds, TakeQueryHolds, TakeCloseHolds, ConnectHolds,
       AnswerHolds, ThreadEndsHolds, CloseHolds, BeginKeepsThreads DEF Next, QueryStep
<1>3. QED
  BY <1>1, <1>2

LEMMA ThreadInvariance == Spec => []TInv
BY InitHolds, StepHolds, TInit, TStep, PTL DEF Spec

(* Every variable keeps its type.                                          *)
THEOREM TypeCorrect == Spec => []TypeOK
<1>1. TInv => TypeOK
  BY DEF TInv
<1>2. QED
  BY <1>1, ThreadInvariance, PTL

(* Every MSSQL pool that is open or connecting is in the map of its thread *)
(* under its key, where closeConnectionPools finds it: none leaks while    *)
(* updates close, connects fail and threads end in any order.              *)
THEOREM NoPoolLeaks == Spec => []PoolsStayClosable
<1>1. TInv => PoolsStayClosable
  BY DEF TInv
<1>2. QED
  BY <1>1, ThreadInvariance, PTL

(* The map offers live pools only, and the catch of a failed connect,      *)
(* which deletes by key, takes out no other pool: the query that made the  *)
(* pool keeps its thread until it has connected.                           *)
THEOREM MapIsLive == Spec => []MapHasLivePools
BY TInvImplies, ThreadInvariance, PTL
=============================================================================

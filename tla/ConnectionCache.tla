--------------------------- MODULE ConnectionCache ---------------------------
(***************************************************************************)
(* src/db-service.ts, closeConnection of src/db-worker-pool.ts and the map *)
(* of MSSQL pools in src/db-query-worker.ts, for one connection code: what *)
(* becomes of a query's connection while operators change, disable, delete *)
(* or recreate the saved row and the query runtime is closed.              *)
(*                                                                         *)
(* The row has a version, which stands for its connection string.  A load  *)
(* is two steps: the row is read, and later the handler goes on with what  *)
(* was read.  One action is one handler up to its next await, or one       *)
(* message or promise of the worker thread.                                *)
(*                                                                         *)
(* Abstracted: other codes (their cache entries and pool keys are apart),  *)
(* the query and its result, time (an entry may have expired whenever it   *)
(* is looked at), and of DbWorkerPool, which is the module of that name,   *)
(* all but one thread per runtime, its queue and the one query at a time   *)
(* it gives it.  External: the row (SQLite) and the MSSQL driver.          *)
(***************************************************************************)
EXTENDS Integers, Sequences

CONSTANTS
  Queries,     \* calls of querySavedConnection
  Updates,     \* requests that change the row
  MaxVersion,  \* bound: connection strings
  None

ASSUME MaxVersionAssumption == MaxVersion \in Nat \ {0}
ASSUME NoneAssumption == None \notin Queries \cup (0..MaxVersion)

VARIABLES
  row,       \* the saved connection: status and version of its string
  cache,     \* connectionCache: the version of the cached row, or None
  raced,     \* the cached row was loaded during an update (history)
  runtime,   \* dbWorkerPool: 1 until the runtime is closed, then 2, or NoPool
  closed,    \* closeDbQueryRuntime was called
  update,    \* update[u]: what request u is about to write, see Change
  pc,        \* pc[q]: where query q is
  overlap,   \* overlap[q]: q's load overlapped an update (history)
  snapshot,  \* snapshot[q]: the version q has, or None
  on,        \* on[q]: the runtime q was given to, or NoPool
  slot,      \* slot[g]: the query the thread of runtime g has, or None
  queue,     \* queue[g]: the queries that wait for it
  inbox,     \* inbox[g]: messages posted to the thread
  pools,     \* pools[g][v]: the query that made the MSSQL pool in the map
  pool,      \* pool[p]: the MSSQL pool that query p made
  using      \* using[q]: the maker of the pool q awaits or uses, or None

dbvars == <<row, update>>
cachevars == <<cache, raced>>
qvars == <<pc, overlap, snapshot, on>>
wvars == <<slot, queue, inbox>>
pvars == <<pools, pool, using>>
vars == <<dbvars, cachevars, runtime, closed, qvars, wvars, pvars>>

Runtimes == {1, 2}
NoPool == 0
Versions == 1..MaxVersion
Change == {"rotate", "disable", "enable", "delete", "create"}
CloseMessage == "closeConnection"

(* A message of the thread is a query or closeConnection, told by its type *)
ASSUME CloseMessageAssumption == CloseMessage \notin Queries

TypeOK ==
  /\ row \in [status : {"active", "inactive", "absent"}, version : Versions]
  /\ cache \in Versions \cup {None}
  /\ raced \in BOOLEAN
  /\ runtime \in Runtimes \cup {NoPool}
  /\ closed \in BOOLEAN
  /\ update \in [Updates -> {"new", "done"} \cup Change]
  /\ pc \in [Queries -> {"new", "load", "read", "pool", "done"}]
  /\ overlap \in [Queries -> BOOLEAN]
  /\ snapshot \in [Queries -> Versions \cup {None}]
  /\ on \in [Queries -> Runtimes \cup {NoPool}]
  /\ slot \in [Runtimes -> Queries \cup {None}]
  /\ queue \in [Runtimes -> Seq(Queries)]
  /\ inbox \in [Runtimes -> Seq(Queries \cup {CloseMessage})]
  /\ pools \in [Runtimes -> [Versions -> Queries \cup {None}]]
  /\ pool \in [Queries -> {"none", "connecting", "doomed", "open", "closed", "failed"}]
  /\ using \in [Queries -> Queries \cup {None}]

NoPools == [v \in Versions |-> None]

(* configureDbQueryRuntime has run and a connection is saved.              *)
Init ==
  /\ row = [status |-> "active", version |-> 1]
  /\ cache = None
  /\ raced = FALSE
  /\ runtime = 1
  /\ closed = FALSE
  /\ update = [u \in Updates |-> "new"]
  /\ pc = [q \in Queries |-> "new"]
  /\ overlap = [q \in Queries |-> FALSE]
  /\ snapshot = [q \in Queries |-> None]
  /\ on = [q \in Queries |-> NoPool]
  /\ slot = [g \in Runtimes |-> None]
  /\ queue = [g \in Runtimes |-> <<>>]
  /\ inbox = [g \in Runtimes |-> <<>>]
  /\ pools = [g \in Runtimes |-> NoPools]
  /\ pool = [q \in Queries |-> "none"]
  /\ using = [q \in Queries |-> None]

-----------------------------------------------------------------------------
(* querySavedConnection                                                    *)

(* getDbWorkerPool replaces a closed runtime.                              *)
GetDbWorkerPool == IF runtime = NoPool THEN 2 ELSE runtime

(* The query of q with version v: a free thread gets it, else it waits.    *)
\* Mistake: every query is posted at once.
SubmitToBusyThread(q, v) ==
  LET g == GetDbWorkerPool
  IN  /\ runtime' = g
      /\ on' = [on EXCEPT ![q] = g]
      /\ snapshot' = [snapshot EXCEPT ![q] = v]
      /\ pc' = [pc EXCEPT ![q] = "pool"]
      /\ slot' = [slot EXCEPT ![g] = q]
      /\ inbox' = [inbox EXCEPT ![g] = Append(@, q)]
      /\ UNCHANGED queue

Submit(q, v) ==
  LET g == GetDbWorkerPool
      free == slot[g] = None
  IN  /\ runtime' = g
      /\ on' = [on EXCEPT ![q] = g]
      /\ snapshot' = [snapshot EXCEPT ![q] = v]
      /\ pc' = [pc EXCEPT ![q] = "pool"]
      /\ slot' = IF free THEN [slot EXCEPT ![g] = q] ELSE slot
      /\ inbox' = IF free THEN [inbox EXCEPT ![g] = Append(@, q)] ELSE inbox
      /\ queue' = IF free THEN queue ELSE [queue EXCEPT ![g] = Append(@, q)]

(* loadActiveConnectionCached finds an entry that has not expired.         *)
Hit(q) ==
  /\ pc[q] = "new"
  /\ cache # None
  /\ Submit(q, cache)
  /\ UNCHANGED <<dbvars, cachevars, closed, overlap, pvars>>

UnderWay(u) == update[u] \notin {"new", "done"}

(* No entry, or one that has expired: loadConnection is called.            *)
Miss(q) ==
  /\ pc[q] = "new"
  /\ pc' = [pc EXCEPT ![q] = "load"]
  /\ overlap' = [overlap EXCEPT ![q] = \E u \in Updates : UnderWay(u)]
  /\ UNCHANGED <<dbvars, cachevars, runtime, closed, snapshot, on, wvars, pvars>>

(* The store reads the row for findUnique.                                 *)
Read(q) ==
  /\ pc[q] = "load"
  /\ pc' = [pc EXCEPT ![q] = "read"]
  /\ snapshot' = [snapshot EXCEPT ![q] = IF row.status = "active" THEN row.version ELSE None]
  /\ UNCHANGED <<dbvars, cachevars, runtime, closed, overlap, on, wvars, pvars>>

(* What was read is cached, whatever has happened since, and used.         *)
Return(q) ==
  /\ pc[q] = "read"
  /\ snapshot[q] # None
  /\ cache' = snapshot[q]
  /\ raced' = overlap[q]
  /\ Submit(q, snapshot[q])
  /\ UNCHANGED <<dbvars, closed, overlap, pvars>>

(* The row was missing or inactive, or the store failed.                   *)
ReturnError(q) ==
  /\ pc[q] = "read"
  /\ pc' = [pc EXCEPT ![q] = "done"]
  /\ UNCHANGED <<dbvars, cachevars, runtime, closed, overlap, snapshot, on, wvars, pvars>>

-----------------------------------------------------------------------------
(* updateConnection, deleteConnection, createConnection                    *)

LoadsMeet == overlap' = [q \in Queries |-> overlap[q] \/ pc[q] \in {"load", "read"}]

(* closeConnection: every live thread gets the message, busy or not.       *)
CloseConnection ==
  inbox' = IF runtime = NoPool THEN inbox
           ELSE [inbox EXCEPT ![runtime] = Append(@, CloseMessage)]

(* invalidateConnection                                                    *)
Invalidate ==
  /\ cache' = None
  /\ raced' = FALSE
  /\ CloseConnection

(* A request up to the await of its write.  createConnection invalidates   *)
(* nothing: there was no row to cache.                                     *)
\* Mistake: changing "active" alone does not invalidate.
BeginInvalidatingRotations(u, c) ==
  /\ update[u] = "new"
  /\ update' = [update EXCEPT ![u] = c]
  /\ IF c \in {"rotate", "delete"} THEN Invalidate ELSE UNCHANGED <<cachevars, inbox>>
  /\ LoadsMeet
  /\ UNCHANGED <<row, runtime, closed, pc, snapshot, on, slot, queue, pvars>>

Begin(u, c) ==
  /\ update[u] = "new"
  /\ update' = [update EXCEPT ![u] = c]
  /\ IF c = "create" THEN UNCHANGED <<cachevars, inbox>> ELSE Invalidate
  /\ LoadsMeet
  /\ UNCHANGED <<row, runtime, closed, pc, snapshot, on, slot, queue, pvars>>

(* The write.  A row that must exist and does not, or the other way round, *)
(* is an error; so is one more version than the bound.                     *)
Changed(c) ==
  CASE c = "rotate" /\ row.status # "absent" /\ row.version < MaxVersion ->
         [row EXCEPT !.version = @ + 1]
    [] c = "create" /\ row.status = "absent" /\ row.version < MaxVersion ->
         [status |-> "active", version |-> row.version + 1]
    [] c = "disable" /\ row.status # "absent" -> [row EXCEPT !.status = "inactive"]
    [] c = "enable" /\ row.status # "absent" -> [row EXCEPT !.status = "active"]
    [] c = "delete" -> [row EXCEPT !.status = "absent"]
    [] OTHER -> row

Write(u) ==
  /\ UnderWay(u)
  /\ row' = Changed(update[u])
  /\ update' = [update EXCEPT ![u] = "done"]
  /\ UNCHANGED <<cachevars, runtime, closed, qvars, wvars, pvars>>

(* All MSSQL pools of a thread end with it.                                *)
Gone(g) ==
  /\ pools' = [pools EXCEPT ![g] = NoPools]
  /\ pool' = [p \in Queries |-> IF on[p] = g /\ pool[p] \in {"connecting", "doomed", "open"}
                                THEN "closed" ELSE pool[p]]

(* closeDbQueryRuntime, called once by shutdown: queued queries are        *)
(* refused, the thread is terminated with the query it has.                *)
\* Mistake: the variable is reset after the await of close().
CloseKeepsRuntime ==
  /\ ~closed
  /\ closed' = TRUE
  /\ cache' = None
  /\ raced' = FALSE
  /\ pc' = [q \in Queries |-> IF pc[q] = "pool" THEN "done" ELSE pc[q]]
  /\ slot' = [slot EXCEPT ![runtime] = None]
  /\ queue' = [queue EXCEPT ![runtime] = <<>>]
  /\ inbox' = [inbox EXCEPT ![runtime] = <<>>]
  /\ Gone(runtime)
  /\ UNCHANGED <<dbvars, runtime, overlap, snapshot, on, using>>

CloseRuntime ==
  /\ ~closed
  /\ closed' = TRUE
  /\ cache' = None
  /\ raced' = FALSE
  /\ runtime' = NoPool
  /\ pc' = [q \in Queries |-> IF pc[q] = "pool" THEN "done" ELSE pc[q]]
  /\ slot' = [slot EXCEPT ![runtime] = None]
  /\ queue' = [queue EXCEPT ![runtime] = <<>>]
  /\ inbox' = [inbox EXCEPT ![runtime] = <<>>]
  /\ Gone(runtime)
  /\ UNCHANGED <<dbvars, overlap, snapshot, on, using>>

-----------------------------------------------------------------------------
(* The worker thread                                                       *)

(* getPool of query q: the pool in the map, or a new one.                  *)
TakeQuery(g, q) ==
  LET v == snapshot[q]
  IN  /\ inbox[g] # <<>> /\ Head(inbox[g]) = q
      /\ inbox' = [inbox EXCEPT ![g] = Tail(@)]
      /\ IF pools[g][v] # None
         THEN /\ using' = [using EXCEPT ![q] = pools[g][v]]
              /\ UNCHANGED <<pools, pool>>
         ELSE /\ using' = [using EXCEPT ![q] = q]
              /\ pools' = [pools EXCEPT ![g][v] = q]
              /\ pool' = [pool EXCEPT ![q] = "connecting"]
      /\ UNCHANGED <<dbvars, cachevars, runtime, closed, qvars, slot, queue>>

InMap(g, p) == \E v \in Versions : pools[g][v] = p
Closing(s) == IF s = "connecting" THEN "doomed" ELSE "closed"

(* closeConnectionPools: pools leave the map and are closed, those that    *)
(* still connect once they have.                                           *)
\* Mistake: close() is not called on a pool that is still connecting.
TakeCloseOpenOnly(g) ==
  /\ inbox[g] # <<>> /\ Head(inbox[g]) = CloseMessage
  /\ inbox' = [inbox EXCEPT ![g] = Tail(@)]
  /\ pools' = [pools EXCEPT ![g] = NoPools]
  /\ pool' = [p \in Queries |-> IF InMap(g, p) /\ pool[p] = "open" THEN "closed" ELSE pool[p]]
  /\ UNCHANGED <<dbvars, cachevars, runtime, closed, qvars, slot, queue, using>>

TakeClose(g) ==
  /\ inbox[g] # <<>> /\ Head(inbox[g]) = CloseMessage
  /\ inbox' = [inbox EXCEPT ![g] = Tail(@)]
  /\ pools' = [pools EXCEPT ![g] = NoPools]
  /\ pool' = [p \in Queries |-> IF InMap(g, p) THEN Closing(pool[p]) ELSE pool[p]]
  /\ UNCHANGED <<dbvars, cachevars, runtime, closed, qvars, slot, queue, using>>

Connect(p, s) ==
  /\ pool' = [pool EXCEPT ![p] = s]
  /\ UNCHANGED <<dbvars, cachevars, runtime, closed, qvars, wvars, using>>

Connected(p) ==
  /\ pool[p] \in {"connecting", "doomed"}
  /\ Connect(p, IF pool[p] = "doomed" THEN "closed" ELSE "open")
  /\ UNCHANGED pools

(* The catch of getPool deletes the key, whoever has it by now.            *)
ConnectFails(p) ==
  /\ pool[p] \in {"connecting", "doomed"}
  /\ Connect(p, "failed")
  /\ pools' = [pools EXCEPT ![on[p]][snapshot[p]] = None]

(* The slot of g is free: the head of the queue is posted next.            *)
NextQuery(g, box) ==
  IF queue[g] = <<>>
  THEN /\ slot' = [slot EXCEPT ![g] = None]
       /\ inbox' = [inbox EXCEPT ![g] = box]
       /\ UNCHANGED queue
  ELSE /\ slot' = [slot EXCEPT ![g] = Head(queue[g])]
       /\ inbox' = [inbox EXCEPT ![g] = Append(box, Head(queue[g]))]
       /\ queue' = [queue EXCEPT ![g] = Tail(@)]

(* The query ends with its pool's promise failed, an error or a result.    *)
Answer(q) ==
  /\ pc[q] = "pool"
  /\ using[q] # None
  /\ pool[using[q]] \in {"open", "closed", "failed"}
  /\ pc' = [pc EXCEPT ![q] = "done"]
  /\ NextQuery(on[q], inbox[on[q]])
  /\ UNCHANGED <<dbvars, cachevars, runtime, closed, overlap, snapshot, on, pvars>>

(* The thread exits, of itself or terminated by the run timer of its       *)
(* query, which fails; a new one gets the next query.                      *)
ThreadEnds(g) ==
  /\ g = runtime
  /\ pc' = IF slot[g] = None THEN pc ELSE [pc EXCEPT ![slot[g]] = "done"]
  /\ NextQuery(g, <<>>)
  /\ Gone(g)
  /\ UNCHANGED <<dbvars, cachevars, runtime, closed, overlap, snapshot, on, using>>

-----------------------------------------------------------------------------

QueryStep(q) ==
  \/ Hit(q) \/ Miss(q) \/ Read(q) \/ Return(q) \/ ReturnError(q)
  \/ Connected(q) \/ ConnectFails(q) \/ Answer(q)
  \/ \E g \in Runtimes : TakeQuery(g, q)

Next ==
  \/ \E q \in Queries : QueryStep(q)
  \/ \E u \in Updates : Write(u) \/ \E c \in Change : Begin(u, c)
  \/ \E g \in Runtimes : TakeClose(g) \/ ThreadEnds(g)
  \/ CloseRuntime

Spec == Init /\ [][Next]_vars

-----------------------------------------------------------------------------
(* Properties                                                              *)

Stale == cache # None /\ ~(row.status = "active" /\ row.version = cache)

(* A replaced, disabled or deleted connection is served from the cache     *)
(* only if its load met an update: after an update that met no load every  *)
(* query gets what was written (db-service.ts:154, :245).                  *)
StaleOnlyByRace == Stale => raced

(* Every MSSQL pool that is open or connecting can still be closed: it is  *)
(* in the map of its thread under its key, or closes as soon as it has     *)
(* connected (db-query-worker.ts:161).                                     *)
PoolsStayClosable ==
  \A p \in Queries : pool[p] \in {"connecting", "open"} => pools[on[p]][snapshot[p]] = p

(* The map offers no query a pool that failed or was closed, and the catch *)
(* of a failed connect, which deletes by key, takes out no other pool      *)
(* (db-query-worker.ts:114).                                               *)
MapHasLivePools ==
  /\ \A g \in Runtimes, v \in Versions :
       pools[g][v] # None => pool[pools[g][v]] \in {"connecting", "open"}
  /\ \A p \in Queries :
       pool[p] = "doomed" => pools[on[p]][snapshot[p]] = None

(* No query is given to a runtime that is closing, which would refuse it,  *)
(* not even while close() is awaited: it gets a new one                    *)
(* (db-service.ts:77, :285).                                               *)
QueriesGetAnOpenRuntime ==
  \A q \in Queries : pc[q] = "pool" /\ closed => on[q] = 2
=============================================================================

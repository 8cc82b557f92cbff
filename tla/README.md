# Verification of deno-worker

deno-worker is an HTTP service that executes user-supplied TypeScript in a pool
of long-lived Deno processes, stores code versions and job records in SQLite,
and lets running code query saved SQL connections through a pool of worker
threads.  This directory models the parts of it that are concurrent: TLA+
modules translated from the source, TLC configurations that check them on
small instances, and TLAPS proofs of what matters most.

Paths below are relative to the repository (`src/deno-pool.ts` is the server's
pool, `deno/runner.ts` the Deno process).

## 1. The system

    HTTP /run ──> RunService.run ──> code-versions ──> SQLite (CodeVersion)
                        │      └───> job-records  ──> SQLite (JobRecord)
                        └──> DenoPool.run ──> DenoRunnerProcess ×N ──stdin/stdout──> deno/runner.ts ──> user-worker.ts
                                                    │  db.query lines
                                                    └──> db-service ──> DbWorkerPool ──> db-query-worker.ts ×M ──> MSSQL
    HTTP /api/... ──> workspace-api ──> SQLite (workspaces, versions, CodeJob) ──> RunService.run

| Component | State | Operations and events | Hard because | Correct when |
| --- | --- | --- | --- | --- |
| `DenoRunnerProcess` (deno-pool.ts:22-410) | `child`, `alive`, `idle`, `current`, `stopping`, `restartTimer`, `stdoutBuffer` | start, run, stop, reserve, releaseReservation, kill; stdout data, exit, error, stdin failure, parent timer, restart timer | five ways to settle one promise; a runner restarts under calls that hold it | it is never lost to the pool, its answer goes to the job it belongs to |
| `DenoPool` (412-592) | `runners`, `pending`, `closing` | run, drain, close, queue timer, onStart callback | reservation is kept over an await; drain is re-entrant | queue order, no waiting while a runner is idle, every call returns (one path of the code breaks this, 2.1), shutdown is final |
| `RunService` + job records | JobRecord rows | find/create/requeue, markJobRunning, finish, fail, recover at startup | find-then-write without a transaction, store errors, crash between statements | records settle, ended records are consistent, a reply is about the request |
| Code versions | CodeVersion rows, in-memory Map | saveCodeVersion, loadCodeVersion | cache check and use around awaits | bound kept, no stale code |
| `DbWorkerPool` | slots, queue, `closing` | query, close, closeConnection, message, exit, run timer, queue timer, restart timer | `terminate()` is asynchronous; timeout hands over the slot first | queries settle, queue bounded, answers not mixed up |
| Connection cache (db-service.ts) | `connectionCache`, `dbWorkerPool` | query, create, update, delete, close | invalidation before the write, loads in flight | a replaced connection is served only when its load raced the update |
| Query worker (db-query-worker.ts) | map of MSSQL pool promises | getPool, closeConnectionPools, closeAll | a pool is closed while it connects; a failed connect deletes by key | every live pool can still be closed, no dead one is offered |
| Runner and sandbox (deno/) | `sandbox`, `running`, pending db responses | runJob, main, db query round trip | sandbox reused between jobs, user code posts messages, two timers per query | one job at a time unless user code posts messages, a response reaches only the worker that asked, every job settles |
| Code jobs (workspace-api.ts:625-867) | CodeJob, CodeJobLog, CodeWorker rows | create, control, execute, retry | operators and executors write the same row; executors are in memory only | a queued job has somebody to run it, attempts bounded, what a cancel promises |
| Workspaces (workspace-api.ts:95-460, 1120-1260) | workspace and version rows, bundles in a version's meta | create, save draft, publish, save and build bundles | transaction after an unprotected check; drafts and bundles write one meta | versions without a gap, one version per client id, no bundle lost |
| Logger | `logQueue`, `drainPromise` | enqueue, drain, flush | one drain at a time, queue cut while draining | order kept, flush ends |
| app, config, validation, build, OpenAPI, errors | none of their own | | | not modelled: pure or glue |

The list of what can go wrong in this code and a test would hardly reach, at
the line where it bites and with the properties that cover it, is the
"hazards" of PROJECT.json.

## 2. Modules

| Module | Models | Checked by | Proved in |
| --- | --- | --- | --- |
| `PoolContract` | what `DenoPool.run` promises its caller | `KeepsContract` | `DenoPoolProofs` |
| `DenoPool` | deno-pool.ts | `MCDenoPool` | `DenoPoolProofs` |
| `RunnerProtocol` | deno/runner.ts, deno/user-worker.ts, and the pipe side of deno-pool.ts (`handleDbQuery`, `consumeStdout`) | `MCRunnerProtocol` | `RunnerProtocolProofs` |
| `JobLifecycle` | run-service.ts, store/job-records.ts, startup of server.ts | `MCJobLifecycle` | `JobLifecycleProofs` |
| `CodeVersions` | store/code-versions.ts | `MCCodeVersions` | `CodeVersionsProofs` |
| `DbWorkerPool` | db-worker-pool.ts | `MCDbWorkerPool` | `DbWorkerPoolProofs` |
| `ConnectionCache` | db-service.ts, db-query-worker.ts, `closeConnection` of db-worker-pool.ts | `MCConnectionCache` | `ConnectionCacheProofs` |
| `WorkspaceVersions` | the workspace, version and bundle routes of workspace-api.ts | with `CodeJobs` | `CodeJobsProofs` |
| `CodeJobs` | the code job routes and executor of workspace-api.ts, over `WorkspaceVersions` | `MCCodeJobs` | `CodeJobsProofs` |
| `QueueLemmas` | facts about queues without duplicates, and channels where some messages occur once | | itself |

`PoolContract` is where two components meet.  `DenoPool` implements it
(`KeepsContract`, an INSTANCE with a refinement mapping of the call states), and
`JobLifecycle`, which composes the record store with the pool, uses the pool
through the same contract instead of its runners: each of its pool actions
moves the call along one edge of the contract (`PoolMoves`).

`DenoPool` and `RunnerProtocol` are two views of one pipe.  `DenoPool` has many
runners and takes a child for something that answers, one way or another, or not
(`exec`, `DropCall`);
`RunnerProtocol` has one child and what happens in it.  `CodeJobs` extends
`WorkspaceVersions`: jobs read the bundles the other routes write, from the
same rows.  `ConnectionCache` composes three parts of the query path (service,
pool, worker thread) around the one thing they share, a connection that
changes; of the pool it keeps one thread, since `DbWorkerPool` has the rest.

Operators marked "Mistake" are variants of the definition that follows: a
dropped guard, a missing reset, an off-by-one.  No specification uses them;
replacing the definition by the variant must break the property named in
PROJECT.json "mutants", which shows that the property depends on that code.

### 2.1 DenoPool

One action is one Node event handler with everything it calls synchronously
and the promise continuations that follow before the next event.  So an answer
that frees a runner (`finishCurrent`) also settles its job and starts the head
of the queue (`drain`) in the same step.  The `await options.onStart` of
`startOnRunner` is the one place where a call waits for something outside the
process while it holds a runner: it splits a start into `RunStarted` (or the
dispatch in `Drain`) and `StartResolved` / `StartRejected`.

| State | Code |
| --- | --- |
| `child[r]` "up", "killed", "exited", "lost" | `alive` and what the child is doing: running, signalled with its exit event to come, exited, spawn failed |
| `idle`, `current`, `stopping`, `restart` | the fields of the same name, `restartTimer` set |
| `pending`, `close` | `pending`, `closing` and the progress of `close()` |
| `job[j]`, `on[j]` | where the call `run(j)` is, and the `runner` in the closure of its `startOnRunner` |
| `exec[r]`, `late[r]` | external: what the child is working on, and what a dead child wrote that has not been read |
| `respawned`, `answer` | history for the properties |

| Action | Code |
| --- | --- |
| `RunRefused`, `RunStarted`, `RunQueued` | `DenoPool.run` |
| `QueueTimeout` | the queue timer |
| `StartResolved`, `StartRejected` | `startOnRunner` after onStart, `DenoRunnerProcess.run`, `releaseReservation` |
| `Answer`, `LateAnswer` | stdout data, `consumeStdout`, `finishCurrent` |
| `ParentTimeout`, `StreamBroken` | parent timer; buffer overflow, unparsable line, failed write |
| `Exit`, `Restart` | exit event, restart timer and `start()`, with a spawn that may fail |
| `Close`, `CloseEnds` | `close()` before and after its polling |

`DropCall` is the one path on which a call is not settled.  A line that bears
the jobId of the current job is its result, whoever wrote it: user code knows
`ctx.jobId` and the runner passes on what it posts (deno/runner.ts:194).  If
such a line has no `logs`, `finishCurrent` throws at deno-pool.ts:390, after it
has cleared the timer and `current` and set `idle`, and before it resolves the
promise and calls `onStateChange`.  The catch of `consumeStdout` finds no current
job and kills the child.  The call never returns ("dropped"), and until the
exit event the runner looks idle to `run()`, although the pool was not told.
`WorkConserving`, `ReservationExclusive` and `FirstComeFirstStarted` name the
runner in that window (`Dropping`), `OnlyDroppedCallsHang` says that no other
path leaves a promise behind, and the records of such calls are in JobLifecycle
(`RunnerDrops`).

`Drain` is the whole loop of `drain()`: it serves as many waiting calls as there
are idle runners, which can be two after a call was dropped.

`reserve()` failing in `startOnRunner` (540-546) is not an action: both callers
have found the runner alive and idle in the same step, and `RunnerAccounted`
says that an idle runner has no current job.

The reservation of a runner is not exclusive.  If a runner exits and restarts
while a call awaits onStart, `start()` makes it idle and it is handed out
again.  `ReservationExclusive` states exactly how far exclusivity goes (a
runner that never restarted, calls that were dropped aside), and `ChildInStep`, `ResultIsOwn` and
`JobsAccounted` that nothing worse follows than a job that fails with the
retryable WORKER_PROCESS_CRASHED.

### 2.2 JobLifecycle

One action is one statement of the store with the decision taken from its
answer.  SQLite makes a statement atomic; everything between two awaits of
different requests interleaves.  Every statement may fail.  `Crash` is any end
of the process, including the `process.exit(0)` of `shutdown`, which does not
wait for requests to write their records; `Recover` and `Listen` are
`initStore`, which may be interrupted by another crash: `Crash` is enabled in
every state of the server.

A call that the pool dropped never returns to its request (`RunnerDrops`): the
request waits for good and its record stays running until the next startup.
`NoZombieRecord` and `EveryRecordSettles` name this way out (`Hung`) next to the
other one.  `ToldIsStored` relates replies to records: what a client was told of
its user code is in the record, then and ever after, because the write comes
before the reply; requeued executions, which overwrite each other, excepted.

A result is its outcome ("ok", "userError", "timeout", "crashed", "busy",
and "infra", an error of the store or one the runner makes itself): what
`getStatusForResult` and `error.retryable` tell apart.
`orphaned` remembers the ids whose `failJobRecord` failed: their record stays
active until the next startup, and every retry is refused until then.  The
properties name that exception instead of hiding it.

### 2.3 CodeVersions

`saveCodeVersion` and `loadCodeVersion` statement by statement, the cache as a
sequence of entries in the insertion order of the Map.  Any entry may have
expired whenever it is looked at.  `LoadReturnsStored` says that a load
returns code that the store held at some moment of the call.

### 2.4 DbWorkerPool

One action per handler, as in DenoPool.  `terminate()` takes effect with the
exit event: until then the slot counts as alive, its messages are delivered,
and what is posted to it may or may not be answered.  `RunTimeout` keeps the
order of the code: fail the task, drain the queue onto the slot, terminate.
The task handed over then fails with DB_WORKER_EXITED; it settles, which is
all that is claimed.  One run checks safety and liveness together.

### 2.5 RunnerProtocol

One action is one handler of one of three threads of control: the parent, the
runner process, the sandbox worker.  Between them are four FIFO channels
(`stdin`, `stdout`, the worker's `inbox` and `outbox`), and a process or worker
takes its channels with it when it dies.  A line or message is the name of the
job or query it is about: the channel tells request from response.

| State | Code |
| --- | --- |
| `alive`, `current`, `call` | fields of `DenoRunnerProcess`, the promises of `run` |
| `asking` | calls of `handleDbQuery` that await `querySavedConnection` |
| `running`, `handler` | `running` of runner.ts; the `runJob` whose closure is the worker's `onmessage` |
| `waits[q]` | `pendingDbResponses`, with the job whose worker gets the response |
| `worker` | the sandbox: its key, whether it has ended in an uncaught error, its channels, the jobs it started and executes |
| `query[q]` | `pendingDbQueries` of user-worker.ts and what became of the promise |

User code is external, and may do everything the two files have to withstand:
return or not, leave queries un-awaited, go on after its job ended, throw
outside of any await, and post messages of its own (`PostOwn`), which the runner
takes for the result of the running job:

| Message | What becomes of it |
| --- | --- |
| a job j, with `logs` | a result of j: if j is the current job the parent accepts it (deno-pool.ts:198), and the runner keeps the worker, which still executes |
| `[bare \|-> j]`, the jobId of j without `logs` | for the current job, `finishCurrent` throws and the call is dropped (`ReadBare`) |
| `Stray`, without a jobId of these | the parent fails the job and kills the process (`ReadForeign`) |
| `Opaque`, not serialisable | the catch of `main` (deno/runner.ts:358) writes an error with the right jobId, and the worker is kept |

So a message ends its job while the code goes on, the next job of the same key
comes to a worker that is not done, and from then on either job's own result
may be taken for the other's.  `meddled` remembers the jobs that share a worker
thread with such a message.  `OneJobInSandbox`, `ResultIsForCurrent` and
`EveryJobSettles` hold for all other jobs, and their exceptions are exactly the
jobs of that thread; `NeverBusy`, `ResponseMeetsItsQuery` and
`QueriesEndWithTheirJob` hold whatever user code posts.  Messages that look like
a database request are the one kind left out: they would be queries the api
object did not ask.

A branch that `NeverBusy` shows unreachable (`DENO_RUNNER_BUSY`) is no action.
What a dead child wrote and was read late is in `DenoPool`, not here.

### 2.6 ConnectionCache

One connection code; its row has a version that stands for the connection
string.  A load is three steps, the cache miss, the read by the store and the
handler that goes on with what was read; an update invalidates in one step and
writes in another, as `updateConnection` does.  `raced` remembers whether the
cached row was loaded while an update was under way: `StaleOnlyByRace` says
that this is the only way the cache is ever stale.  The code keeps such an
entry until its TTL, which bounds the staleness in time only; time is
abstracted.

In the thread, `pools[g][v]` is the map and `pool[p]` what became of the MSSQL
pool that query p made.  "doomed" is a pool that was closed while it connects:
its promise closes it (`closeConnectionPools`).  The catch of a failed connect
deletes by key, whatever is there by now; `MapHasLivePools` and
`PoolsStayClosable` hold because a thread has one query at a time.

### 2.7 WorkspaceVersions and CodeJobs

One action is one awaited statement or one interactive transaction.  The
adapter (better-sqlite3, one connection) runs interactive transactions one
after the other; this is assumed, as are the unique keys of schema.prisma.

A request is bound to its arguments when it arrives (`asked`) and remembers the
next statement (`pc`).  `Row.born` and `replaced` are history: the client id a
version was created with, and the ids a draft has replaced in a row.

An executor is a call of `executeCodeJob`.  The model keeps what the code does:
executors of one job do not know of each other, they write the status without
looking at it, a nested attempt is caught by nobody (its rejection ends the
process, `Crash`), and nothing looks for queued jobs at startup.  The properties
say what is left to rely on: `NoOrphanJob` names every fault that can leave a
job without an executor, `AttemptsWithinBudget` bounds what competing executors
do to the attempt counter, and `CancelHolds` when a cancelled job may still
change its status.

## 3. Runs

| Run | Instance | Shows |
| --- | --- | --- |
| `pool` | 2 runners, 3 jobs, 79,048 states | the safety of DenoPool; it implements PoolContract |
| `pool_live` | 2 runners, 2 jobs, 30,975 states | every call returns that is not dropped; a closed pool leaves no child |
| `pool_grace` | 1 runner, 2 jobs | counterexample: the grace period can end with a job active |
| `runner` | 3 jobs, two of one code, 1 query, 1 message of user code's own, sandbox reuse, 103,504 states | jobs do not meet in the runner, responses reach the worker that asked; one job in a sandbox, results in order and jobs settled but for what that message does to its own thread |
| `jobs` | 4 requests for one job id (one with another hash), 2 crashes, 462,486 states | the safety of job records and replies |
| `jobs_live` | 3 requests, 2 job ids, 2 crashes, 364,397 states | records settle, unless `failJobRecord` failed or the pool dropped the call |
| `jobs_twice` | 3 equal requests, at most 1 crash (the counterexample has none) | counterexample: two concurrent retries both execute |
| `db_pool` | 2 slots, queue of 1, 4 queries, 64,029 states | safety of DbWorkerPool; queries settle; threads end |
| `connections` | 3 queries, 2 updates, 2 versions, 1,287,831 states | when the cache may be stale; no MSSQL pool is left open or used after its end |
| `code_versions` | 4 calls, 2 versions, 2 codes, cache of 1, 10,024 states | cache bound, no stale code |
| `code_versions_overwrite` | 3 calls | counterexample: a save replaces the code of a version |
| `workspaces` | 3 requests of any route, 2 versions, 2 entries, 2 client ids, 2 attempts, 515,914 states | versions, idempotent saves, bundles, jobs with their executors |

The `TypeOK` of every component is a theorem (section 5,
`TypeCorrect`) and is in no configuration; add it to the INVARIANTS of one
when a module changes, before the proof is repaired.

**Why the bounds are enough.**  Two runners and three jobs allow a runner held
by two calls, a third job in the queue, one that is dispatched to a runner
that restarted, and a choice between runners.  Nothing in the code counts
further than that: a job meets one runner and at most one competitor for it.
Restarts are not bounded, the state space is finite without.  Four requests
for one job id allow a creator, two racing retries and a stranger with another
hash.  Of two crashes, the second may hit the recovery from the first, half
way through the records or before the server listens.
Four queries over two slots and a queue of one reach the full queue with both
slots taken; a cache of one entry evicts on every second key.

In `runner`, three jobs allow a sandbox that is kept (same key), one that is
replaced (other key), and a job after both; the one query belongs to the first
of the two jobs that share the sandbox and can be asked, answered or time out
during any of the three.  User code posts one message of its own (`MaxPosts`),
of any of the kinds, at any time: it ends its own job early, or the next one,
is dropped between two jobs, or arrives after the sandbox has changed.  One is
enough to make a thread execute two jobs and to mix up their results; the
theorems hold for any number.  In `connections`, two updates allow a load that meets one and
is cached before the other; three queries allow a pool that is used, one that
is queued behind it, and one that finds the map changed.  In `workspaces`,
three requests are a save and two that race on it, or a job that is created,
cancelled and retried; two attempts give every executor one that is not the
last; crashes and failing statements are not bounded.

**Symmetry** is used for jobs, queries and updates of `connections`, codes,
keys, client ids, alike entries and equal requests, which the specifications
never name, and only in runs without liveness properties.
Runners and slots are not symmetric: the first idle one is chosen.

**Deadlock** is not checked: every component stops when all its calls have been
made and answered.

**Fairness.**  Timers fire, among them the runner's own timer for a job; the
pipes of a live child are read at both ends; a signalled process or terminated
thread ends and its end is noticed; a statement of the store returns in one way
or the other; a started server finishes its recovery.  Nothing is assumed of
the user's code or the SQL server: no child has to answer, no query has to
return, nobody has to close anything.  `EveryRecordSettles` relies on the pool
only as far as `OnlyDroppedCallsHang` goes.  `EveryJobSettles` does not even use the
parent's timer for a job.  All of it is weak fairness of single handlers: a set
timer stays set, a line stays in its pipe, and the event loop serves them.

## 4. Where code and documentation differ

1. README.md:264, "active jobs are allowed to finish until
   `SHUTDOWN_GRACE_MS`": `close()` waits for the `idle` flags
   (deno-pool.ts:506), and a restarted runner is idle although a call that
   reserved it before its exit still awaits onStart (run `pool_grace`).
2. README.md:197, "same `jobId` while the original job is queued or running
   returns retryable `JOB_ALREADY_RUNNING`": the requeue
   (store/job-records.ts:62) does not test the status it read before the
   await, so two concurrent retries both execute (run `jobs_twice`).
   `CreatorRunsAlone` is what does hold: the request that created the record
   runs alone.
3. README.md:147, "Reusing the same name and version with different code
   returns a version conflict", and test2.sh:339: `saveCodeVersion` updates
   the code instead (store/code-versions.ts:36, run
   `code_versions_overwrite`).

## 5. Proofs

Everything below is proved by TLAPS for every value of the constants that the
modules' assumptions allow.  Those are: at least one runner or slot (config.ts
refuses less), a cache of any size (with none it stays empty), any number of
messages of user code, at least one version and one attempt, and names that differ: `None` is no job, request, query, reply, version
row or CodeJob row, a job, a query and a message of user code are three things,
and the closeConnection message of a thread is no query.  Sets of jobs and requests may be infinite.

Each invariant is proved with `Init => IInv`, `IInv /\ [Next]_vars => IInv'` and
`IInv => Inv`; an action property from `IInv /\ [Next]_vars => A`.

| Theorem of `DenoPoolProofs` | Property | Inductive invariant |
| --- | --- | --- |
| `TypeCorrect` | `TypeOK` | itself |
| `JobsAlwaysAccounted` | `JobsAccounted` | `TypeOK /\ JobsAccounted` |
| `ClosingStarts` | (no call starts or is queued after `close()`) | `TypeOK /\ JobsAccounted` |
| `PoolKeepsContract` | `KeepsContract` | `TypeOK /\ JobsAccounted` |
| `ResultsAreOwn` | `ResultIsOwn` | `TypeOK /\ ResultIsOwn` |
| `WorkIsConserved` | `WorkConserving` | `RInv /\ WorkConserving` |
| `FirstComesFirst` | `FirstComeFirstStarted` | `RInv /\ WorkConserving` |
| `RunnersAccounted` | `RunnerAccounted` | `RInv`: with `RestartsExited /\ RestartsDue /\ Tended` |
| `ReservationsExclusive` | `ReservationExclusive` | `RInv` |
| `ChildrenInStep` | `ChildInStep` | `RInv` and `InStep` for every runner |

| Theorem | Property | Inductive invariant |
| --- | --- | --- |
| `RunnerProtocolProofs` | | `TypeOK /\ DeadIsEmpty /\ OneTurn /\ DropsKnown /\ ThreadKept /\ InTurn /\ QueriesKnown` |
| `TypeCorrect` | `TypeOK` | |
| `JobsNeverMeet` | `NeverBusy` | |
| `OneJobPerSandbox` | `OneJobInSandbox` | |
| `ResultsAreForCurrent` | `ResultIsForCurrent` | |
| `ResponsesMeetQueries` | `ResponseMeetsItsQuery` | |
| `QueriesEndWithJobs` | `QueriesEndWithTheirJob` | |
| `JobLifecycleProofs` | | `TypeOK /\ OwnRecord /\ Progress /\ NobodyRecovers /\ CreatorAlone /\ RecordIsOwn` and the first, third, fourth and sixth property |
| `NoZombieRecords` | `NoZombieRecord` | |
| `CreatorsRunAlone` | `CreatorRunsAlone` | |
| `AnswersAreOwn` | `AnswersItsOwnRequest` | |
| `StatusesMatch` | `StatusMatchesResult` | |
| `FinalRecordsStay` | `FinalStays` | |
| `ToldResultsAreStored` | `ToldIsStored` | |
| `TypeCorrect` | `TypeOK` | |
| `DbWorkerPoolProofs` | | `ThreadTypes /\ Accounted /\ QueueAccounted /\ TimersAccounted` |
| `TypeCorrect` | `TypeOK` | |
| `TasksAlwaysAccounted` | `TasksAccounted` | |
| `AlwaysWorkConserving` | `WorkConserving` | with `WorkConserving` |
| `AnswersAreOwn` | `AnswerIsOwn` | |
| `CodeVersionsProofs` | | `Types /\ CacheOK` and `CallOK` for every call |
| `TypeCorrect` | `TypeOK` | |
| `CacheAlwaysBounded` | `CacheBounded` | |
| `LoadsReturnStored` | `LoadReturnsStored` | |
| `ConnectionCacheProofs` | | |
| `CacheStaleOnlyByRace` | `StaleOnlyByRace` | `Types /\ CacheIsRow /\ LoadIsRow` |
| `RuntimesAreOpen` | `QueriesGetAnOpenRuntime` | with `RuntimeIsOpen` |
| `NoPoolLeaks` | `PoolsStayClosable` | `TypeOK /\ Posted /\ Waiting /\ Owned /\ Mapped /\ PoolsStayClosable /\ DoomedAlone /\ RuntimeInUse` |
| `MapIsLive` | `MapHasLivePools` | the same |
| `TypeCorrect` | `TypeOK` | the same |
| `CodeJobsProofs` | | |
| `VersionsWithoutGap` | `VersionsContiguous` | `WInv`: `ReqTypes /\ WellAsked /\ RowTypes /\ Founded /\ RowsContiguous /\ NoCollision` |
| `ClientIdCreatesOnce` | `OncePerClientId` | `WInv` with `BornKnown` |
| `TypeCorrect` | `TypeOK` | `JInv`: `WInv /\ JobTypes /\ Staffed /\ Fresh /\ JobKeepsItsBundle` |
| `JobsKeepTheirBundles` | `JobKeepsItsBundle` | `JInv` |
| `NoJobLeftBehind` | `NoOrphanJob` | `JInv` with `PendingServed` |
| `AttemptsBounded` | `AttemptsWithinBudget` | `JInv` with `Budget` |
| `CancelledStaysCancelled` | `CancelHolds` | `JInv` with `OvertakenKnown` |

`QueueLemmas` has what the proofs need about sequences: what shift, push and
the splice of one entry do to the entries of a queue without duplicates, and to
a channel in which at most one message is of a given set (`Only`).

**DenoPool, accounting.**  `drain` runs in the middle of handlers, on calls and
idle flags that are not those of any state.  `Accounted(p, jb, o, cur)` is
`JobsAccounted` with these as parameters: `SettleAccounts` shows that settling a
started call keeps it, `DrainAccounts` that `drain` does, and a handler is one
after the other.

**DenoPool, moves and order.**  `StepMoves` says along which edges a step moves
calls (`JobAdmit` only while the pool is open, `JobAdvance` always); the
refinement is about edges, and `ViewOfMove` maps each to one of the contract.
`run()` looks for an idle runner and not at the queue.  It overtakes nobody
because nobody waits while a runner is idle, which is `WorkConserving`.  That
holds because `drain` goes on until nobody waits or no runner is idle
(`DrainConserves`); the one runner that becomes idle without a `drain` is that of
a call that was just dropped, and its exit drains.
`StepQueue` lists what a step does to the queue, and `MoveKeepsOrder` shows that
none of it changes the order.

**DenoPool, runners.**  `Tended` follows the runner through the same handlers: one
with a current job has a living child, a busy one has a job or a call that
holds it, and two calls hold one runner only if it was restarted or one of them
was dropped (`Exclusive`).  The last is not inductive without `FreeUnheld`: only
dropped calls hold an idle runner that was never restarted.  That a runner is not lost also needs that the restart timer is set
just when a child has exited and the pool did not stop it.  `InStep` adds what
the parent can no longer see: what a killed child still executes and what a
dead one has answered at the last moment belong to calls that are settled.

**RunnerProtocol.**  `OneTurn` is the reason why jobs do not meet: the current
job of the parent is in one place, as a line to the runner, as the running job,
or as a result on its way back, and nothing of it is left when the parent gives
it up, because the process is killed with its pipes.  A message of user code
leaves this order of the jobs as it is; what it breaks is the link between the
runner and its worker.  `ThreadKept` therefore says which jobs a worker
thread can have: all of its key, the running one among them, and either all of
them meddled with or none.  Where none is, `InTurn` has the link: whatever job
the worker has is the running one, in one place.  `OneJobInSandbox` and
`ResultIsForCurrent` follow from the two by cases.  `DropsKnown` says that only
calls of a meddled thread are dropped.
`QueriesKnown` ties queries to workers: a job that has not begun waits for
nothing and owns no handler, so a sandbox that is reused or replaced never gets
the response to a query that it did not ask.

**JobLifecycle.**  `OwnRecord` carries what a request has read across its awaits:
the record it found is still there with its hash, since no statement deletes
one or changes its hash.  `RecordIsOwn` says the same of a stored result that
tells what the user's code did, so a reply taken from the record is about the
request (`AnswersItsOwnRequest`).  A result is written before it is told, and
from then on recovery passes the record by, because it only touches active
ones (`ToldIsStored`); a requeued execution is the only other writer.  `CreatorAlone` strengthens `CreatorRunsAlone`: while
the creator executes, the record is active, and every request that looks finds
it so; that is what the requeue, which does not look again, takes away from
everybody else.  `NobodyRecovers` separates the recovery at startup from the
requests it would race with.

**DbWorkerPool.**  The same accounting as in DenoPool, over slots with threads
that go on after `terminate()`.  `TimersAccounted` (an exited slot has no task
and its restart timer is set) is what keeps a restarted thread from getting a
second task.

**CodeVersions and ConnectionCache, loads.**  Both invariants follow what a call
has read across its awaits.  `CallOK`: the row as it is now is among what a load
under way has seen.  `LoadIsRow`: as long as no update met the load, what it has
read is the row; only then may it be cached without `raced`.

**ConnectionCache, threads.**  The catch of a failed connect deletes by key.  It
takes out no other pool because a query keeps its thread until the pool it made
has connected (`Owned`), so that no other query of that thread can put one under
that key; a pool that was closed while it connects leaves its key empty until
then (`DoomedAlone`).  `Posted` and `Waiting` say that a thread has one query at a
time, and `RuntimeInUse` that a closed runtime gets no more.

**WorkspaceVersions.**  `RowMove` says what a step may do to the rows: found the
workspace, draft, publish, save a bundle.  `RowsContiguous` needs `Founded`, that a
request which has found a workspace still has it, and then `Latest + 1` is free
for a publish, whichever version a draft has made current.  The unique key of
client ids only sees the ids rows have now; `BornKnown` adds that a row that no
longer has the id it was created with is in `replaced`.  `RowsGrow`, no row and no
bundle goes away, is what the jobs rely on.

**CodeJobs.**  `JobMove` is the list of what a step may do to jobs and executors.
`NoOrphanJob` alone is not inductive: an executor that has written its last
status still counts for it and then ends.  `PendingServed` asks for an executor
that will write again, or a request about to start one.  `Budget` counts, next to
the attempts in the row, the executors whose next attempt is already decided
on, because the check of the row and the attempt are two statements; only an
executor whose attempt is over adds one, and only when the row has attempts
left.  The set of requests may be infinite, so it also says that finitely many
executors were started.  `OvertakenKnown` says that the history variable behind
`CancelHolds` is right.

Proving these found two errors of the models, both corrected: whether a request
starts an executor was taken from the row that another request may have changed
since, where the code uses the request's own `runNow` (workspace-api.ts:668), and
three CASE expressions relied on an order of their arms that TLA+ does not give
them.

**Only model-checked.**  Liveness under fairness (`OnlyDroppedCallsHang`,
`ClosedLeavesNoChild`, `EveryJobSettles`, `EveryRecordSettles`, `EveryQuerySettles`,
`CloseEndsEveryThread`) is out of the prover's reach, and the three
counterexamples need no proof.

## 6. What is not modelled

Message texts, wording of errors, delays (a timer may fire as soon as it is
set; the restart delay and `crashCount` are left out), memory, SQL, rows,
permissions of sandboxes, HTTP.  A jobId names one call of `DenoPool.run` in
DenoPool: when a job is retried, an answer of its earlier execution cannot be
told from its own by the code either.  The `EPIPE` of a stdin without an error
listener ends the server: JobLifecycle has the end of the server, DenoPool has
the callback's failure, and the link between them is not modelled.  In
RunnerProtocol user code does not forge database requests.

Of modelled files: the connection test routes (they write `lastTest` fields
nothing reads and use a pool of their own), log lines of code jobs other than as
points where the store may fail (their sequence numbers are not modelled), and
read-only listings.

Of whole components: the **Logger** (a bounded queue of lines with one drain;
nothing in the program reads its state and no document says what becomes of a
line); **app, config, errors, types** (routing and formatting without state);
**request validation** (predicates over one request body); the **build service**
(one bundler call per request, which `WorkspaceVersions` has as the action
`Build`); the **OpenAPI document** (a constant).  These files, with the routing
part of workspace-api.ts, are most of the lines the models do not cover.

## 7. Plan

Done: the pool and its contract, the runner and its sandbox, job records, code
versions, the worker thread pool, the connection cache with the query worker,
workspaces and code jobs.  Every safety invariant, action property and
refinement that a run checks is a theorem.  In order of what matters next:

1. The parts of the liveness arguments that are safety, as invariants of their
   own: that what waits always has a timer, a line or a message that will end
   its wait.  Only the fairness would then be left to TLC.
2. Facts the proofs use and no run states, as properties: that a runner's
   restart is due just when its child has exited (`RestartsExited`,
   `RestartsDue`), that rows and bundles only grow (`RowsGrow`).
3. `Logger`, if it gets a reader: order, and that a flush ends.

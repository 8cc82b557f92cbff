---------------------------- MODULE RunnerProtocol ----------------------------
(***************************************************************************)
(* deno/runner.ts, deno/user-worker.ts and the parent's side of their pipe *)
(* in src/deno-pool.ts: one runner process, the sandbox worker it keeps    *)
(* for the next job of the same code, and database queries of user code.   *)
(*                                                                         *)
(* A query goes worker -> runner -> parent and its response comes back the *)
(* same way; the worker and the runner each have a timer for it, the       *)
(* runner one for the job and the parent another.  One action is one       *)
(* handler: a line read from a pipe, a message of the other thread, a      *)
(* timer, an event of the process.  A job or a query is a name: the line   *)
(* or message that starts job j and the one that ends it are both j, and   *)
(* so are the request and the response of query q.                         *)
(*                                                                         *)
(* Abstracted: results (a job's result, or an error in its place), logs,   *)
(* module cache, serialisation, delays (a timer may fire once it is set),  *)
(* and the pool around the runner (see DenoPool, which also has what a     *)
(* dead child wrote and was read late; here it is lost).  User code may    *)
(* leave queries un-awaited, go on in the background after its job ended,  *)
(* never return, end in an uncaught error, or post a message of its own,   *)
(* a database request excepted: the runner takes any other for the result, *)
(* the parent any with the jobId of the current job, and a worker that is  *)
(* taken to be done is given the next job of the same code.                *)
(***************************************************************************)
EXTENDS Integers, Sequences, FiniteSets

CONSTANTS
  Jobs,     \* the jobs the parent may give this runner, once each
  Queries,  \* database queries of user code
  JobOf,    \* JobOf[q]: the job whose api object asks q
  KeyOf,    \* KeyOf[j]: getSandboxKey: permissions, code name, version, code
  Reuse,    \* DENO_WORKER_REUSE
  Stray,    \* a message of user code without a jobId of these
  Opaque,   \* a message of user code that JSON.stringify throws on
  MaxPosts, \* bound: messages of user code's own
  None

(* A message with the jobId of j and without logs                          *)
Bare == {[bare |-> j] : j \in Jobs}

ASSUME NamesAssumption ==
  /\ Jobs \cap Queries = {}
  /\ Bare \cap (Jobs \cup Queries) = {}
  /\ Stray \notin Jobs \cup Queries \cup Bare
  /\ Opaque \notin Jobs \cup Queries \cup Bare \cup {Stray}
  /\ None \notin Jobs
ASSUME JobOfAssumption == JobOf \in [Queries -> Jobs]
ASSUME KeyOfAssumption == None \notin {KeyOf[j] : j \in Jobs}
ASSUME ReuseAssumption == Reuse \in BOOLEAN
ASSUME MaxPostsAssumption == MaxPosts \in Nat

VARIABLES
  \* --- the parent, DenoRunnerProcess
  alive,    \* this.alive
  current,  \* the job of this.current, or None
  call,     \* call[j]: "new", "given" to the runner, "answered", "failed", or
            \* "dropped": current was cleared and the promise never settles
  asking,   \* the queries whose handleDbQuery awaits querySavedConnection
  stdin,    \* lines written to the child and not read yet
  stdout,   \* lines the child wrote and the parent has not read yet
  \* --- the runner process
  proc,     \* "up" or "dead" (the exit event may be still to come)
  running,  \* the job whose runJob has not settled, or None
  handler,  \* the job whose runJob installed the worker's onmessage, or None
  waits,    \* waits[q]: pendingDbResponses has q, for a worker of that job
  \* --- the worker thread of the sandbox, see Worker
  worker,
  query,    \* query[q]: pendingDbQueries and what became of the promise
  posts,    \* messages user code has posted by itself
  meddled   \* the jobs in whose worker thread it did (history)

mvars == <<posts, meddled>>
pvars == <<alive, current, call, asking>>
rvars == <<running, handler, waits>>
vars == <<alive, current, call, asking, stdin, stdout, proc, running, handler,
          waits, worker, query, mvars>>

(* What user code may post by itself, what the parent may read that ends a *)
(* job, and all a worker posts                                             *)
OwnMessage == Jobs \cup Bare \cup {Stray, Opaque}
Result == Jobs \cup Bare \cup {Stray}
Message == OwnMessage \cup Queries

(* key: the sandboxKey, or None without a worker.  up: it has not ended in *)
(* an uncaught error.  inbox, outbox: the messages posted to it and by it. *)
(* ran, exec: the jobs it started, and those that have not finished.       *)
Worker == [key : {KeyOf[j] : j \in Jobs} \cup {None}, up : BOOLEAN,
           inbox : Seq(Jobs \cup Queries), outbox : Seq(Message),
           ran : SUBSET Jobs, exec : SUBSET Jobs]
NewWorker(k) == [key |-> k, up |-> TRUE, inbox |-> <<>>, outbox |-> <<>>,
                 ran |-> {}, exec |-> {}]
NoWorker == [NewWorker(None) EXCEPT !.up = FALSE]

(* "asked" while its job ran, "background" after; then the promise is      *)
(* settled, or dropped with its job, or the worker is gone.                *)
Pending == {"asked", "background"}
QueryState == {"new", "settled", "cleared", "gone"} \cup Pending

TypeOK ==
  /\ alive \in BOOLEAN
  /\ current \in Jobs \cup {None}
  /\ call \in [Jobs -> {"new", "given", "answered", "failed", "dropped"}]
  /\ asking \subseteq Queries
  /\ stdin \in Seq(Jobs \cup Queries)
  /\ stdout \in Seq(Result \cup Queries)
  /\ proc \in {"up", "dead"}
  /\ running \in Jobs \cup {None}
  /\ handler \in Jobs \cup {None}
  /\ waits \in [Queries -> Jobs \cup {None}]
  /\ worker \in Worker
  /\ query \in [Queries -> QueryState]
  /\ posts \in 0..MaxPosts
  /\ meddled \subseteq Jobs

NoWaits == [q \in Queries |-> None]

Init ==
  /\ alive = TRUE
  /\ current = None
  /\ call = [j \in Jobs |-> "new"]
  /\ asking = {}
  /\ stdin = <<>>
  /\ stdout = <<>>
  /\ proc = "up"
  /\ running = None
  /\ handler = None
  /\ waits = NoWaits
  /\ worker = NoWorker
  /\ query = [q \in Queries |-> "new"]
  /\ posts = 0
  /\ meddled = {}

-----------------------------------------------------------------------------
(* The jobs that came to the worker thread                                 *)
Waiting == {j \in Jobs : \E i \in 1..Len(worker.inbox) : worker.inbox[i] = j}
InThread == worker.ran \cup Waiting

(* The worker and its queries when it is terminated, or replaced by w.     *)
Replace(w) ==
  /\ worker' = w
  /\ query' = [q \in Queries |-> IF query[q] \in Pending THEN "gone" ELSE query[q]]

(* The end of the process, by SIGKILL of the parent or by its own doing.   *)
(* What is in its pipes goes with it.                                      *)
Dies ==
  /\ proc' = "dead"
  /\ stdin' = <<>>
  /\ stdout' = <<>>
  /\ running' = None
  /\ handler' = None
  /\ waits' = NoWaits
  /\ Replace(NoWorker)

Post(m) == worker' = [worker EXCEPT !.inbox = Append(@, m)]
Emits(m) == worker' = [worker EXCEPT !.outbox = Append(@, m)]
WriteLine(m) == stdout' = Append(stdout, m)

(* A line to the child.  To a dead one it is lost.                         *)
ToChild(m) == stdin' = IF proc = "up" THEN Append(stdin, m) ELSE stdin

(* finishCurrent and failCurrent                                           *)
Settle(outcome) ==
  /\ current' = None
  /\ call' = IF current = None THEN call ELSE [call EXCEPT ![current] = outcome]

-----------------------------------------------------------------------------
(* The parent                                                              *)

(* DenoRunnerProcess.run                                                   *)
Give(j) ==
  /\ alive
  /\ current = None
  /\ call[j] = "new"
  /\ current' = j
  /\ call' = [call EXCEPT ![j] = "given"]
  /\ ToChild(j)
  /\ UNCHANGED <<alive, asking, stdout, proc, rvars, worker, query, mvars>>

(* consumeStdout reads a line: without a current job it is ignored.        *)
ReadLine(m) == stdout # <<>> /\ m = Head(stdout)

IgnoreLine ==
  /\ stdout # <<>>
  /\ current = None
  /\ stdout' = Tail(stdout)
  /\ UNCHANGED <<pvars, stdin, proc, rvars, worker, query, mvars>>

ReadRequest(q) ==
  /\ ReadLine(q)
  /\ current # None
  /\ asking' = asking \cup {q}
  /\ stdout' = Tail(stdout)
  /\ UNCHANGED <<alive, current, call, stdin, proc, rvars, worker, query, mvars>>

ReadResult(j) ==
  /\ ReadLine(j)
  /\ current = j
  /\ Settle("answered")
  /\ stdout' = Tail(stdout)
  /\ UNCHANGED <<alive, asking, stdin, proc, rvars, worker, query, mvars>>

(* A message with the right jobId on which finishCurrent throws, after it  *)
(* cleared current: failCurrent has nothing to fail, and SIGKILL.          *)
ReadBare(j) ==
  /\ ReadLine([bare |-> j])
  /\ current = j
  /\ Settle("dropped")
  /\ Dies
  /\ UNCHANGED <<alive, asking, mvars>>

(* A result without the jobId of the current job: failCurrent and SIGKILL. *)
ReadForeign(m) ==
  /\ ReadLine(m)
  /\ current # None
  /\ m \notin {current, [bare |-> current]}
  /\ Settle("failed")
  /\ Dies
  /\ UNCHANGED <<alive, asking, mvars>>

(* handleDbQuery after its await: the response goes to the child of then,  *)
(* which need not be the one that asked.                                   *)
Respond(q) ==
  /\ q \in asking
  /\ asking' = asking \ {q}
  /\ ToChild(q)
  /\ UNCHANGED <<alive, current, call, stdout, proc, rvars, worker, query, mvars>>

\* Mistake: the job is failed and the child goes on with it.
ParentTimeoutWithoutKill ==
  /\ current # None
  /\ Settle("failed")
  /\ UNCHANGED <<alive, asking, stdin, stdout, proc, rvars, worker, query, mvars>>

ParentTimeout ==
  /\ current # None
  /\ Settle("failed")
  /\ Dies
  /\ UNCHANGED <<alive, asking, mvars>>

Exit ==
  /\ alive
  /\ proc = "dead"
  /\ alive' = FALSE
  /\ Settle("failed")
  /\ UNCHANGED <<asking, stdin, stdout, proc, rvars, worker, query, mvars>>

(* The restart timer: start() spawns a new process.                        *)
Restart ==
  /\ ~alive
  /\ alive' = TRUE
  /\ proc' = "up"
  /\ UNCHANGED <<current, call, asking, stdin, stdout, rvars, worker, query, mvars>>

-----------------------------------------------------------------------------
(* The runner process                                                      *)

(* finish of the running job: the line is written, the timer cleared, and  *)
(* the worker kept only for a result that came from it.                    *)
Finish(m, keepWorker) ==
  /\ running' = None
  /\ WriteLine(m)
  /\ IF keepWorker /\ Reuse
     THEN UNCHANGED query /\ worker' = [worker EXCEPT !.outbox = Tail(@)]
     ELSE Replace(NoWorker)

(* main reads a job.  A job that arrives while another one runs is refused *)
(* with DENO_RUNNER_BUSY, which is no action here: NeverBusy.              *)
TakesJob(j) ==
  /\ stdin # <<>> /\ Head(stdin) = j
  /\ running = None
  /\ stdin' = Tail(stdin)

(* runJob with the worker getSandboxWorker finds or creates.               *)
RunJob(j) ==
  /\ TakesJob(j)
  /\ running' = j
  /\ handler' = j
  /\ IF Reuse /\ worker.key = KeyOf[j]
     THEN /\ Post(j)
          /\ meddled' = IF worker.ran \cap meddled = {} THEN meddled ELSE meddled \cup {j}
          /\ UNCHANGED query
     ELSE /\ Replace([NewWorker(KeyOf[j]) EXCEPT !.inbox = <<j>>])
          /\ UNCHANGED meddled
  /\ UNCHANGED <<pvars, stdout, proc, waits, posts>>

(* The constructor of Worker throws; the old sandbox is gone by then.      *)
NoNewWorker(j) ==
  /\ TakesJob(j)
  /\ ~(Reuse /\ worker.key = KeyOf[j])
  /\ WriteLine(j)
  /\ Replace(NoWorker)
  /\ UNCHANGED <<pvars, proc, rvars, mvars>>

(* worker.onmessage, installed by runJob of handler                        *)
Forward(q) ==
  /\ worker.outbox # <<>> /\ Head(worker.outbox) = q
  /\ worker' = [worker EXCEPT !.outbox = Tail(@)]
  /\ WriteLine(q)
  /\ waits' = [waits EXCEPT ![q] = handler]
  /\ UNCHANGED <<pvars, stdin, proc, running, handler, query, mvars>>

(* Any other message ends the running job, whatever it is.  If it cannot   *)
(* be written, the catch of main writes DENO_RUNNER_ERROR for the job.     *)
TakeResult(m) ==
  /\ worker.outbox # <<>> /\ Head(worker.outbox) = m
  /\ running # None
  /\ Finish(IF m = Opaque THEN running ELSE m, TRUE)
  /\ UNCHANGED <<pvars, stdin, proc, handler, waits, mvars>>

DropResult(m) ==
  /\ worker.outbox # <<>> /\ Head(worker.outbox) = m
  /\ running = None
  /\ worker' = [worker EXCEPT !.outbox = Tail(@)]
  /\ UNCHANGED <<pvars, stdin, stdout, proc, rvars, query, mvars>>

\* Mistake: the sandbox survives the job that timed out in it.
JobTimeoutKeepsSandbox ==
  /\ running # None
  /\ running' = None
  /\ WriteLine(running)
  /\ UNCHANGED <<pvars, stdin, proc, handler, waits, worker, query, mvars>>

\* Mistake: the timer is set after worker.postMessage, on a live worker.
JobTimeoutOfLiveWorker ==
  /\ running # None
  /\ worker.up
  /\ Finish(running, FALSE)
  /\ UNCHANGED <<pvars, stdin, proc, handler, waits, mvars>>

JobTimeout ==
  /\ running # None
  /\ Finish(running, FALSE)
  /\ UNCHANGED <<pvars, stdin, proc, handler, waits, mvars>>

(* onerror, an uncaught error of user code, or onmessageerror.  Between    *)
(* jobs finish() returns at once: the dead worker stays as the sandbox.    *)
WorkerError ==
  /\ worker.up
  /\ running # None
  /\ Finish(running, FALSE)
  /\ UNCHANGED <<pvars, stdin, proc, handler, waits, mvars>>

SandboxDies ==
  /\ worker.up
  /\ running = None
  /\ worker' = [worker EXCEPT !.up = FALSE]
  /\ UNCHANGED <<pvars, stdin, stdout, proc, rvars, query, mvars>>

(* The promise of waitForDbResponse resolves: the job that forwarded q     *)
(* passes it on unless it has settled.                                     *)
\* Mistake: the worker of the moment gets it, without if (!settled).
PassToAnyWorker(q) ==
  /\ waits' = [waits EXCEPT ![q] = None]
  /\ IF waits[q] # None /\ worker.key # None THEN Post(q) ELSE UNCHANGED worker

Resolve(q) ==
  /\ waits' = [waits EXCEPT ![q] = None]
  /\ IF waits[q] # None /\ waits[q] = running THEN Post(q) ELSE UNCHANGED worker

(* resolveDbResponse: a response nobody waits for is dropped.              *)
ReadResponse(q) ==
  /\ stdin # <<>> /\ Head(stdin) = q
  /\ stdin' = Tail(stdin)
  /\ Resolve(q)
  /\ UNCHANGED <<pvars, stdout, proc, running, handler, query, mvars>>

WaitTimeout(q) ==
  /\ waits[q] # None
  /\ Resolve(q)
  /\ UNCHANGED <<pvars, stdin, stdout, proc, running, handler, query, mvars>>

(* The process ends by itself.                                             *)
ProcessEnds ==
  /\ proc = "up"
  /\ Dies
  /\ UNCHANGED <<pvars, mvars>>

-----------------------------------------------------------------------------
(* The worker thread and the user code in it (external: what it does)      *)

WorkerReads(m) == worker.up /\ worker.inbox # <<>> /\ m = Head(worker.inbox)
wUnchanged == UNCHANGED <<pvars, stdin, stdout, proc, rvars, mvars>>

(* onmessage with a job: import of the module and the call of its function *)
StartJob(j) ==
  /\ WorkerReads(j)
  /\ worker' = [worker EXCEPT !.inbox = Tail(@), !.ran = @ \cup {j}, !.exec = @ \cup {j}]
  /\ UNCHANGED query
  /\ wUnchanged

(* api.db.query of a job that runs, or of one that left code behind        *)
Ask(q) ==
  /\ worker.up
  /\ JobOf[q] \in worker.ran
  /\ query[q] = "new"
  /\ query' = [query EXCEPT ![q] = IF JobOf[q] \in worker.exec THEN "asked" ELSE "background"]
  /\ Emits(q)
  /\ wUnchanged

(* finishJob, with whatever the function returned or threw, and            *)
(* clearPendingDbQueriesForJob                                             *)
\* Mistake: the timers and entries of un-awaited queries are kept.
FinishJobKeepingQueries(j) ==
  /\ worker.up
  /\ j \in worker.exec
  /\ worker' = [worker EXCEPT !.exec = @ \ {j}, !.outbox = Append(@, j)]
  /\ UNCHANGED query
  /\ wUnchanged

FinishJob(j) ==
  /\ worker.up
  /\ j \in worker.exec
  /\ worker' = [worker EXCEPT !.exec = @ \ {j}, !.outbox = Append(@, j)]
  /\ query' = [q \in Queries |-> IF JobOf[q] = j /\ query[q] \in Pending
                                 THEN "cleared" ELSE query[q]]
  /\ wUnchanged

SettleQuery(q) == query' = [query EXCEPT ![q] = IF @ \in Pending THEN "settled" ELSE @]

(* handleDbResponse                                                        *)
TakeResponse(q) ==
  /\ WorkerReads(q)
  /\ worker' = [worker EXCEPT !.inbox = Tail(@)]
  /\ SettleQuery(q)
  /\ wUnchanged

QueryTimeout(q) ==
  /\ worker.up
  /\ query[q] \in Pending
  /\ SettleQuery(q)
  /\ UNCHANGED worker
  /\ wUnchanged

(* postMessage by user code, in a job or after it                          *)
PostOwn(m) ==
  /\ worker.up
  /\ worker.ran # {}
  /\ posts < MaxPosts
  /\ posts' = posts + 1
  /\ Emits(m)
  /\ meddled' = meddled \cup InThread
  /\ UNCHANGED <<query, pvars, stdin, stdout, proc, rvars>>

-----------------------------------------------------------------------------

JobStep(j) ==
  \/ Give(j) \/ ReadResult(j) \/ ReadBare(j) \/ RunJob(j) \/ NoNewWorker(j)
  \/ StartJob(j) \/ FinishJob(j)

QueryStep(q) ==
  \/ ReadRequest(q) \/ Respond(q) \/ Forward(q) \/ ReadResponse(q)
  \/ WaitTimeout(q) \/ Ask(q) \/ TakeResponse(q) \/ QueryTimeout(q)

MessageStep(m) == TakeResult(m) \/ DropResult(m) \/ PostOwn(m)

Next ==
  \/ \E j \in Jobs : JobStep(j)
  \/ \E q \in Queries : QueryStep(q)
  \/ \E m \in OwnMessage : MessageStep(m)
  \/ \E m \in Result : ReadForeign(m)
  \/ IgnoreLine \/ ParentTimeout \/ Exit \/ Restart
  \/ JobTimeout \/ WorkerError \/ SandboxDies \/ ProcessEnds

Spec == Init /\ [][Next]_vars

(* The parent and the runner read their pipes, the runner's job timer      *)
(* fires, a dead process is noticed.  Nothing is assumed of user code, nor *)
(* of the parent's own timer.                                              *)
ReadsStdin ==
  \/ \E j \in Jobs : RunJob(j) \/ NoNewWorker(j)
  \/ \E q \in Queries : ReadResponse(q)
ReadsStdout ==
  \/ \E j \in Jobs : ReadResult(j) \/ ReadBare(j)
  \/ \E m \in Result : ReadForeign(m)
  \/ \E q \in Queries : ReadRequest(q)
  \/ IgnoreLine
Fairness ==
  /\ WF_vars(ReadsStdin)
  /\ WF_vars(ReadsStdout)
  /\ WF_vars(JobTimeout)
  /\ WF_vars(Exit)

FairSpec == Spec /\ Fairness

-----------------------------------------------------------------------------
(* Properties                                                              *)

(* A job line never meets a running job: DENO_RUNNER_BUSY cannot happen,   *)
(* although a message of user code ends a job early and may be taken for   *)
(* its result: the runner is done with a job before the parent reads the   *)
(* line that ends it, or is killed (runner.ts:339, deno-pool.ts:198).      *)
NeverBusy == \A j \in Jobs : stdin # <<>> /\ Head(stdin) = j => running = None

(* A worker thread runs jobs of one code and permissions only, and never   *)
(* executes two at once, reused or not, nor does one wait in it while      *)
(* another executes: unless user code in that thread has posted a message  *)
(* of its own, with which its job ends and goes on (runner.ts:194, :238,   *)
(* user-worker.ts:352).                                                    *)
OneJobInSandbox ==
  LET inside == worker.exec \cup Waiting
  IN /\ \A j \in inside : KeyOf[j] = worker.key
     /\ Cardinality(inside) <= 1 \/ inside \subseteq meddled

(* A result of a live process is for the job the parent waits for, so the  *)
(* parent neither kills a runner for a wrong answer nor drops a call:      *)
(* unless user code in the thread of that job has posted a message of its  *)
(* own (deno-pool.ts:198, :390).                                           *)
ResultIsForCurrent ==
  /\ \A m \in Result : (\E i \in 1..Len(stdout) : stdout[i] = m) =>
       current # None /\ (m = current \/ current \in meddled)
  /\ \A j \in Jobs : call[j] = "dropped" => j \in meddled

(* A response is posted only to the worker thread that asked, though the   *)
(* parent may write it to a process started since, and the runner may read *)
(* it when another worker runs another job (deno-pool.ts:264,              *)
(* runner.ts:188).                                                         *)
ResponseMeetsItsQuery ==
  \A q \in Queries : (\E i \in 1..Len(worker.inbox) : worker.inbox[i] = q)
                        => query[q] \in Pending \cup {"settled", "cleared"}

(* User code of a job that ended is not resumed by a query it asked while  *)
(* it ran: neither by the response nor by the timeout (user-worker.ts:276).*)
QueriesEndWithTheirJob ==
  [][\A q \in Queries : query[q] = "asked" /\ query'[q] = "settled"
                           => JobOf[q] \in worker.exec]_vars

(* Every job given to the runner is answered or failed, by the runner's    *)
(* own means: whatever user code does, without the parent's timer          *)
(* (runner.ts:162, :199).  The one exception is a job that was dropped     *)
(* for a message of user code in its own thread (deno-pool.ts:390).        *)
EveryJobSettles ==
  \A j \in Jobs : call[j] = "given" ~>
    call[j] \in {"answered", "failed"} \/ (call[j] = "dropped" /\ j \in meddled)
=============================================================================

----------------------------- MODULE JobLifecycle -----------------------------
(***************************************************************************)
(* src/run-service.ts (RunService.run), src/store/job-records.ts and the   *)
(* startup of src/server.ts: what concurrent /run requests, the runner     *)
(* pool, a failing store and a crashing server do to the job records.      *)
(*                                                                         *)
(* The store is one SQLite file behind one Prisma client: a statement is   *)
(* atomic and either applied or failed, and any other handler may run      *)
(* between two awaited statements.  So one action is one statement and     *)
(* what its handler decides from the answer up to the next await.  The     *)
(* pool is PoolContract: DenoPool is shown to implement it.                *)
(*                                                                         *)
(* Abstracted: validation, the code lookup before the record (see          *)
(* CodeVersions), timestamps, runner id and attempts in the record, error  *)
(* texts.  A result is its outcome: what status and retryable are computed *)
(* from.  A crash is any end of the process: kill, an uncaught error, or   *)
(* process.exit at the end of shutdown() with handlers still running.      *)
(***************************************************************************)
EXTENDS Integers

CONSTANTS
  Requests,    \* the /run requests clients send, retries included
  Ids,         \* job ids
  IdOf,        \* IdOf[q]: the jobId of request q
  HashOf,      \* HashOf[q]: hashRunRequest of request q
  MaxCrashes,  \* bound: crashes of the server
  None

ASSUME IdOfAssumption == IdOf \in [Requests -> Ids]
ASSUME MaxCrashesAssumption == MaxCrashes \in Nat

Hashes == {HashOf[q] : q \in Requests}

VARIABLES
  rec,        \* rec[id]: the JobRecord row (external: SQLite), see Record
  server,     \* "up" or "recovering", which is initStore before listen
  pc,         \* pc[q]: the next statement of request q
  call,       \* call[q]: q's call of pool.run, a state of PoolContract
  outcome,    \* outcome[q]: the result pool.run gave, or the reply
  by,         \* by[q]: whose execution the reply of q comes from (history)
  origin,     \* origin[q]: how q got its record (history)
  orphaned,   \* ids whose failJobRecord failed (history)
  crashes

qvars == <<pc, call, outcome, by, origin>>
vars == <<rec, server, qvars, orphaned, crashes>>

Terminal == {"completed", "failed", "timed_out", "crashed", "cancelled"}
Status == {"absent", "queued", "running"} \cup Terminal

(* A result: success, a non-retryable error of the user's code, or one of  *)
(* the retryable ones: TIMEOUT, WORKER_PROCESS_CRASHED, POOL_BUSY, and     *)
(* "infra": an error of the store (serializeError makes it retryable) or   *)
(* of the runner itself (DENO_WORKER_ERROR, DENO_WORKER_MESSAGE_ERROR,     *)
(* DENO_RUNNER_ERROR).                                                     *)
Retryable == {"timeout", "crashed", "busy", "infra"}
Result == {"ok", "userError"} \cup Retryable
Reply == Result \cup {"conflict", "active", "error"}

ASSUME NoneAssumption == None \notin Requests \cup Reply

(* getStatusForResult                                                      *)
StatusForResult(o) == CASE o = "ok" -> "completed"
                        [] o = "timeout" -> "timed_out"
                        [] o = "crashed" -> "crashed"
                        [] OTHER -> "failed"

Record == [status : Status, hash : Hashes \cup {None}, result : Result \cup {None},
           by : Requests \cup {None}]
Absent == [status |-> "absent", hash |-> None, result |-> None, by |-> None]

Active(id) == rec[id].status \in {"queued", "running"}
Final(id) == rec[id].status \in Terminal /\ rec[id].result \notin Retryable

(* pc[q] from the second statement to the last: the request is under way.  *)
UnderWay == {"create", "requeue", "pool", "finish", "fail"}
PC == {"new"} \cup UnderWay \cup {"replied", "lost"}
Executing(q) == pc[q] = "pool" /\ call[q] \in {"starting", "running"}
Hung(q) == pc[q] = "pool" /\ call[q] = "dropped"

Pool == INSTANCE PoolContract WITH Jobs <- Requests, closing <- FALSE

TypeOK ==
  /\ rec \in [Ids -> Record]
  /\ server \in {"up", "recovering"}
  /\ pc \in [Requests -> PC]
  /\ call \in [Requests -> Pool!CallState]
  /\ outcome \in [Requests -> Reply \cup {None}]
  /\ by \in [Requests -> Requests \cup {None}]
  /\ origin \in [Requests -> {"none", "created", "requeued"}]
  /\ orphaned \subseteq Ids
  /\ crashes \in 0..MaxCrashes

Init ==
  /\ rec = [id \in Ids |-> Absent]
  /\ server = "up"
  /\ pc = [q \in Requests |-> "new"]
  /\ call = [q \in Requests |-> "new"]
  /\ outcome = [q \in Requests |-> None]
  /\ by = [q \in Requests |-> None]
  /\ origin = [q \in Requests |-> "none"]
  /\ orphaned = {}
  /\ crashes = 0

(* A request goes on to its next statement, or answers.                    *)
Goto(q, where) == pc' = [pc EXCEPT ![q] = where]
Answered(q, o, p) ==
  /\ Goto(q, "replied")
  /\ outcome' = [outcome EXCEPT ![q] = o]
  /\ by' = [by EXCEPT ![q] = p]

-----------------------------------------------------------------------------
(* createQueuedJobRecord: findUnique and the decision on what it returns   *)

Find(q) == server = "up" /\ pc[q] = "new"

SameRequest(q) == rec[IdOf[q]].status # "absent" /\ rec[IdOf[q]].hash = HashOf[q]

FindNothing(q) ==
  /\ Find(q)
  /\ rec[IdOf[q]].status = "absent"
  /\ Goto(q, "create")
  /\ UNCHANGED <<rec, server, call, outcome, by, origin, orphaned, crashes>>

FindConflict(q) ==
  /\ Find(q)
  /\ rec[IdOf[q]].status # "absent"
  /\ rec[IdOf[q]].hash # HashOf[q]
  /\ Answered(q, "conflict", None)
  /\ UNCHANGED <<rec, server, call, origin, orphaned, crashes>>

(* A stored result that is not retryable is returned.                      *)
\* Mistake: the request hash is not compared.
FindResultOfAny(q) ==
  /\ Find(q)
  /\ Final(IdOf[q])
  /\ Answered(q, rec[IdOf[q]].result, rec[IdOf[q]].by)
  /\ UNCHANGED <<rec, server, call, origin, orphaned, crashes>>

FindResult(q) ==
  /\ Find(q)
  /\ SameRequest(q)
  /\ Final(IdOf[q])
  /\ Answered(q, rec[IdOf[q]].result, rec[IdOf[q]].by)
  /\ UNCHANGED <<rec, server, call, origin, orphaned, crashes>>

FindRetryable(q) ==
  /\ Find(q)
  /\ SameRequest(q)
  /\ rec[IdOf[q]].status \in Terminal
  /\ rec[IdOf[q]].result \in Retryable
  /\ Goto(q, "requeue")
  /\ UNCHANGED <<rec, server, call, outcome, by, origin, orphaned, crashes>>

FindActive(q) ==
  /\ Find(q)
  /\ SameRequest(q)
  /\ Active(IdOf[q])
  /\ Answered(q, "active", None)
  /\ UNCHANGED <<rec, server, call, origin, orphaned, crashes>>

(* The write of createQueuedJobRecord, and pool.run called after it.  The  *)
(* primary key refuses a second create; nothing guards the update.         *)
Admitted(q, how) ==
  /\ Goto(q, "pool")
  /\ call' = [call EXCEPT ![q] = "waiting"]
  /\ origin' = [origin EXCEPT ![q] = how]
  /\ UNCHANGED <<server, outcome, by, orphaned, crashes>>

Queued(q) == [status |-> "queued", hash |-> HashOf[q], result |-> None, by |-> None]

\* Mistake: an upsert.
Upsert(q) ==
  /\ pc[q] = "create"
  /\ rec' = [rec EXCEPT ![IdOf[q]] = Queued(q)]
  /\ Admitted(q, "created")

Create(q) ==
  /\ pc[q] = "create"
  /\ rec[IdOf[q]].status = "absent"
  /\ rec' = [rec EXCEPT ![IdOf[q]] = Queued(q)]
  /\ Admitted(q, "created")

CreateCollides(q) ==
  /\ pc[q] = "create"
  /\ rec[IdOf[q]].status # "absent"
  /\ Answered(q, "error", None)
  /\ UNCHANGED <<rec, server, call, origin, orphaned, crashes>>

Requeue(q) ==
  /\ pc[q] = "requeue"
  /\ rec' = [rec EXCEPT ![IdOf[q]].status = "queued", ![IdOf[q]].result = None,
                        ![IdOf[q]].by = None]
  /\ Admitted(q, "requeued")

(* An error of the store before the try block of RunService.run.           *)
StoreFailsEarly(q) ==
  /\ Find(q) \/ pc[q] \in {"create", "requeue"}
  /\ Answered(q, "error", None)
  /\ UNCHANGED <<rec, server, call, origin, orphaned, crashes>>

-----------------------------------------------------------------------------
(* pool.run                                                                *)

PoolMoves(q, from, to) ==
  /\ pc[q] = "pool"
  /\ call[q] = from
  /\ call' = [call EXCEPT ![q] = to]

(* POOL_BUSY, from the queue timer or the shutdown of the pool.            *)
Refuse(q) ==
  /\ PoolMoves(q, "waiting", "refused")
  /\ Goto(q, "finish")
  /\ outcome' = [outcome EXCEPT ![q] = "busy"]
  /\ UNCHANGED <<rec, server, by, origin, orphaned, crashes>>

(* A runner is reserved and onStart called.                                *)
Dispatch(q) ==
  /\ PoolMoves(q, "waiting", "starting")
  /\ UNCHANGED <<rec, server, pc, outcome, by, origin, orphaned, crashes>>

(* onStart: markJobRunning                                                 *)
MarkRunning(q) ==
  /\ PoolMoves(q, "starting", "running")
  /\ rec' = [rec EXCEPT ![IdOf[q]].status = "running"]
  /\ UNCHANGED <<server, pc, outcome, by, origin, orphaned, crashes>>

MarkRunningFails(q) ==
  /\ PoolMoves(q, "starting", "rejected")
  /\ Goto(q, "fail")
  /\ UNCHANGED <<rec, server, outcome, by, origin, orphaned, crashes>>

(* The runner's answer, or WORKER_PROCESS_CRASHED, which is also what the  *)
(* catch of handleStdout answers.                                          *)
RunnerAnswers(q) ==
  /\ \/ PoolMoves(q, "running", "result")
        /\ \E o \in {"ok", "userError", "timeout", "infra"} :
             outcome' = [outcome EXCEPT ![q] = o]
     \/ PoolMoves(q, "running", "crashed")
        /\ outcome' = [outcome EXCEPT ![q] = "crashed"]
  /\ Goto(q, "finish")
  /\ UNCHANGED <<rec, server, by, origin, orphaned, crashes>>

(* The pool drops the call (finishCurrent threw between clearing current   *)
(* and resolving, see DropCall in DenoPool): the await never returns.      *)
RunnerDrops(q) ==
  /\ PoolMoves(q, "running", "dropped")
  /\ UNCHANGED <<rec, server, pc, outcome, by, origin, orphaned, crashes>>

-----------------------------------------------------------------------------
(* The end of RunService.run                                               *)

Store(q, status, o) ==
  rec' = [rec EXCEPT ![IdOf[q]].status = status, ![IdOf[q]].result = o,
                     ![IdOf[q]].by = q]

(* finishJobRecord                                                         *)
\* Mistake: an error of the write is swallowed.
FinishUnstored(q) ==
  /\ pc[q] = "finish"
  /\ Store(q, StatusForResult(outcome[q]), outcome[q]) \/ rec' = rec
  /\ Answered(q, outcome[q], q)
  /\ UNCHANGED <<server, call, origin, orphaned, crashes>>

Finish(q) ==
  /\ pc[q] = "finish"
  /\ Store(q, StatusForResult(outcome[q]), outcome[q])
  /\ Answered(q, outcome[q], q)
  /\ UNCHANGED <<server, call, origin, orphaned, crashes>>

(* finishJobRecord threw: the catch block reports the job as failed,       *)
(* although the runner answered.                                           *)
FinishFails(q) ==
  /\ pc[q] = "finish"
  /\ Goto(q, "fail")
  /\ UNCHANGED <<rec, server, call, outcome, by, origin, orphaned, crashes>>

(* failJobRecord                                                           *)
Fail(q) ==
  /\ pc[q] = "fail"
  /\ Store(q, "failed", "infra")
  /\ Answered(q, "infra", q)
  /\ UNCHANGED <<server, call, origin, orphaned, crashes>>

(* failJobRecord threw too: /run answers 500 and the record stays active.  *)
FailFails(q) ==
  /\ pc[q] = "fail"
  /\ Answered(q, "error", None)
  /\ orphaned' = orphaned \cup {IdOf[q]}
  /\ UNCHANGED <<rec, server, call, origin, crashes>>

-----------------------------------------------------------------------------
(* Crash and startup                                                       *)

(* At any moment, a startup that has not finished included.                *)
Crash ==
  /\ crashes < MaxCrashes
  /\ crashes' = crashes + 1
  /\ server' = "recovering"
  /\ pc' = [q \in Requests |-> IF pc[q] \in UnderWay THEN "lost" ELSE pc[q]]
  /\ UNCHANGED <<rec, call, outcome, by, origin, orphaned>>

(* The findMany of recoverInterruptedJobs.                                 *)
\* Mistake: a queued job is not taken for an interrupted one.
RunningOnly == {id \in Ids : rec[id].status = "running"}

Interrupted == {id \in Ids : Active(id)}

(* recoverInterruptedJobs, one record at a time; a crash in between leaves *)
(* the rest to the next startup.                                           *)
\* Mistake: the update has no filter.
RecoverAll(id) ==
  /\ server = "recovering"
  /\ rec[id].status # "absent"
  /\ rec' = [rec EXCEPT ![id].status = "crashed", ![id].result = "crashed"]
  /\ UNCHANGED <<server, qvars, orphaned, crashes>>

\* Mistake: the record ends without a result.
RecoverStatusOnly(id) ==
  /\ server = "recovering"
  /\ id \in Interrupted
  /\ rec' = [rec EXCEPT ![id].status = "crashed"]
  /\ UNCHANGED <<server, qvars, orphaned, crashes>>

Recover(id) ==
  /\ server = "recovering"
  /\ id \in Interrupted
  /\ rec' = [rec EXCEPT ![id].status = "crashed", ![id].result = "crashed"]
  /\ UNCHANGED <<server, qvars, orphaned, crashes>>

(* initStore is done and the server listens.                               *)
Listen ==
  /\ server = "recovering"
  /\ Interrupted = {}
  /\ server' = "up"
  /\ UNCHANGED <<rec, qvars, orphaned, crashes>>

-----------------------------------------------------------------------------

Lookup(q) == \/ FindNothing(q) \/ FindConflict(q) \/ FindResult(q)
             \/ FindRetryable(q) \/ FindActive(q)
Write(q) == Create(q) \/ CreateCollides(q) \/ Requeue(q)
InPool(q) == \/ Refuse(q) \/ Dispatch(q) \/ RunnerAnswers(q) \/ RunnerDrops(q)
             \/ MarkRunning(q) \/ MarkRunningFails(q)
End(q) == Finish(q) \/ FinishFails(q) \/ Fail(q) \/ FailFails(q)

Next ==
  \/ \E q \in Requests : Lookup(q) \/ Write(q) \/ StoreFailsEarly(q) \/ InPool(q) \/ End(q)
  \/ \E id \in Ids : Recover(id)
  \/ Crash
  \/ Listen

Spec == Init /\ [][Next]_vars

(* Every statement returns, the pool settles a call or drops it            *)
(* (OnlyDroppedCallsHang of DenoPool), and a started server finishes its   *)
(* recovery.                                                               *)
FairSpec ==
  /\ Spec
  /\ \A q \in Requests : WF_vars(Write(q) \/ InPool(q) \/ End(q))
  /\ \A id \in Ids : WF_vars(Recover(id))
  /\ WF_vars(Listen)

-----------------------------------------------------------------------------
(* Properties                                                              *)

(* A record that says queued or running has somebody who will end it: a    *)
(* request under way for this job, or the recovery at startup.  The two    *)
(* ways out are a failJobRecord that failed and a request whose pool.run   *)
(* never returns.  (server.ts starts to listen only after                  *)
(* recoverInterruptedJobs has seen every active record.)                   *)
NoZombieRecord ==
  \A id \in Ids : server = "up" /\ Active(id) =>
    \/ \E q \in Requests :
         IdOf[q] = id /\ pc[q] \in {"pool", "finish", "fail"} /\ ~Hung(q)
    \/ id \in orphaned
    \/ \E q \in Requests : IdOf[q] = id /\ Hung(q)

(* The request that created the record never executes next to another one  *)
(* of the same job: findUnique sees its queued or running record and the   *)
(* primary key stops a concurrent create.                                  *)
CreatorRunsAlone ==
  \A q, p \in Requests :
    q # p /\ IdOf[q] = IdOf[p] /\ origin[q] = "created" /\ Executing(q) => ~Executing(p)

(* README.md:197, "same `jobId` while the original job is queued or        *)
(* running returns retryable `JOB_ALREADY_RUNNING`": two requests never    *)
(* execute the same job at the same time.                                  *)
OneExecutionPerJob ==
  \A q, p \in Requests : q # p /\ IdOf[q] = IdOf[p] => ~(Executing(q) /\ Executing(p))

(* A reply that tells what the user's code did comes from an execution of  *)
(* the same job with the same request hash.                                *)
AnswersItsOwnRequest ==
  \A q \in Requests : pc[q] = "replied" /\ outcome[q] \in {"ok", "userError"} =>
    /\ by[q] # None
    /\ IdOf[by[q]] = IdOf[q] /\ HashOf[by[q]] = HashOf[q]

(* A client that was told what the user's code did finds the same in the   *)
(* record, through later requests, crashes and recoveries: the result is   *)
(* stored before it is told.  Only a job that another request requeued at  *)
(* some time is excepted: requeued executions overwrite each other.        *)
ToldIsStored ==
  \A q \in Requests : pc[q] = "replied" /\ outcome[q] \in {"ok", "userError"} =>
    \/ Final(IdOf[q]) /\ rec[IdOf[q]].result = outcome[q]
    \/ \E p \in Requests \ {q} : IdOf[p] = IdOf[q] /\ origin[p] = "requeued"

(* A record that has ended has a result, and its status and the result     *)
(* belong together, whichever of the concurrent writers came last: the     *)
(* lookup tests both to decide between return, requeue and refusal.  (An   *)
(* active record may carry an old result when two requeued requests run.)  *)
StatusMatchesResult ==
  \A id \in Ids : rec[id].status \in Terminal =>
    rec[id].result # None /\ rec[id].status = StatusForResult(rec[id].result)

(* A final record (success or an error of the user's code) stays as it is  *)
(* once nobody is under way for its job, through crashes and recoveries,   *)
(* and a request that comes later is answered without an execution.        *)
FinalStays ==
  [][/\ \A id \in Ids :
          Final(id) /\ (\A q \in Requests : IdOf[q] = id => pc[q] \notin UnderWay)
            => rec'[id] = rec[id]
     /\ \A q \in Requests :
          Final(IdOf[q]) /\ pc[q] = "new" => pc'[q] \in {"new", "replied"}]_vars

(* An active record does not stay active: its request ends it, or the next *)
(* startup does.  Without a startup it does stay when failJobRecord failed *)
(* and when the pool dropped the call of a request for it.                 *)
EveryRecordSettles ==
  \A id \in Ids : Active(id) ~>
    \/ rec[id].status \in Terminal
    \/ id \in orphaned
    \/ \E q \in Requests : IdOf[q] = id /\ Hung(q)
=============================================================================

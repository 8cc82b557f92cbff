------------------------------- MODULE CodeJobs -------------------------------
(***************************************************************************)
(* src/workspace-api.ts, the CodeJob rows: createCodeJob, controlCodeJob,  *)
(* controlWorkers and executeCodeJob, together with the requests that      *)
(* change the workspace whose bundles the jobs run (WorkspaceVersions).    *)
(*                                                                         *)
(* A job runs in an executor: a call of executeCodeJob that the request    *)
(* which created, retried or resumed the job starts and does not await,    *)
(* and that calls itself for the next attempt.  Nothing else runs jobs, no *)
(* executor knows of another, and the rows outlive all of them.            *)
(*                                                                         *)
(* One action is one awaited statement and what its handler goes on with   *)
(* up to the next.  Abstracted: RunService.run, which succeeds or fails    *)
(* (JobLifecycle), results, errors, times and priorities of a job, its log *)
(* lines, which are a point where the store may fail, and listings.        *)
(***************************************************************************)
EXTENDS WorkspaceVersions

CONSTANTS
  MaxAttempts   \* maxAttempts of every job

ASSUME MaxAttemptsAssumption == MaxAttempts \in Nat \ {0}

VARIABLES
  job,      \* job[j]: the CodeJob row that request j created, or None
  orphan,   \* jobs that a fault has left without an executor (history)
  worker,   \* status of the CodeWorker row, which no executor reads
  exec      \* exec[r]: the executor that request r started, see Exec

jobvars == <<job, orphan, worker, exec>>
vars == <<rowvars, reqvars, jobvars>>

Settled == {"succeeded", "failed", "cancelled", "paused"}

Job == [status : {"queued", "running"} \cup Settled, attempt : Nat, version : Versions,
        entry : Entries, code : Nat, runNow : BOOLEAN]

ASSUME NoJobAssumption == None \notin Requests \cup Job

(* code: the bundle it read; nested: it called itself, which nobody        *)
(* catches; overtaken: its job was cancelled since it read it (history).   *)
Exec == [at : {"none", "find", "start", "run", "requeue", "fail",
               "again", "last", "mark", "done"},
         job : Requests \cup {None}, code : Nat, nested : BOOLEAN, overtaken : BOOLEAN]
Idle == [at |-> "none", job |-> None, code |-> 0, nested |-> FALSE, overtaken |-> FALSE]
Executor(j) == [Idle EXCEPT !.at = "find", !.job = j]

JobAsk == [route : {"job"}, version : Versions, entry : Entries, runNow : BOOLEAN]
ControlAsk == [route : {"retry", "resume", "cancel", "pause"}, job : Requests]
WorkersAsk == [route : {"workers"}, status : {"idle", "paused", "offline"}]

TypeOK ==
  /\ current \in 0..MaxVersion \cup {None}
  /\ rows \in [Versions -> Row \cup {None}]
  /\ replaced \subseteq ClientIds
  /\ pc \in [Requests -> {"new", "create", "lookup", "save", "version", "building", "persist",
                          "resolve", "log"} \cup Ended]
  /\ asked \in [Requests -> Ask \cup JobAsk \cup ControlAsk \cup WorkersAsk \cup {None}]
  /\ job \in [Requests -> Job \cup {None}]
  /\ orphan \subseteq Requests
  /\ worker \in {None, "idle", "paused", "offline"}
  /\ exec \in [Requests -> Exec]

Init ==
  /\ InitVersions
  /\ job = [r \in Requests |-> None]
  /\ orphan = {}
  /\ worker = None
  /\ exec = [r \in Requests |-> Idle]

-----------------------------------------------------------------------------
(* createCodeJob                                                           *)

CreateJob(r, a) ==
  /\ a \in JobAsk
  /\ Arrives(r, a, IF Found THEN "resolve" ELSE "ended")
  /\ UNCHANGED jobvars

(* resolveStoredBundle, then the insert with the bundle that was found.    *)
InsertJob(r) ==
  LET a == asked[r]
      found == IF rows[a.version] = None THEN {} ELSE Resolve(rows[a.version].bundles, a.entry)
  IN  /\ pc[r] = "resolve"
      /\ \/ found = {} /\ Goto(r, "ended") /\ UNCHANGED job
         \/ \E e \in found :
              /\ job' = [job EXCEPT ![r] =
                   [status |-> "queued", attempt |-> 0, version |-> a.version, entry |-> e,
                    code |-> rows[a.version].bundles[e], runNow |-> a.runNow]]
              /\ Goto(r, "log")
      /\ UNCHANGED <<rowvars, orphan, worker, exec>>

(* The job or request a logged request is about.                           *)
JobOf(r) == IF asked[r].route = "job" THEN r ELSE asked[r].job
Executes(r) == asked[r].route \in {"retry", "resume"} \/ (asked[r].route = "job" /\ asked[r].runNow)

(* addJobLog, and the executor is started.                                 *)
LogRequest(r) ==
  /\ pc[r] = "log"
  /\ exec' = IF Executes(r) THEN [exec EXCEPT ![r] = Executor(JobOf(r))] ELSE exec
  /\ Goto(r, "ended")
  /\ UNCHANGED <<rowvars, job, orphan, worker>>

-----------------------------------------------------------------------------
(* controlCodeJob, controlWorkers                                          *)

Controlled(row, action) ==
  CASE action = "retry" -> [row EXCEPT !.status = "queued", !.attempt = 0, !.runNow = TRUE]
    [] action = "resume" -> [row EXCEPT !.status = "queued", !.runNow = TRUE]
    [] action = "cancel" -> [row EXCEPT !.status = "cancelled"]
    [] action = "pause" -> [row EXCEPT !.status = "paused"]

(* The find and the update: no job is ever deleted.  The log line of a     *)
(* cancel or a pause decides nothing more.                                 *)
Control(r, a) ==
  /\ a \in ControlAsk
  /\ Arrives(r, a, IF job[a.job] # None /\ a.route \in {"retry", "resume"} THEN "log" ELSE "ended")
  /\ IF job[a.job] = None
     THEN UNCHANGED <<job, orphan, exec>>
     ELSE /\ job' = [job EXCEPT ![a.job] = Controlled(@, a.route)]
          /\ orphan' = IF a.route \in {"retry", "resume"} THEN orphan \ {a.job} ELSE orphan
          /\ exec' = [e \in Requests |->
                        IF a.route = "cancel" /\ exec[e].job = a.job
                        THEN [exec[e] EXCEPT !.overtaken = exec[e].at \notin {"find", "done"}]
                        ELSE exec[e]]
  /\ UNCHANGED worker

ControlWorkers(r, a) ==
  /\ a \in WorkersAsk
  /\ Arrives(r, a, "ended")
  /\ worker' = a.status
  /\ UNCHANGED <<job, orphan, exec>>

-----------------------------------------------------------------------------
(* executeCodeJob, in executor e                                           *)

At(e, where) == exec[e].at = where
Step(e, where) == exec' = [exec EXCEPT ![e].at = where,
                                       ![e].code = IF where = "run" THEN @ ELSE 0]
Finished(e) == exec' = [exec EXCEPT ![e] = [Idle EXCEPT !.at = "done", !.job = exec[e].job]]
JobOfExec(e) == job[exec[e].job]
JobBecomes(e, status) == job' = [job EXCEPT ![exec[e].job].status = status]
OnlyJobs == UNCHANGED <<rowvars, reqvars, orphan, worker>>

(* The job and its version's meta are read; a cancelled job is left alone. *)
\* Mistake: the status is not looked at.
FindAnyJob(e) ==
  /\ At(e, "find")
  /\ exec' = [exec EXCEPT
       ![e].at = "start",
       ![e].code = rows[JobOfExec(e).version].bundles[JobOfExec(e).entry],
       ![e].overtaken = FALSE]
  /\ OnlyJobs /\ UNCHANGED job

FindJob(e) ==
  /\ At(e, "find")
  /\ IF JobOfExec(e).status = "cancelled" THEN Finished(e)
     ELSE exec' = [exec EXCEPT
            ![e].at = "start",
            ![e].code = rows[JobOfExec(e).version].bundles[JobOfExec(e).entry],
            ![e].overtaken = FALSE]
  /\ OnlyJobs /\ UNCHANGED job

(* The attempt starts.  The error thrown when the bundle is not in what    *)
(* was read is no action: JobKeepsItsBundle shows that it is.              *)
StartAttempt(e) ==
  /\ At(e, "start")
  /\ job' = [job EXCEPT ![exec[e].job].status = "running", ![exec[e].job].attempt = @ + 1]
  /\ Step(e, "run")
  /\ OnlyJobs

(* RunService.run has answered with a success, its logs are written.       *)
Succeed(e) ==
  /\ At(e, "run")
  /\ JobBecomes(e, "succeeded")
  /\ Step(e, "last")
  /\ OnlyJobs

(* It has answered with an error: the row is read again for its attempts.  *)
\* Mistake: one attempt too many.
RetryAtLimit(e) == JobOfExec(e).attempt <= MaxAttempts

ShouldRetry(e) == JobOfExec(e).attempt < MaxAttempts

FindLatest(e) ==
  /\ At(e, "run")
  /\ Step(e, IF ShouldRetry(e) THEN "requeue" ELSE "fail")
  /\ OnlyJobs /\ UNCHANGED job

(* The job is queued, whatever its status is by now.                       *)
\* Mistake: nextRunAt is left to a scheduler, which there is not.
RequeueForLater(e) ==
  /\ At(e, "requeue")
  /\ JobBecomes(e, "queued")
  /\ Step(e, "last")
  /\ OnlyJobs

Requeue(e) ==
  /\ At(e, "requeue")
  /\ JobBecomes(e, "queued")
  /\ Step(e, "again")
  /\ OnlyJobs

Fail(e) ==
  /\ At(e, "fail")
  /\ JobBecomes(e, "failed")
  /\ Step(e, "last")
  /\ OnlyJobs

(* The last addJobLog; after a requeue executeCodeJob calls itself.        *)
LogAttempt(e) ==
  /\ \/ At(e, "again") /\ exec' = [exec EXCEPT ![e].at = "find", ![e].nested = TRUE]
     \/ At(e, "last") /\ Finished(e)
  /\ OnlyJobs /\ UNCHANGED job

(* markCodeJobFailed                                                       *)
Mark(e) ==
  /\ At(e, "mark")
  /\ JobBecomes(e, "failed")
  /\ Finished(e)
  /\ OnlyJobs

-----------------------------------------------------------------------------
(* Faults, of which there may be any number                                *)

(* A statement of a request fails.  After the update of a retry or resume, *)
(* or the insert of a job, the job is left queued.                         *)
RequestFails(r) ==
  /\ pc[r] \notin {"new", "building"} \cup Ended
  /\ orphan' = IF pc[r] = "log" /\ Executes(r) THEN orphan \cup {JobOf(r)} ELSE orphan
  /\ Goto(r, "ended")
  /\ UNCHANGED <<rowvars, job, worker, exec>>

(* A statement of an executor or RunService.run throws.  A nested executor *)
(* is not caught and the rejection ends the process, see Crash.            *)
ExecutorThrows(e) ==
  /\ exec[e].at \notin {"none", "mark", "done"}
  /\ ~exec[e].nested
  /\ Step(e, "mark")
  /\ UNCHANGED <<rowvars, reqvars, job, orphan, worker>>

(* markCodeJobFailed swallows the error of its own update.                 *)
MarkFails(e) ==
  /\ At(e, "mark")
  /\ Finished(e)
  /\ orphan' = orphan \cup {exec[e].job}
  /\ UNCHANGED <<rowvars, reqvars, job, worker>>

(* The process ends with its requests and executors.  The next one starts  *)
(* with the rows, and looks for no CodeJob to go on with.                  *)
Crash ==
  /\ pc' = [r \in Requests |-> IF pc[r] \in {"new"} \cup Ended THEN pc[r] ELSE "ended"]
  /\ asked' = [r \in Requests |-> None]
  /\ exec' = [e \in Requests |-> IF At(e, "none") THEN exec[e]
                                 ELSE [Idle EXCEPT !.at = "done", !.job = exec[e].job]]
  /\ orphan' = {j \in Requests : job[j] # None /\ job[j].status \in {"queued", "running"}}
  /\ UNCHANGED <<rowvars, job, worker>>

-----------------------------------------------------------------------------

JobRequestStep(r) ==
  \/ \E a \in JobAsk : CreateJob(r, a)
  \/ \E a \in ControlAsk : Control(r, a)
  \/ \E a \in WorkersAsk : ControlWorkers(r, a)
  \/ InsertJob(r) \/ LogRequest(r) \/ RequestFails(r)

ExecutorStep(e) ==
  \/ FindJob(e) \/ StartAttempt(e) \/ Succeed(e) \/ FindLatest(e)
  \/ Requeue(e) \/ Fail(e) \/ LogAttempt(e) \/ Mark(e)
  \/ ExecutorThrows(e) \/ MarkFails(e)

Next ==
  \/ \E r \in Requests : VersionsStep(r) /\ UNCHANGED jobvars
  \/ \E r \in Requests : JobRequestStep(r) \/ ExecutorStep(r)
  \/ Crash

Spec == Init /\ [][Next]_vars

-----------------------------------------------------------------------------
(* Properties                                                              *)

(* From its creation on a job's entry has a bundle in its version row, and *)
(* no attempt runs an older one than the job was created with: drafts,     *)
(* which rewrite meta, and other bundles leave it (workspace-api.ts:290,   *)
(* :795, :1173).                                                           *)
JobKeepsItsBundle ==
  /\ \A j \in Requests : job[j] # None =>
       /\ rows[job[j].version] # None
       /\ 1 <= job[j].code /\ job[j].code <= rows[job[j].version].bundles[job[j].entry]
  /\ \A e \in Requests : exec[e].at \in {"start", "run"} =>
       JobOfExec(e).code <= exec[e].code

(* A job that is running, or queued to be run, has an executor that is not *)
(* done or a request about to start one, or a fault took that from it.     *)
(* Nothing else would ever run it (workspace-api.ts:668, :735, :850).      *)
NoOrphanJob ==
  \A j \in Requests \ orphan :
    /\ job[j] # None
    /\ job[j].status = "running" \/ (job[j].status = "queued" /\ job[j].runNow)
    => \/ \E e \in Requests : exec[e].job = j /\ exec[e].at # "done"
       \/ \E r \in Requests : pc[r] = "log" /\ Executes(r) /\ JobOf(r) = j

(* Executors of one job count attempts in its row without knowing of each  *)
(* other: between them they go beyond maxAttempts by at most one attempt   *)
(* for every retry or resume (workspace-api.ts:791, :839).                 *)
AttemptsWithinBudget ==
  \A j \in Requests : job[j] # None =>
    LET started == Cardinality({e \in Requests : exec[e].job = j})
    IN  job[j].attempt <= MaxAttempts + (IF started = 0 THEN 0 ELSE started - 1)

(* A cancelled job stays cancelled until a request changes its status     *)
(* again, but for an attempt under way at the cancel, which goes on        *)
(* and writes its outcome over it, and for an executor that threw          *)
(* (workspace-api.ts:787, :823).                                           *)
CancelHolds ==
  [][\A j \in Requests :
       job[j] # None /\ job[j].status = "cancelled" /\ job'[j].status # "cancelled"
       => \/ \E r \in Requests : pc[r] = "new" /\ pc'[r] # "new"
          \/ \E e \in Requests : /\ exec[e].job = j /\ exec'[e] # exec[e]
                                 /\ exec[e].overtaken \/ At(e, "mark")]_vars
=============================================================================

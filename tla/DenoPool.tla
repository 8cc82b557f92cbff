------------------------------- MODULE DenoPool -------------------------------
(***************************************************************************)
(* src/deno-pool.ts: DenoPool and its DenoRunnerProcess objects.           *)
(*                                                                         *)
(* A fixed set of runners, each one a Deno child process that executes one *)
(* job at a time; jobs that find no idle runner wait in a FIFO queue.      *)
(* Node runs an event handler to completion, so one action is one handler  *)
(* with every callback it makes synchronously and every promise            *)
(* continuation that follows before the next event: a result that frees a  *)
(* runner also settles its job and dispatches the head of the queue.  An   *)
(* await on something outside the process (the onStart callback, which     *)
(* writes the job record) ends the action.                                 *)
(*                                                                         *)
(* A line that bears the jobId of the current job is its result, whoever   *)
(* wrote it: user code can post such a message (see RunnerProtocol).  When *)
(* it has no logs, finishCurrent throws after it has cleared current and   *)
(* its timer and before it resolves the promise: the call never returns    *)
(* ("dropped"), the runner looks idle, nobody drains, and the child is     *)
(* killed.                                                                 *)
(*                                                                         *)
(* Abstracted: the text of messages, the delays (a timer may fire whenever *)
(* it is set), crashCount, which only stretches the restart delay, stderr, *)
(* logging, and db.query lines, which leave this state alone.              *)
(***************************************************************************)
EXTENDS Integers, Sequences

CONSTANTS
  PoolSize,  \* config.poolSize
  Jobs,      \* calls of DenoPool.run, each with a jobId of its own
  None       \* no job

ASSUME PoolSizeAssumption == PoolSize \in Nat \ {0}
ASSUME NoneAssumption == None \notin Jobs

VARIABLES
  \* --- one DenoRunnerProcess r
  child,      \* child[r]: the newest child process, as the parent can know it
  idle,       \* idle[r]: this.idle
  current,    \* current[r]: the job of this.current, or None
  restart,    \* restart[r]: restartTimer is set
  stopping,   \* stopping[r]: this.stopping
  respawned,  \* the runners whose child is not their first one (history)
  \* --- the Deno processes and their stdout pipes (external)
  exec,       \* exec[r]: the job r's child executes, its answer not yet read
  late,       \* late[r]: a job an earlier child answered just before it exited
  \* --- DenoPool
  pending,    \* the queue of waiting jobs
  close,      \* "open", "grace" while close() polls, "idle" or "expired" after
  \* --- the calls of DenoPool.run
  job,        \* job[j]: where the call for j is
  on,         \* on[j]: the runner a started call holds in its closure
  answer      \* answer[j]: the job whose answer settled j (history)

rvars == <<child, idle, current, restart, stopping, respawned>>
pvars == <<pending, close>>
jvars == <<job, on, answer>>
vars == <<child, idle, current, restart, stopping, respawned, exec, late,
          pending, close, job, on, answer>>

Runners == 1..PoolSize
NoRunner == 0

(* "up": spawned.  "killed": a signal was sent or the pipe broke, the exit *)
(* event is still to come.  "exited": the exit event was delivered.        *)
(* "lost": the error event of a failed spawn was delivered.                *)
ChildState == {"up", "killed", "exited", "lost"}

(* Started calls hold a runner, and so, for good, does one that was        *)
(* dropped; the others have an outcome, "busy" and "shutdown" both being   *)
(* POOL_BUSY.                                                              *)
Started == {"starting", "running"}
Settled == {"result", "crashed", "busy", "shutdown", "rejected"}
JobState == {"new", "queued", "dropped"} \cup Started \cup Settled

closing == close # "open"

(* this.alive: set by start(), reset by the exit and the error event.      *)
AliveChild(c) == c \in {"up", "killed"}
Alive(r) == AliveChild(child[r])

Kill(c) == IF c = "up" THEN "killed" ELSE c

(* findIdleRunner: the first runner that is alive and idle.                *)
IdleIn(ch, id) == {r \in Runners : AliveChild(ch[r]) /\ id[r]}
First(S) == CHOOSE r \in S : \A q \in S : r <= q

(* The splice of removePending.                                            *)
\* Mistake: an entry next to the one that was found is cut out.
WithoutNext(s, i) == SubSeq(s, 1, i) \o SubSeq(s, i + 2, Len(s))
Without(s, i) == SubSeq(s, 1, i - 1) \o SubSeq(s, i + 1, Len(s))

-----------------------------------------------------------------------------

Init ==
  /\ child \in [Runners -> {"up", "lost"}]
  /\ idle = [r \in Runners |-> TRUE]
  /\ current = [r \in Runners |-> None]
  /\ restart = [r \in Runners |-> FALSE]
  /\ stopping = [r \in Runners |-> FALSE]
  /\ respawned = {}
  /\ exec = [r \in Runners |-> None]
  /\ late = [r \in Runners |-> None]
  /\ pending = <<>>
  /\ close = "open"
  /\ job = [j \in Jobs |-> "new"]
  /\ on = [j \in Jobs |-> NoRunner]
  /\ answer = [j \in Jobs |-> None]

(* The runners that n rounds of drain's loop find: each time the first of  *)
(* those that are still free.                                              *)
Found(free, n) ==
  {s \in [1..n -> free] :
     \A i \in 1..n : LET left == free \ {s[k] : k \in 1..(i - 1)}
                    IN  s[i] \in left /\ \A r \in left : s[i] <= r}

(* drain(), after a handler that leaves the children in ch, the idle flags *)
(* at id, the calls in jb and their runners in o: until nobody waits or no *)
(* runner is found.  The onStart of a dispatched job is called and         *)
(* awaited; its queue timer is cleared.                                    *)
Drain(ch, id, jb, o) ==
  LET free == IdleIn(ch, id)
  IN  \E n \in 0..Len(pending) : \E s \in Found(free, n) :
        LET taken == {s[i] : i \in 1..n}
            first == {pending[i] : i \in 1..n}
        IN  /\ IF closing THEN n = 0 ELSE n = Len(pending) \/ taken = free
            /\ pending' = SubSeq(pending, n + 1, Len(pending))
            /\ idle' = [r \in Runners |-> id[r] /\ r \notin taken]
            /\ job' = [j \in Jobs |-> IF j \in first THEN "starting" ELSE jb[j]]
            /\ on' = [j \in Jobs |-> IF j \in first
                                     THEN s[CHOOSE i \in 1..n : pending[i] = j]
                                     ELSE o[j]]

(* failCurrent settles the current job as crashed and leaves its runner    *)
(* reserved; the rejection makes startOnRunner drain.                      *)
FailCurrent(r, ch, id) ==
  LET j == current[r]
  IN  /\ current' = [current EXCEPT ![r] = None]
      /\ Drain(ch, [id EXCEPT ![r] = FALSE], [job EXCEPT ![j] = "crashed"],
               [on EXCEPT ![j] = NoRunner])

(* failCurrent and SIGKILL, the reaction to whatever is wrong with a       *)
(* child.  Without a current job there is no rejection and no drain.       *)
\* Mistake: the child is not killed and may still answer.
FailOnly(r) ==
  /\ IF current[r] = None THEN UNCHANGED <<idle, current, pending, job, on>>
                          ELSE FailCurrent(r, child, idle)
  /\ UNCHANGED <<child, answer>>

FailAndKill(r) ==
  LET ch == [child EXCEPT ![r] = Kill(@)]
  IN  /\ child' = ch
      /\ IF current[r] = None THEN UNCHANGED <<idle, current, pending, job, on>>
                              ELSE FailCurrent(r, ch, idle)
      /\ UNCHANGED answer

-----------------------------------------------------------------------------
(* The calls of DenoPool.run                                               *)

(* run() while closing returns POOL_BUSY at once.                          *)
RunRefused(j) ==
  /\ job[j] = "new"
  /\ closing
  /\ job' = [job EXCEPT ![j] = "shutdown"]
  /\ UNCHANGED <<rvars, exec, late, pvars, on, answer>>

(* run() with an idle runner reserves it and calls onStart.                *)
\* Mistake: the runner is not taken out of the idle ones.
RunStartedUnreserved(j) ==
  /\ job[j] = "new"
  /\ ~closing
  /\ IdleIn(child, idle) # {}
  /\ job' = [job EXCEPT ![j] = "starting"]
  /\ on' = [on EXCEPT ![j] = First(IdleIn(child, idle))]
  /\ UNCHANGED <<rvars, exec, late, pvars, answer>>

RunStarted(j) ==
  LET free == IdleIn(child, idle)
  IN  /\ job[j] = "new"
      /\ ~closing
      /\ free # {}
      /\ idle' = [idle EXCEPT ![First(free)] = FALSE]
      /\ job' = [job EXCEPT ![j] = "starting"]
      /\ on' = [on EXCEPT ![j] = First(free)]
      /\ UNCHANGED <<child, current, restart, stopping, respawned, exec, late, pvars, answer>>

(* run() with no idle runner: the job waits, its queue timer running.      *)
RunQueued(j) ==
  /\ job[j] = "new"
  /\ ~closing
  /\ IdleIn(child, idle) = {}
  /\ job' = [job EXCEPT ![j] = "queued"]
  /\ pending' = Append(pending, j)
  /\ UNCHANGED <<rvars, exec, late, close, on, answer>>

(* The queue timer: the job leaves the queue and its call returns POOL_BUSY *)
QueueTimeout(j) ==
  /\ job[j] = "queued"
  /\ \E i \in DOMAIN pending :
       /\ pending[i] = j
       /\ pending' = Without(pending, i)
  /\ job' = [job EXCEPT ![j] = "busy"]
  /\ UNCHANGED <<rvars, exec, late, close, on, answer>>

(* onStart resolved: runner.run(job).  A dead or busy runner rejects, and  *)
(* the call settles as crashed; otherwise the job is written to the child. *)
\* Mistake: the call of a runner found dead is refused, not crashed.
StartResolvedBusy(j) ==
  /\ job[j] = "starting"
  /\ ~Alive(on[j])
  /\ job' = [job EXCEPT ![j] = "busy"]
  /\ on' = [on EXCEPT ![j] = NoRunner]
  /\ UNCHANGED <<rvars, exec, late, pvars, answer>>

StartResolved(j) ==
  LET r == on[j]
  IN  /\ job[j] = "starting"
      /\ IF ~Alive(r) \/ current[r] # None
         THEN /\ Drain(child, idle, [job EXCEPT ![j] = "crashed"],
                       [on EXCEPT ![j] = NoRunner])
              /\ UNCHANGED <<current, exec>>
         ELSE /\ current' = [current EXCEPT ![r] = j]
              /\ idle' = [idle EXCEPT ![r] = FALSE]
              /\ job' = [job EXCEPT ![j] = "running"]
              /\ exec' = IF child[r] = "up" THEN [exec EXCEPT ![r] = j] ELSE exec
              /\ UNCHANGED <<pending, on>>
      /\ UNCHANGED <<child, restart, stopping, respawned, late, close, answer>>

(* onStart threw: releaseReservation frees the runner unless a job runs on *)
(* it, and the call rejects.                                               *)
\* Mistake: the reservation is not released.
StartRejectedHeld(j) ==
  /\ job[j] = "starting"
  /\ Drain(child, idle, [job EXCEPT ![j] = "rejected"], [on EXCEPT ![j] = NoRunner])
  /\ UNCHANGED <<child, current, restart, stopping, respawned, exec, late, close, answer>>

StartRejected(j) ==
  LET r == on[j]
  IN  /\ job[j] = "starting"
      /\ Drain(child, IF current[r] = None THEN [idle EXCEPT ![r] = TRUE] ELSE idle,
               [job EXCEPT ![j] = "rejected"], [on EXCEPT ![j] = NoRunner])
      /\ UNCHANGED <<child, current, restart, stopping, respawned, exec, late, close, answer>>

-----------------------------------------------------------------------------
(* The events of a runner's child process                                  *)

(* finishCurrent throws on a line without logs, and the catch of           *)
(* consumeStdout finds no current job to fail: the promise is never        *)
(* settled and nothing drains before the exit event of the killed child.   *)
DropCall(r) ==
  LET j == current[r]
  IN  /\ current' = [current EXCEPT ![r] = None]
      /\ idle' = [idle EXCEPT ![r] = TRUE]
      /\ child' = [child EXCEPT ![r] = Kill(@)]
      /\ job' = [job EXCEPT ![j] = "dropped"]
      /\ UNCHANGED <<pending, on, answer>>

(* consumeStdout on the answer of job w: ignored when nothing runs, the    *)
(* result of the current job when it is its own, unless it has no logs,    *)
(* and otherwise proof that the child is broken.                           *)
\* Mistake: whatever answer comes is taken for the current job's.
ReadAnyAnswer(r, w) ==
  LET j == current[r]
  IN  /\ j # None
      /\ current' = [current EXCEPT ![r] = None]
      /\ answer' = [answer EXCEPT ![j] = w]
      /\ Drain(child, [idle EXCEPT ![r] = TRUE], [job EXCEPT ![j] = "result"],
               [on EXCEPT ![j] = NoRunner])
      /\ UNCHANGED child

ReadAnswer(r, w) ==
  LET j == current[r]
  IN  \/ /\ j = None
         /\ UNCHANGED <<child, idle, current, pending, jvars>>
      \/ /\ j # None /\ w = j
         /\ current' = [current EXCEPT ![r] = None]
         /\ answer' = [answer EXCEPT ![j] = w]
         /\ Drain(child, [idle EXCEPT ![r] = TRUE], [job EXCEPT ![j] = "result"],
                  [on EXCEPT ![j] = NoRunner])
         /\ UNCHANGED child
      \/ /\ j # None /\ w = j
         /\ DropCall(r)
      \/ /\ j # None /\ w # j
         /\ FailAndKill(r)

(* The answer of the child's job arrives, before or after its exit event   *)
(* was due: a killed child may have answered already.                      *)
Answer(r) ==
  /\ Alive(r)
  /\ exec[r] # None
  /\ ReadAnswer(r, exec[r])
  /\ exec' = [exec EXCEPT ![r] = None]
  /\ UNCHANGED <<restart, stopping, respawned, late, close>>

(* stdout of an earlier child delivers its last line after its exit event. *)
LateAnswer(r) ==
  /\ late[r] # None
  /\ ReadAnswer(r, late[r])
  /\ late' = [late EXCEPT ![r] = None]
  /\ UNCHANGED <<restart, stopping, respawned, exec, close>>

(* The parent timer of the current job.                                    *)
ParentTimeout(r) ==
  /\ current[r] # None
  /\ FailAndKill(r)
  /\ UNCHANGED <<restart, stopping, respawned, exec, late, close>>

(* A line that is not JSON or has the jobId of no or of an earlier job     *)
(* while a job runs, a failed write to stdin, or more than 1 MiB of output *)
(* without a newline, with a job or without.                               *)
StreamBroken(r) ==
  /\ Alive(r)
  /\ FailAndKill(r)
  /\ UNCHANGED <<restart, stopping, respawned, exec, late, close>>

(* The exit event, after a signal or by the child's own doing.  It drains, *)
(* whether or not there was a job to fail.                                 *)
Exit(r) ==
  LET ch == [child EXCEPT ![r] = "exited"]
  IN  /\ Alive(r)
      /\ child' = ch
      /\ IF current[r] = None
         THEN /\ Drain(ch, [idle EXCEPT ![r] = FALSE], job, on)
              /\ UNCHANGED current
         ELSE FailCurrent(r, ch, idle)
      /\ restart' = [restart EXCEPT ![r] = ~stopping[r]]
      /\ exec' = [exec EXCEPT ![r] = None]
      /\ late' \in {late, [late EXCEPT ![r] = exec[r]]}
      /\ UNCHANGED <<stopping, respawned, close, answer>>

(* The restart timer: start() marks the runner alive and idle and drains.  *)
(* When the spawn fails its error event follows before any other event; no *)
(* exit event comes, so nothing schedules another restart.                 *)
\* Mistake: start() does not report the runner it brings back.
RestartUnnoticed(r) ==
  /\ restart[r]
  /\ ~stopping[r]
  /\ restart' = [restart EXCEPT ![r] = FALSE]
  /\ respawned' = respawned \cup {r}
  /\ idle' = [idle EXCEPT ![r] = TRUE]
  /\ child' = [child EXCEPT ![r] = "up"]
  /\ UNCHANGED <<current, stopping, exec, late, pvars, jvars>>

Restart(r) ==
  /\ restart[r]
  /\ ~stopping[r]
  /\ restart' = [restart EXCEPT ![r] = FALSE]
  /\ respawned' = respawned \cup {r}
  /\ Drain([child EXCEPT ![r] = "up"], [idle EXCEPT ![r] = TRUE], job, on)
  /\ \E c \in {"up", "lost"} : child' = [child EXCEPT ![r] = c]
  /\ UNCHANGED <<current, stopping, exec, late, close, answer>>

-----------------------------------------------------------------------------
(* Shutdown                                                                *)

(* close(), up to the first poll: the queue is emptied, every waiting call *)
(* returns POOL_BUSY.                                                      *)
\* Mistake: the queue is emptied and nobody told.
CloseForgets ==
  /\ close = "open"
  /\ close' = "grace"
  /\ pending' = <<>>
  /\ UNCHANGED <<rvars, exec, late, jvars>>

Close ==
  /\ close = "open"
  /\ close' = "grace"
  /\ pending' = <<>>
  /\ job' = [j \in Jobs |-> IF job[j] = "queued" THEN "shutdown" ELSE job[j]]
  /\ UNCHANGED <<rvars, exec, late, on, answer>>

(* stop() and kill(): no restart any more, and a signal for the child.     *)
\* Mistake: a runner that looks idle is not stopped.
StopBusyRunners ==
  /\ stopping' = [r \in Runners |-> ~idle[r]]
  /\ restart' = [r \in Runners |-> FALSE]
  /\ child' = [r \in Runners |-> IF idle[r] THEN child[r] ELSE Kill(child[r])]

StopRunners ==
  /\ stopping' = [r \in Runners |-> TRUE]
  /\ restart' = [r \in Runners |-> FALSE]
  /\ child' = [r \in Runners |-> Kill(child[r])]

(* The end of the grace period: a poll finds every runner idle, or the     *)
(* deadline passes.                                                        *)
CloseEnds ==
  /\ close = "grace"
  /\ \/ close' = "idle" /\ \A r \in Runners : idle[r]
     \/ close' = "expired"
  /\ StopRunners
  /\ UNCHANGED <<idle, current, respawned, exec, late, pending, jvars>>

-----------------------------------------------------------------------------

CallStep(j) ==
  \/ RunRefused(j) \/ RunStarted(j) \/ RunQueued(j) \/ QueueTimeout(j)
  \/ StartResolved(j) \/ StartRejected(j)

RunnerStep(r) ==
  \/ Answer(r) \/ LateAnswer(r) \/ ParentTimeout(r) \/ StreamBroken(r)
  \/ Exit(r) \/ Restart(r)

Next ==
  \/ \E j \in Jobs : CallStep(j)
  \/ \E r \in Runners : RunnerStep(r)
  \/ Close
  \/ CloseEnds

Spec == Init /\ [][Next]_vars

(* Timers fire, the store answers onStart one way or the other, and a      *)
(* signalled process ends.  Nothing makes a child answer, and nothing      *)
(* makes anyone shut the server down.                                      *)
Fairness ==
  /\ \A j \in Jobs : /\ WF_vars(QueueTimeout(j))
                     /\ WF_vars(StartResolved(j) \/ StartRejected(j))
  /\ \A r \in Runners : /\ WF_vars(ParentTimeout(r))
                        /\ WF_vars(child[r] = "killed" /\ Exit(r))
                        /\ WF_vars(Restart(r))
  /\ WF_vars(CloseEnds)

FairSpec == Spec /\ Fairness

-----------------------------------------------------------------------------
(* Properties                                                              *)

TypeOK ==
  /\ child \in [Runners -> ChildState]
  /\ idle \in [Runners -> BOOLEAN]
  /\ current \in [Runners -> Jobs \cup {None}]
  /\ restart \in [Runners -> BOOLEAN]
  /\ stopping \in [Runners -> BOOLEAN]
  /\ respawned \subseteq Runners
  /\ exec \in [Runners -> Jobs \cup {None}]
  /\ late \in [Runners -> Jobs \cup {None}]
  /\ pending \in Seq(Jobs)
  /\ close \in {"open", "grace", "idle", "expired"}
  /\ job \in [Jobs -> JobState]
  /\ on \in [Jobs -> Runners \cup {NoRunner}]
  /\ answer \in [Jobs -> Jobs \cup {None}]

(* A runner of the pool is never lost track of: it is idle and runs        *)
(* nothing, or a job runs on it, or a call that awaits onStart holds it,   *)
(* or its child is about to exit, or it waits for its restart timer.  The  *)
(* two ways out are stop/kill and a failed spawn.  A reservation that      *)
(* nobody gives back (reserve, releaseReservation, failCurrent) breaks it. *)
RunnerAccounted ==
  \A r \in Runners :
    /\ current[r] # None => Alive(r) /\ ~idle[r]
    /\ child[r] = "up" /\ ~idle[r] =>
         current[r] # None \/ \E j \in Jobs : job[j] = "starting" /\ on[j] = r
    /\ child[r] = "exited" => ~stopping[r] = restart[r]

(* Nobody waits while a runner could start: drain is called after every    *)
(* change that makes a runner available.  The one exception is the runner  *)
(* that has just dropped a call: it looks idle, is not reported, and its   *)
(* child is about to exit.                                                 *)
Dropping(r) == child[r] = "killed" /\ \E j \in Jobs : job[j] = "dropped" /\ on[j] = r
WorkConserving ==
  ~closing /\ pending # <<>> => \A r \in IdleIn(child, idle) : Dropping(r)

(* The queue holds exactly the waiting calls, each once, a job runs on at  *)
(* most one runner, and no runner still works for a call that has settled  *)
(* or was dropped.                                                         *)
JobsAccounted ==
  /\ \A j \in Jobs : job[j] = "queued" <=> \E i \in DOMAIN pending : pending[i] = j
  /\ \A i, k \in DOMAIN pending : pending[i] = pending[k] => i = k
  /\ \A j \in Jobs : job[j] \in Started \cup {"dropped"} <=> on[j] # NoRunner
  /\ \A r \in Runners : \A j \in Jobs :
       current[r] = j <=> job[j] = "running" /\ on[j] = r

(* A reservation is exclusive: of two calls that hold one runner, one was  *)
(* dropped, or the runner was restarted.  After a restart it is not        *)
(* exclusive: start() makes a runner idle although a call from before the  *)
(* exit may still await onStart, and releaseReservation of that call frees *)
(* the runner under the next holder.                                       *)
ReservationExclusive ==
  \A j, k \in Jobs :
    j # k /\ on[j] = on[k] /\ on[j] # NoRunner =>
      on[j] \in respawned \/ "dropped" \in {job[j], job[k]}

(* The child and its parent agree on what runs, as long as the child was   *)
(* not killed: the answer read next is the answer awaited, although a      *)
(* runner may have been reserved twice and jobs may have been given up.    *)
ChildInStep == \A r \in Runners : child[r] = "up" => exec[r] = current[r]

(* A call never returns the answer of another job, not even when output of *)
(* an earlier child is read after a restart.                               *)
ResultIsOwn == \A j \in Jobs : job[j] = "result" => answer[j] = j

(* Calls start in the order they came: one that starts came when nobody    *)
(* waited, or leaves the queue together with everyone ahead of it, and     *)
(* nobody gets ahead of another in the queue but by coming first.  Only a  *)
(* runner that has just dropped a call is handed to a newcomer although    *)
(* others wait, because run() looks for a runner and not at the queue.     *)
Ahead(i, j) == \E a, b \in DOMAIN pending : a < b /\ pending[a] = i /\ pending[b] = j
FirstComeFirstStarted ==
  [][/\ \A j \in Jobs : job[j] # "starting" /\ job'[j] = "starting" =>
          \/ pending = <<>>
          \/ \E n \in DOMAIN pending :
               /\ pending[n] = j
               /\ \A i \in 1..n : job'[pending[i]] = "starting"
          \/ job[j] = "new" /\ Dropping(on'[j])
     /\ \A i, j \in Jobs : Ahead(i, j)' => Ahead(i, j) \/ job[j] = "new"]_vars

(* A closing pool starts nothing and queues nothing, whichever runner      *)
(* comes back during the grace period.                                     *)
ClosingStartsNothing ==
  [][closing => \A j \in Jobs : job'[j] # job[j] => job'[j] \notin {"queued", "starting"}]_vars

(* Every call of run() returns but those dropped in finishCurrent: the     *)
(* queue timer, the parent timer and the exit event leave no promise       *)
(* behind, whatever the children do.  A dropped call never returns.        *)
OnlyDroppedCallsHang ==
  \A j \in Jobs : job[j] # "new" ~> job[j] \in Settled \cup {"dropped"}

(* After close() every child process ends and stays down, also those that  *)
(* were between exit and restart or had a job in onStart.                  *)
ClosedLeavesNoChild ==
  close \in {"idle", "expired"} ~> [](\A r \in Runners : ~Alive(r))

(* README.md on shutdown: "active jobs are allowed to finish until         *)
(* SHUTDOWN_GRACE_MS".  When close() ends its polling before the deadline, *)
(* no job is active.                                                       *)
GraceCoversActiveJobs == close = "idle" => \A j \in Jobs : job[j] \notin Started

(* What the caller sees is PoolContract.                                   *)
CallView(s) == CASE s = "queued" -> "waiting"
                 [] s \in {"busy", "shutdown"} -> "refused"
                 [] OTHER -> s
Contract == INSTANCE PoolContract
              WITH call <- [j \in Jobs |-> CallView(job[j])]
KeepsContract == Contract!Spec
=============================================================================

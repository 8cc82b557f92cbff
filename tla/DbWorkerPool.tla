----------------------------- MODULE DbWorkerPool -----------------------------
(***************************************************************************)
(* src/db-worker-pool.ts: DbWorkerPool, the worker threads that run saved  *)
(* SQL connection queries for sandboxed code.                              *)
(*                                                                         *)
(* An action is one handler run to completion: a query() call, a message,  *)
(* exit or timer event, or close() up to its await.  As in DenoPool one    *)
(* round of drain's loop is enough, since a handler frees one slot at most *)
(* and nobody waits while a slot is idle (WorkConserving).                 *)
(*                                                                         *)
(* terminate() does not end a thread at once: until the exit event the     *)
(* slot is alive, its messages are delivered, and what is posted to it may *)
(* or may not be answered.  runOnSlot's unshift branch is left out: both   *)
(* its callers have just found the slot idle, the negation of its test.    *)
(*                                                                         *)
(* Abstracted: connections, SQL, parameters and rows, timeout lengths and  *)
(* crashCount (restart delay), and closeConnection, which only forwards a  *)
(* message to the live workers.                                            *)
(***************************************************************************)
EXTENDS Integers, Sequences

CONSTANTS
  WorkerCount,  \* options.workerCount
  MaxQueue,     \* options.maxQueueSize
  Tasks,        \* calls of query(), each a DbQueryTask with an id of its own
  None          \* no task

ASSUME WorkerCountAssumption == WorkerCount \in Nat \ {0}
ASSUME MaxQueueAssumption == MaxQueue \in Nat \ {0}
ASSUME NoneAssumption == None \notin Tasks

VARIABLES
  worker,   \* worker[s]: the thread of slot s, as its events tell
  busy,     \* busy[s]: slot.busy
  current,  \* current[s]: slot.current, or None
  restart,  \* restart[s]: slot.restartTimer is set
  sent,     \* sent[s]: the tasks posted to the thread and not answered yet
  queue,    \* the waiting tasks
  closing,  \* this.closing, and slot.stopping of every slot
  task,     \* task[t]: where the promise of t is
  answer    \* answer[t]: the task whose answer settled t (history)

svars == <<worker, busy, current, restart>>
vars == <<worker, busy, current, restart, sent, queue, closing, task, answer>>

Slots == 1..WorkerCount

(* "terminating": terminate() was called, the exit event is to come.       *)
WorkerState == {"up", "terminating", "exited"}
Settled == {"answered", "timeout", "exited", "queueTimeout", "full", "closing"}
TaskState == {"new", "queued", "running"} \cup Settled

(* slot.alive, and slot.worker # null: both end with the exit event        *)
Alive(w) == w \in {"up", "terminating"}

(* findIdleSlot                                                            *)
IdleIn(w, b) == {s \in Slots : Alive(w[s]) /\ ~b[s]}

First(S) == CHOOSE s \in S : \A q \in S : s <= q

(* The splice of removeQueuedTask.                                         *)
Without(s, i) == SubSeq(s, 1, i - 1) \o SubSeq(s, i + 1, Len(s))

TypeOK ==
  /\ worker \in [Slots -> WorkerState]
  /\ busy \in [Slots -> BOOLEAN]
  /\ current \in [Slots -> Tasks \cup {None}]
  /\ restart \in [Slots -> BOOLEAN]
  /\ sent \in [Slots -> SUBSET Tasks]
  /\ queue \in Seq(Tasks)
  /\ closing \in BOOLEAN
  /\ task \in [Tasks -> TaskState]
  /\ answer \in [Tasks -> Tasks \cup {None}]

Init ==
  /\ worker = [s \in Slots |-> "up"]
  /\ busy = [s \in Slots |-> FALSE]
  /\ current = [s \in Slots |-> None]
  /\ restart = [s \in Slots |-> FALSE]
  /\ sent = [s \in Slots |-> {}]
  /\ queue = <<>>
  /\ closing = FALSE
  /\ task = [t \in Tasks |-> "new"]
  /\ answer = [t \in Tasks |-> None]

(* drain(), after a handler that leaves the threads in w, busy and current *)
(* at b and c, and the promises in ts; runOnSlot for the head of the queue *)
Drain(w, b, c, ts) ==
  LET idle == IdleIn(w, b)
      s == First(idle)
      go == ~closing /\ queue # <<>> /\ idle # {}
  IN  /\ queue' = IF go THEN Tail(queue) ELSE queue
      /\ busy' = IF go THEN [b EXCEPT ![s] = TRUE] ELSE b
      /\ current' = IF go THEN [c EXCEPT ![s] = Head(queue)] ELSE c
      /\ task' = IF go THEN [ts EXCEPT ![Head(queue)] = "running"] ELSE ts

(* What drain posts goes to the slot whose current task it set.            *)
Posted(base) ==
  sent' = [s \in Slots |->
             IF current'[s] # current[s] /\ current'[s] # None
             THEN base[s] \cup {current'[s]} ELSE base[s]]

(* failCurrent                                                             *)
FailCurrent(s, w, b, how) ==
  IF current[s] = None
  THEN /\ busy' = b
       /\ UNCHANGED <<current, queue, task>>
  ELSE Drain(w, [b EXCEPT ![s] = FALSE], [current EXCEPT ![s] = None],
             [task EXCEPT ![current[s]] = how])

-----------------------------------------------------------------------------
(* query()                                                                 *)

QueryRejected(t) ==
  /\ task[t] = "new"
  /\ closing
  /\ task' = [task EXCEPT ![t] = "closing"]
  /\ UNCHANGED <<svars, sent, queue, closing, answer>>

QueryFull(t) ==
  /\ task[t] = "new"
  /\ ~closing
  /\ Len(queue) >= MaxQueue
  /\ task' = [task EXCEPT ![t] = "full"]
  /\ UNCHANGED <<svars, sent, queue, closing, answer>>

(* An idle slot runs the query at once.                                    *)
QueryRun(t) ==
  LET s == First(IdleIn(worker, busy))
  IN  /\ task[t] = "new"
      /\ ~closing
      /\ Len(queue) < MaxQueue
      /\ IdleIn(worker, busy) # {}
      /\ busy' = [busy EXCEPT ![s] = TRUE]
      /\ current' = [current EXCEPT ![s] = t]
      /\ Posted(sent)
      /\ task' = [task EXCEPT ![t] = "running"]
      /\ UNCHANGED <<worker, restart, queue, closing, answer>>

QueryQueued(t) ==
  /\ task[t] = "new"
  /\ ~closing
  /\ Len(queue) < MaxQueue
  /\ IdleIn(worker, busy) = {}
  /\ queue' = Append(queue, t)
  /\ task' = [task EXCEPT ![t] = "queued"]
  /\ UNCHANGED <<svars, sent, closing, answer>>

QueueTimeout(t) ==
  /\ task[t] = "queued"
  /\ \E i \in DOMAIN queue : queue[i] = t /\ queue' = Without(queue, i)
  /\ task' = [task EXCEPT ![t] = "queueTimeout"]
  /\ UNCHANGED <<svars, sent, closing, answer>>

-----------------------------------------------------------------------------
(* The events of a slot                                                    *)

(* handleWorkerResponse: the answer to task t, ignored unless t is the     *)
(* current one.                                                            *)
\* Mistake: the id of the answer is not compared.
RespondAny(s, t) ==
  /\ t \in sent[s]
  /\ Alive(worker[s])
  /\ current[s] # None
  /\ answer' = [answer EXCEPT ![current[s]] = t]
  /\ Drain(worker, [busy EXCEPT ![s] = FALSE], [current EXCEPT ![s] = None],
           [task EXCEPT ![current[s]] = "answered"])
  /\ Posted([sent EXCEPT ![s] = @ \ {t}])
  /\ UNCHANGED <<worker, restart, closing>>

Respond(s, t) ==
  /\ t \in sent[s]
  /\ Alive(worker[s])
  /\ \/ /\ current[s] # t
        /\ UNCHANGED <<busy, current, queue, task, answer>>
     \/ /\ current[s] = t
        /\ answer' = [answer EXCEPT ![t] = t]
        /\ Drain(worker, [busy EXCEPT ![s] = FALSE], [current EXCEPT ![s] = None],
                 [task EXCEPT ![t] = "answered"])
  /\ Posted([sent EXCEPT ![s] = @ \ {t}])
  /\ UNCHANGED <<worker, restart, closing>>

(* The run timer of the current task: the task fails, drain hands the slot *)
(* to the next task, and only then the thread is terminated.               *)
RunTimeout(s) ==
  /\ current[s] # None
  /\ FailCurrent(s, worker, busy, "timeout")
  /\ Posted(sent)
  /\ worker' = [worker EXCEPT ![s] = IF @ = "up" THEN "terminating" ELSE @]
  /\ UNCHANGED <<restart, closing, answer>>

(* The exit event. While closing, the current task is left to its timer.   *)
\* Mistake: the current task is not failed.
ExitQuietly(s) ==
  /\ Alive(worker[s])
  /\ worker' = [worker EXCEPT ![s] = "exited"]
  /\ busy' = [busy EXCEPT ![s] = FALSE]
  /\ sent' = [sent EXCEPT ![s] = {}]
  /\ restart' = [restart EXCEPT ![s] = ~closing]
  /\ UNCHANGED <<current, queue, task, closing, answer>>

Exit(s) ==
  LET w == [worker EXCEPT ![s] = "exited"]
      b == [busy EXCEPT ![s] = FALSE]
  IN  /\ Alive(worker[s])
      /\ worker' = w
      /\ IF closing
         THEN /\ busy' = b
              /\ UNCHANGED <<current, queue, task>>
         ELSE FailCurrent(s, w, b, "exited")
      /\ sent' = [sent EXCEPT ![s] = {}]
      /\ restart' = [restart EXCEPT ![s] = ~closing]
      /\ UNCHANGED <<closing, answer>>

(* The restart timer: startWorker                                          *)
\* Mistake: the new worker is not offered to the queue.
RestartUnnoticed(s) ==
  /\ restart[s]
  /\ restart' = [restart EXCEPT ![s] = FALSE]
  /\ worker' = [worker EXCEPT ![s] = "up"]
  /\ busy' = [busy EXCEPT ![s] = FALSE]
  /\ UNCHANGED <<current, sent, queue, task, closing, answer>>

Restart(s) ==
  LET w == [worker EXCEPT ![s] = "up"]
  IN  /\ restart[s]
      /\ ~closing
      /\ restart' = [restart EXCEPT ![s] = FALSE]
      /\ worker' = w
      /\ Drain(w, [busy EXCEPT ![s] = FALSE], current, task)
      /\ Posted(sent)
      /\ UNCHANGED <<closing, answer>>

(* close(): the queue is rejected, every thread terminated.                *)
\* Mistake: a worker with a query is not terminated.
CloseIdleWorkers ==
  /\ ~closing
  /\ closing' = TRUE
  /\ queue' = <<>>
  /\ task' = [t \in Tasks |-> IF task[t] = "queued" THEN "closing" ELSE task[t]]
  /\ restart' = [s \in Slots |-> FALSE]
  /\ worker' = [s \in Slots |-> IF worker[s] = "up" /\ ~busy[s] THEN "terminating"
                                                             ELSE worker[s]]
  /\ UNCHANGED <<busy, current, sent, answer>>

\* Mistake: the queue is emptied and nobody told.
CloseForgets ==
  /\ ~closing
  /\ closing' = TRUE
  /\ queue' = <<>>
  /\ restart' = [s \in Slots |-> FALSE]
  /\ worker' = [s \in Slots |-> IF worker[s] = "up" THEN "terminating" ELSE worker[s]]
  /\ UNCHANGED <<busy, current, sent, task, answer>>

Close ==
  /\ ~closing
  /\ closing' = TRUE
  /\ queue' = <<>>
  /\ task' = [t \in Tasks |-> IF task[t] = "queued" THEN "closing" ELSE task[t]]
  /\ restart' = [s \in Slots |-> FALSE]
  /\ worker' = [s \in Slots |-> IF worker[s] = "up" THEN "terminating" ELSE worker[s]]
  /\ UNCHANGED <<busy, current, sent, answer>>

-----------------------------------------------------------------------------

QueryStep(t) ==
  \/ QueryRejected(t) \/ QueryFull(t) \/ QueryRun(t) \/ QueryQueued(t) \/ QueueTimeout(t)

SlotStep(s) ==
  \/ \E t \in Tasks : Respond(s, t)
  \/ RunTimeout(s) \/ Exit(s) \/ Restart(s)

Next ==
  \/ \E t \in Tasks : QueryStep(t)
  \/ \E s \in Slots : SlotStep(s)
  \/ Close

Spec == Init /\ [][Next]_vars

(* Timers fire and a terminated thread exits. No query has to be answered. *)
FairSpec ==
  /\ Spec
  /\ \A t \in Tasks : WF_vars(QueueTimeout(t))
  /\ \A s \in Slots : /\ WF_vars(RunTimeout(s))
                      /\ WF_vars(worker[s] = "terminating" /\ Exit(s))
                      /\ WF_vars(Restart(s))

-----------------------------------------------------------------------------
(* Properties                                                              *)

(* Nobody waits while a slot is idle, although a slot becomes idle in four *)
(* handlers: answer, run timeout, exit and restart.  runOnSlot's unshift,  *)
(* which would put a task back without its queue timer, relies on it.      *)
WorkConserving == ~closing /\ queue # <<>> => IdleIn(worker, busy) = {}

(* The queue holds the waiting tasks, each once; a running task is the     *)
(* current one of exactly one slot; the slot of an open pool is busy just  *)
(* when it has a current task; an exited slot has its restart timer.  The  *)
(* queue keeps its limit and holds nothing once the pool closes.           *)
TasksAccounted ==
  /\ Len(queue) <= MaxQueue
  /\ closing => queue = <<>>
  /\ \A t \in Tasks : task[t] = "queued" <=> \E i \in DOMAIN queue : queue[i] = t
  /\ \A i, k \in DOMAIN queue : queue[i] = queue[k] => i = k
  /\ \A t \in Tasks : task[t] = "running" <=> \E s \in Slots : current[s] = t
  /\ \A s, r \in Slots : current[s] = current[r] /\ current[s] # None => s = r
  /\ \A s \in Slots : ~closing => /\ busy[s] <=> current[s] # None
                                  /\ restart[s] <=> worker[s] = "exited"

(* A query never returns the rows of another query: a slot that is handed  *)
(* on after a run timeout may still deliver the answer to the old task.    *)
AnswerIsOwn == \A t \in Tasks : task[t] = "answered" => answer[t] = t

(* close() ends every thread for good, also one with a running query and   *)
(* one whose restart was scheduled.                                        *)
CloseEndsEveryThread == closing ~> [](\A s \in Slots : worker[s] = "exited")

(* Every query settles: the caller inside the sandbox is not left waiting, *)
(* not even when the pool closes under a running query (its exit handler   *)
(* then settles nothing and only the run timer is left).                   *)
EveryQuerySettles == \A t \in Tasks : task[t] # "new" ~> task[t] \in Settled
=============================================================================

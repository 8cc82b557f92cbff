-------------------------- MODULE RunnerProtocolProofs --------------------------
(***************************************************************************)
(* Proofs about RunnerProtocol, for every number of jobs and queries, with *)
(* and without sandbox reuse: jobs do not meet in the runner or in its     *)
(* worker, results go to their job, unless user code posts messages of its *)
(* own, and responses to the worker that asked whatever it posts.          *)
(***************************************************************************)
EXTENDS RunnerProtocol, QueueLemmas, FiniteSetTheorems

Line == Result \cup Queries
NoResult(p) == \A m \in Result : ~Holds(p, m)

(* Nothing is left of a dead process.                                      *)
DeadIsEmpty ==
  proc = "dead" => /\ stdin = <<>> /\ stdout = <<>>
                   /\ running = None /\ waits = NoWaits
                   /\ worker = NoWorker

(* The current job is in one place: on its way to the runner, running, or  *)
(* its result is on its way back.                                          *)
OneTurn ==
  /\ Only(stdin, Jobs)
  /\ Only(stdout, Result)
  /\ \A j \in Jobs : Holds(stdin, j) => current = j /\ running = None /\ NoResult(stdout)
  /\ running # None => running = current /\ NoResult(stdout)
  /\ \A m \in Result : Holds(stdout, m) =>
       current # None /\ (m = current \/ current \in meddled)
  /\ current # None => call[current] # "new"

DropsKnown == \A j \in Jobs : call[j] = "dropped" => j \in meddled

(* The jobs of a worker thread: all of its own sandbox key, the running    *)
(* one among them, and all meddled with once its user code has posted.     *)
NotBegun(j) == Holds(stdin, j) \/ call[j] = "new"
InWorker(w, j) == j \in w.ran \/ Holds(w.inbox, j)
Meddling == worker.ran \cap meddled # {}
ThreadKept ==
  /\ worker.exec \subseteq worker.ran
  /\ running # None => InWorker(worker, running)
  /\ \A j \in Jobs : InWorker(worker, j) => KeyOf[j] = worker.key
  /\ \A j \in Jobs : InWorker(worker, j) => (j \in meddled <=> Meddling)
  /\ \A j \in Jobs : NotBegun(j) => j \notin meddled /\ ~InWorker(worker, j)

(* Unless it has, a job in the worker is the running one: it waits in the  *)
(* inbox, or is executed, or its result is in the outbox.                  *)
Inside(w, j) == j \in w.exec \/ Holds(w.inbox, j)
InTurn ==
  ~Meddling =>
    /\ Only(worker.inbox, Jobs) /\ Only(worker.outbox, Jobs)
    /\ \A m \in OwnMessage : Holds(worker.outbox, m) => m \in Jobs
    /\ \A j \in Jobs : ~(j \in worker.exec /\ Holds(worker.inbox, j))
    /\ \A j \in Jobs : Inside(worker, j) \/ Holds(worker.outbox, j) => running = j
    /\ \A j \in Jobs : ~(Inside(worker, j) /\ Holds(worker.outbox, j))

(* The worker of the running job is the one that asked what the job waits  *)
(* for: a job that has not begun waits for nothing.                        *)
Known(q) == query[q] \notin {"new", "gone"}
QueriesKnown ==
  /\ \A q \in Queries : Holds(worker.outbox, q) => Known(q)
  /\ \A q \in Queries : waits[q] # None /\ waits[q] = running => Known(q)
  /\ \A j \in Jobs : NotBegun(j) => handler # j /\ \A q \in Queries : waits[q] # j
  /\ \A q \in Queries : query[q] = "asked" => JobOf[q] \in worker.exec
  /\ \A q \in Queries : Holds(worker.inbox, q) => Known(q)

IInv == TypeOK /\ DeadIsEmpty /\ OneTurn /\ DropsKnown /\ ThreadKept /\ InTurn /\ QueriesKnown

-----------------------------------------------------------------------------
(* The channels and the worker                                             *)

LEMMA Names ==
  /\ \A j \in Jobs : j \notin Queries /\ j # Opaque /\ j # None /\ j \in Result
  /\ \A j \in Jobs : [bare |-> j] \in Result /\ [bare |-> j] \notin Jobs
  /\ \A q \in Queries : q \notin Result /\ q \notin OwnMessage
  /\ Result \subseteq OwnMessage /\ OwnMessage \subseteq Message
  /\ Line \subseteq Message /\ Jobs \subseteq Line /\ Queries \subseteq Line
  /\ \A m \in OwnMessage : m = Opaque \/ m \in Result
BY NamesAssumption DEF Result, OwnMessage, Message, Line, Bare

LEMMA ReadsIn ==
  ASSUME TypeOK, stdin # <<>>, stdin' = Tail(stdin)
  PROVE  /\ Head(stdin) \in Jobs \cup Queries /\ Holds(stdin, Head(stdin))
         /\ stdin' \in Seq(Jobs \cup Queries)
         /\ \A x : Holds(stdin', x) => Holds(stdin, x)
         /\ \A x : Holds(stdin, x) => x = Head(stdin) \/ Holds(stdin', x)
         /\ Only(stdin, Jobs) => Only(stdin', Jobs)
         /\ Only(stdin, Jobs) /\ Head(stdin) \in Jobs => \A j \in Jobs : ~Holds(stdin', j)
<1>1. stdin \in Seq(Jobs \cup Queries)
  BY DEF TypeOK
<1>2. QED
  BY <1>1, TailOnly

LEMMA WritesIn ==
  ASSUME TypeOK, NEW m \in Jobs \cup Queries, ToChild(m)
  PROVE  /\ stdin' \in Seq(Jobs \cup Queries)
         /\ \A x : Holds(stdin', x) => Holds(stdin, x) \/ x = m
         /\ \A x : Holds(stdin, x) => Holds(stdin', x)
         /\ Only(stdin, Jobs) /\ (m \in Jobs => \A j \in Jobs : ~Holds(stdin, j))
              => Only(stdin', Jobs)
<1>1. stdin \in Seq(Jobs \cup Queries)
  BY DEF TypeOK
<1>2. CASE stdin' = stdin
  BY <1>1, <1>2
<1>3. CASE stdin' = Append(stdin, m)
  BY <1>1, <1>3, AppendOnly
<1>4. QED
  BY <1>2, <1>3 DEF ToChild

LEMMA ReadsOut ==
  ASSUME TypeOK, stdout # <<>>, stdout' = Tail(stdout)
  PROVE  /\ Head(stdout) \in Line /\ Holds(stdout, Head(stdout))
         /\ stdout' \in Seq(Line)
         /\ \A x : Holds(stdout', x) => Holds(stdout, x)
         /\ \A x : Holds(stdout, x) => x = Head(stdout) \/ Holds(stdout', x)
         /\ Only(stdout, Result) => Only(stdout', Result)
         /\ Only(stdout, Result) /\ Head(stdout) \in Result => NoResult(stdout')
<1>1. stdout \in Seq(Line)
  BY DEF TypeOK, Line
<1>2. QED
  BY <1>1, TailOnly DEF NoResult

LEMMA WritesOut ==
  ASSUME TypeOK, NEW m \in Line, WriteLine(m)
  PROVE  /\ stdout' \in Seq(Line)
         /\ \A x : Holds(stdout', x) <=> Holds(stdout, x) \/ x = m
         /\ Only(stdout, Result) /\ (m \in Result => NoResult(stdout))
              => Only(stdout', Result)
<1>1. stdout \in Seq(Line)
  BY DEF TypeOK, Line
<1>2. QED
  BY <1>1, AppendOnly DEF NoResult, WriteLine

LEMMA Fields ==
  ASSUME TypeOK
  PROVE  /\ worker.inbox \in Seq(Jobs \cup Queries)
         /\ worker.outbox \in Seq(Message)
         /\ worker.exec \subseteq Jobs /\ worker.ran \subseteq Jobs
         /\ worker.up \in BOOLEAN
         /\ worker.key \in {KeyOf[j] : j \in Jobs} \cup {None}
BY DEF TypeOK, Worker

LEMMA Posts ==
  ASSUME TypeOK, NEW m \in Jobs \cup Queries, Post(m)
  PROVE  /\ worker' \in Worker
         /\ worker'.outbox = worker.outbox /\ worker'.exec = worker.exec
         /\ worker'.ran = worker.ran /\ worker'.key = worker.key
         /\ \A x : Holds(worker'.inbox, x) <=> Holds(worker.inbox, x) \/ x = m
         /\ Only(worker.inbox, Jobs) /\ (m \in Jobs => \A j \in Jobs : ~Holds(worker.inbox, j))
              => Only(worker'.inbox, Jobs)
<1>1. /\ Append(worker.inbox, m) \in Seq(Jobs \cup Queries)
      /\ \A x : Holds(Append(worker.inbox, m), x) <=> Holds(worker.inbox, x) \/ x = m
      /\ Only(worker.inbox, Jobs) /\ (m \in Jobs => \A j \in Jobs : ~Holds(worker.inbox, j))
              => Only(Append(worker.inbox, m), Jobs)
  BY Fields, AppendOnly
<1>2. worker \in Worker
  BY DEF TypeOK
<1>3. /\ worker' \in Worker
      /\ worker'.outbox = worker.outbox /\ worker'.exec = worker.exec
      /\ worker'.ran = worker.ran /\ worker'.key = worker.key
      /\ worker'.inbox = Append(worker.inbox, m)
  BY <1>1, <1>2 DEF Post, Worker
<1>4. QED
  BY <1>1, <1>3

(* Emits, and the end of a job                                             *)
LEMMA EmitsTo ==
  ASSUME TypeOK, NEW m \in Message, NEW E \in SUBSET Jobs,
         worker' = [worker EXCEPT !.exec = E, !.outbox = Append(@, m)]
  PROVE  /\ worker' \in Worker
         /\ worker'.inbox = worker.inbox /\ worker'.exec = E
         /\ worker'.ran = worker.ran /\ worker'.key = worker.key
         /\ \A x : Holds(worker'.outbox, x) <=> Holds(worker.outbox, x) \/ x = m
         /\ Only(worker.outbox, Jobs) /\ (m \in Jobs => \A j \in Jobs : ~Holds(worker.outbox, j))
              => Only(worker'.outbox, Jobs)
<1>1. /\ Append(worker.outbox, m) \in Seq(Message)
      /\ \A x : Holds(Append(worker.outbox, m), x) <=> Holds(worker.outbox, x) \/ x = m
      /\ Only(worker.outbox, Jobs) /\ (m \in Jobs => \A j \in Jobs : ~Holds(worker.outbox, j))
              => Only(Append(worker.outbox, m), Jobs)
  BY Fields, AppendOnly
<1>2. worker \in Worker
  BY DEF TypeOK
<1>3. /\ worker' \in Worker
      /\ worker'.inbox = worker.inbox /\ worker'.exec = E
      /\ worker'.ran = worker.ran /\ worker'.key = worker.key
      /\ worker'.outbox = Append(worker.outbox, m)
  BY <1>1, <1>2 DEF Worker
<1>4. QED
  BY <1>1, <1>3

LEMMA EmitsOnly ==
  ASSUME TypeOK, NEW m \in Message, Emits(m)
  PROVE  /\ worker' \in Worker
         /\ worker'.inbox = worker.inbox /\ worker'.exec = worker.exec
         /\ worker'.ran = worker.ran /\ worker'.key = worker.key
         /\ \A x : Holds(worker'.outbox, x) <=> Holds(worker.outbox, x) \/ x = m
         /\ Only(worker.outbox, Jobs) /\ (m \in Jobs => \A j \in Jobs : ~Holds(worker.outbox, j))
              => Only(worker'.outbox, Jobs)
<1>1. worker \in Worker /\ worker.exec \in SUBSET Jobs
  BY Fields DEF TypeOK
<1>2. worker' = [worker EXCEPT !.exec = worker.exec, !.outbox = Append(@, m)]
  BY <1>1 DEF Worker, Emits
<1>3. QED
  BY <1>1, <1>2, EmitsTo

LEMMA EndsJob ==
  ASSUME TypeOK, NEW j \in Jobs, FinishJob(j)
  PROVE  /\ worker' \in Worker /\ j \in worker.exec
         /\ worker'.inbox = worker.inbox /\ worker'.exec = worker.exec \ {j}
         /\ worker'.ran = worker.ran /\ worker'.key = worker.key
         /\ \A x : Holds(worker'.outbox, x) <=> Holds(worker.outbox, x) \/ x = j
         /\ Only(worker.outbox, Jobs) /\ (\A k \in Jobs : ~Holds(worker.outbox, k))
              => Only(worker'.outbox, Jobs)
<1>1. worker.exec \ {j} \in SUBSET Jobs /\ j \in Message /\ j \in worker.exec
  BY Fields, Names DEF FinishJob
<1>2. worker \in Worker
  BY DEF TypeOK
<1>3. worker' = [worker EXCEPT !.exec = worker.exec \ {j}, !.outbox = Append(@, j)]
  BY <1>2 DEF FinishJob, Worker
<1>4. QED
  BY <1>1, <1>3, EmitsTo

LEMMA TakesMessage ==
  ASSUME TypeOK, worker.outbox # <<>>, worker' = [worker EXCEPT !.outbox = Tail(@)]
  PROVE  /\ Head(worker.outbox) \in Message /\ Holds(worker.outbox, Head(worker.outbox))
         /\ worker' \in Worker
         /\ worker'.inbox = worker.inbox /\ worker'.exec = worker.exec
         /\ worker'.ran = worker.ran /\ worker'.key = worker.key
         /\ \A x : Holds(worker'.outbox, x) => Holds(worker.outbox, x)
         /\ Only(worker.outbox, Jobs) => Only(worker'.outbox, Jobs)
         /\ Only(worker.outbox, Jobs) /\ Head(worker.outbox) \in Jobs
              => \A j \in Jobs : ~Holds(worker'.outbox, j)
<1>1. /\ worker.outbox \in Seq(Message)
      /\ worker \in Worker
  BY Fields DEF TypeOK
<1>2. /\ Head(worker.outbox) \in Message /\ Holds(worker.outbox, Head(worker.outbox))
      /\ Tail(worker.outbox) \in Seq(Message)
      /\ \A x : Holds(Tail(worker.outbox), x) => Holds(worker.outbox, x)
      /\ Only(worker.outbox, Jobs) => Only(Tail(worker.outbox), Jobs)
      /\ Only(worker.outbox, Jobs) /\ Head(worker.outbox) \in Jobs
           => \A j \in Jobs : ~Holds(Tail(worker.outbox), j)
  BY <1>1, TailOnly
<1>3. /\ worker' \in Worker
      /\ worker'.inbox = worker.inbox /\ worker'.exec = worker.exec
      /\ worker'.ran = worker.ran /\ worker'.key = worker.key
      /\ worker'.outbox = Tail(worker.outbox)
  BY <1>1, <1>2 DEF Worker
<1>4. QED
  BY <1>2, <1>3

LEMMA WorkerTakes ==
  ASSUME TypeOK, worker.inbox # <<>>, NEW E \in SUBSET Jobs, NEW R \in SUBSET Jobs,
         worker' = [worker EXCEPT !.inbox = Tail(@), !.ran = R, !.exec = E]
  PROVE  /\ Head(worker.inbox) \in Jobs \cup Queries /\ Holds(worker.inbox, Head(worker.inbox))
         /\ worker' \in Worker
         /\ worker'.outbox = worker.outbox /\ worker'.exec = E
         /\ worker'.ran = R /\ worker'.key = worker.key
         /\ \A x : Holds(worker'.inbox, x) => Holds(worker.inbox, x)
         /\ \A x : Holds(worker.inbox, x) => x = Head(worker.inbox) \/ Holds(worker'.inbox, x)
         /\ Only(worker.inbox, Jobs) => Only(worker'.inbox, Jobs)
         /\ Only(worker.inbox, Jobs) /\ Head(worker.inbox) \in Jobs
              => \A j \in Jobs : ~Holds(worker'.inbox, j)
<1>1. /\ worker.inbox \in Seq(Jobs \cup Queries)
      /\ worker \in Worker
  BY Fields DEF TypeOK
<1>2. /\ Head(worker.inbox) \in Jobs \cup Queries /\ Holds(worker.inbox, Head(worker.inbox))
      /\ Tail(worker.inbox) \in Seq(Jobs \cup Queries)
      /\ \A x : Holds(Tail(worker.inbox), x) => Holds(worker.inbox, x)
      /\ \A x : Holds(worker.inbox, x) => x = Head(worker.inbox) \/ Holds(Tail(worker.inbox), x)
      /\ Only(worker.inbox, Jobs) => Only(Tail(worker.inbox), Jobs)
      /\ Only(worker.inbox, Jobs) /\ Head(worker.inbox) \in Jobs
           => \A j \in Jobs : ~Holds(Tail(worker.inbox), j)
  BY <1>1, TailOnly
<1>3. /\ worker' \in Worker
      /\ worker'.outbox = worker.outbox /\ worker'.exec = E
      /\ worker'.ran = R /\ worker'.key = worker.key
      /\ worker'.inbox = Tail(worker.inbox)
  BY <1>1, <1>2 DEF Worker
<1>4. QED
  BY <1>2, <1>3

LEMMA TakeKeeps ==
  ASSUME TypeOK, worker' = [worker EXCEPT !.inbox = Tail(@)]
  PROVE  worker' = [worker EXCEPT !.inbox = Tail(@), !.ran = worker.ran, !.exec = worker.exec]
<1>1. worker \in Worker
  BY DEF TypeOK
<1>2. QED
  BY <1>1 DEF Worker

LEMMA StartsJob ==
  ASSUME TypeOK, NEW j \in Jobs, StartJob(j)
  PROVE  /\ worker.inbox # <<>> /\ Head(worker.inbox) = j
         /\ worker.ran \cup {j} \in SUBSET Jobs /\ worker.exec \cup {j} \in SUBSET Jobs
         /\ worker' = [worker EXCEPT !.inbox = Tail(@), !.ran = worker.ran \cup {j},
                                     !.exec = worker.exec \cup {j}]
<1>1. worker \in Worker
  BY DEF TypeOK
<1>2. worker' = [worker EXCEPT !.inbox = Tail(@), !.ran = worker.ran \cup {j},
                                     !.exec = worker.exec \cup {j}]
  BY <1>1 DEF StartJob, Worker
<1>3. QED
  BY <1>2, Fields DEF StartJob, WorkerReads

(* A worker without jobs and messages                                      *)
Fresh(w) == w \in Worker /\ w.inbox = <<>> /\ w.outbox = <<>> /\ w.exec = {} /\ w.ran = {}

LEMMA NewIsFresh ==
  /\ Fresh(NoWorker)
  /\ \A j \in Jobs : Fresh(NewWorker(KeyOf[j]))
<1>1. \A k \in {KeyOf[j] : j \in Jobs} \cup {None} : Fresh(NewWorker(k))
  BY DEF Fresh, NewWorker, Worker
<1>2. Fresh(NewWorker(None))
  BY <1>1
<1>3. Fresh(NoWorker)
  BY <1>2 DEF Fresh, NoWorker, Worker
<1>4. QED
  BY <1>1, <1>3

LEMMA FreshHolds ==
  ASSUME NEW w, Fresh(w)
  PROVE  /\ \A x : ~Holds(w.inbox, x) /\ ~Holds(w.outbox, x) /\ x \notin w.exec /\ x \notin w.ran
         /\ Only(w.inbox, Jobs) /\ Only(w.outbox, Jobs)
BY EmptyHolds DEF Fresh

LEMMA NewForJob ==
  ASSUME NEW j \in Jobs, worker' = [NewWorker(KeyOf[j]) EXCEPT !.inbox = <<j>>]
  PROVE  /\ worker' \in Worker /\ worker'.exec = {} /\ worker'.outbox = <<>>
         /\ worker'.ran = {} /\ worker'.key = KeyOf[j]
         /\ \A x : Holds(worker'.inbox, x) <=> x = j
         /\ Only(worker'.inbox, Jobs)
<1>1. /\ <<j>> \in Seq(Jobs \cup Queries)
      /\ Only(<<j>>, Jobs)
      /\ \A x : Holds(<<j>>, x) <=> x = j
  BY OneHolds
<1>2. /\ worker' \in Worker /\ worker'.exec = {} /\ worker'.outbox = <<>>
         /\ worker'.ran = {} /\ worker'.key = KeyOf[j]
      /\ worker'.inbox = <<j>>
  BY <1>1, NewIsFresh DEF Fresh, Worker, NewWorker
<1>3. QED
  BY <1>1, <1>2

LEMMA Replaces ==
  ASSUME TypeOK, NEW w \in Worker, Replace(w)
  PROVE  /\ worker' = w /\ worker' \in Worker
         /\ query' \in [Queries -> QueryState]
         /\ \A q \in Queries : query'[q] # "asked" /\ (Known(q)' => Known(q))
BY DEF TypeOK, Replace, QueryState, Pending, Known

LEMMA Died ==
  ASSUME TypeOK, Dies
  PROVE  /\ stdin' = <<>> /\ stdout' = <<>> /\ proc' = "dead"
         /\ running' = None /\ handler' = None /\ waits' = NoWaits
         /\ worker' = NoWorker /\ Fresh(worker')
         /\ \A q \in Queries : query'[q] # "asked"
         /\ query' \in [Queries -> QueryState]
         /\ \A x : ~Holds(stdin', x) /\ ~Holds(stdout', x)
         /\ Only(stdin', Jobs) /\ Only(stdout', Result)
         /\ stdin' \in Seq(Jobs \cup Queries) /\ stdout' \in Seq(Line)
<1>1. NoWorker \in Worker /\ Fresh(NoWorker)
  BY NewIsFresh DEF Fresh
<1>2. /\ stdin' = <<>> /\ stdout' = <<>> /\ proc' = "dead"
      /\ running' = None /\ handler' = None /\ waits' = NoWaits
      /\ Replace(NoWorker)
  BY DEF Dies
<1>3. /\ worker' = NoWorker
      /\ query' \in [Queries -> QueryState]
      /\ \A q \in Queries : query'[q] # "asked"
  BY <1>1, <1>2, Replaces
<1>4. /\ \A x : ~Holds(<<>>, x)
      /\ Only(<<>>, Jobs) /\ Only(<<>>, Result)
      /\ <<>> \in Seq(Jobs \cup Queries) /\ <<>> \in Seq(Line)
  BY EmptyHolds
<1>5. QED
  BY <1>1, <1>2, <1>3, <1>4
-----------------------------------------------------------------------------
(* The types, and that a dead process has nothing left                     *)

LEMMA SettleTypes ==
  ASSUME TypeOK, NEW o \in {"answered", "failed", "dropped"}, Settle(o)
  PROVE  /\ current' = None
         /\ call' \in [Jobs -> {"new", "given", "answered", "failed", "dropped"}]
         /\ \A j \in Jobs : call'[j] = "new" => call[j] = "new"
         /\ \A j \in Jobs : call'[j] = "dropped" => call[j] = "dropped" \/ (o = "dropped" /\ j = current)
BY DEF TypeOK, Settle

LEMMA FinishTypes ==
  ASSUME TypeOK, NEW m \in Result, NEW k \in BOOLEAN, Finish(m, k),
         k => worker.outbox # <<>>
  PROVE  /\ running' = None
         /\ stdout' \in Seq(Line)
         /\ \A x : Holds(stdout', x) <=> Holds(stdout, x) \/ x = m
         /\ Only(stdout, Result) /\ NoResult(stdout) => Only(stdout', Result)
         /\ worker' \in Worker
         /\ query' \in [Queries -> QueryState]
         /\ Fresh(worker') \/ (worker' = [worker EXCEPT !.outbox = Tail(@)] /\ query' = query)
         /\ ~k => Fresh(worker')
         /\ Fresh(worker') => \A q \in Queries : query'[q] = "asked" => query'[q] = query[q]
<1>1. WriteLine(m) /\ m \in Line /\ running' = None
  BY DEF Finish, Line
<1>2. CASE k /\ Reuse
  <2>1. worker' = [worker EXCEPT !.outbox = Tail(@)] /\ query' = query
    BY <1>2 DEF Finish
  <2>2. worker' \in Worker
    BY <1>2, <2>1, TakesMessage
  <2>3. QED
    BY <1>1, <1>2, <2>1, <2>2, WritesOut DEF TypeOK
<1>3. CASE ~(k /\ Reuse)
  <2>1. Replace(NoWorker) /\ Fresh(NoWorker) /\ NoWorker \in Worker
    BY <1>3, NewIsFresh DEF Finish, Fresh
  <2>2. worker' = NoWorker /\ query' \in [Queries -> QueryState]
        /\ \A q \in Queries : query'[q] # "asked"
    BY <2>1, Replaces
  <2>3. QED
    BY <1>1, <1>3, <2>1, <2>2, WritesOut
<1>4. QED
  BY <1>2, <1>3

LEMMA TypeHolds == TypeOK /\ Next => TypeOK'
<1> SUFFICES ASSUME TypeOK, Next PROVE TypeOK'
  OBVIOUS
<1> USE DEF mvars
\* What TypeOK says of stdout
<1>0. stdout' \in Seq(Line) <=> stdout' \in Seq(Result \cup Queries)
  BY DEF Line
<1>1. ASSUME NEW j \in Jobs, Give(j) PROVE TypeOK'
  <2>1. stdin' \in Seq(Jobs \cup Queries)
    BY <1>1, WritesIn DEF Give
  <2>2. QED
    BY <1>1, <2>1 DEF Give, TypeOK, rvars
<1>2. ASSUME NEW j \in Jobs, ReadResult(j) PROVE TypeOK'
  <2>1. stdout' \in Seq(Line)
    BY <1>2, ReadsOut DEF ReadResult, ReadLine
  <2>2. current' = None /\ call' \in [Jobs -> {"new", "given", "answered", "failed", "dropped"}]
    BY <1>2, SettleTypes DEF ReadResult
  <2>3. QED
    BY <1>0, <1>2, <2>1, <2>2 DEF ReadResult, TypeOK, rvars
<1>3. ASSUME NEW j \in Jobs, RunJob(j) PROVE TypeOK'
  <2>1. stdin' \in Seq(Jobs \cup Queries)
    BY <1>3, ReadsIn DEF RunJob, TakesJob
  <2>2. worker' \in Worker /\ query' \in [Queries -> QueryState]
    <3>1. CASE Reuse /\ worker.key = KeyOf[j]
      BY <1>3, <3>1, Posts DEF RunJob, TypeOK
    <3>2. CASE ~(Reuse /\ worker.key = KeyOf[j])
      <4>1. [NewWorker(KeyOf[j]) EXCEPT !.inbox = <<j>>] \in Worker
        BY NewIsFresh, OneHolds DEF Fresh, Worker
      <4>2. QED
        BY <1>3, <3>2, <4>1, Replaces DEF RunJob
    <3>3. QED
      BY <3>1, <3>2
  <2>3. QED
    BY <1>3, <2>1, <2>2 DEF RunJob, TypeOK, pvars
<1>4. ASSUME NEW j \in Jobs, NoNewWorker(j) PROVE TypeOK'
  <2>1. stdin' \in Seq(Jobs \cup Queries)
    BY <1>4, ReadsIn DEF NoNewWorker, TakesJob
  <2>2. stdout' \in Seq(Line)
    BY <1>4, WritesOut, Names DEF NoNewWorker
  <2>3. worker' \in Worker /\ query' \in [Queries -> QueryState]
    BY <1>4, Replaces, NewIsFresh DEF NoNewWorker, Fresh
  <2>4. QED
    BY <1>0, <1>4, <2>1, <2>2, <2>3 DEF NoNewWorker, TypeOK, pvars, rvars
<1>5. ASSUME NEW j \in Jobs, StartJob(j) PROVE TypeOK'
  <2>1. worker' \in Worker
    BY <1>5, StartsJob, WorkerTakes
  <2>2. QED
    BY <1>5, <2>1 DEF StartJob, wUnchanged, TypeOK, pvars, rvars
<1>6. ASSUME NEW j \in Jobs, FinishJob(j) PROVE TypeOK'
  <2>1. worker' \in Worker
    BY <1>6, EndsJob
  <2>2. query' \in [Queries -> QueryState]
    BY <1>6 DEF FinishJob, TypeOK, QueryState
  <2>3. QED
    BY <1>6, <2>1, <2>2 DEF FinishJob, wUnchanged, TypeOK, pvars, rvars
<1>7. ASSUME NEW q \in Queries, ReadRequest(q) PROVE TypeOK'
  <2>1. stdout' \in Seq(Line)
    BY <1>7, ReadsOut DEF ReadRequest, ReadLine
  <2>2. QED
    BY <1>0, <1>7, <2>1 DEF ReadRequest, TypeOK, rvars
<1>8. ASSUME NEW q \in Queries, Respond(q) PROVE TypeOK'
  <2>1. stdin' \in Seq(Jobs \cup Queries)
    BY <1>8, WritesIn DEF Respond
  <2>2. QED
    BY <1>8, <2>1 DEF Respond, TypeOK, rvars
<1>9. ASSUME NEW q \in Queries, Forward(q) PROVE TypeOK'
  <2>1. worker' \in Worker
    BY <1>9, TakesMessage DEF Forward
  <2>2. stdout' \in Seq(Line)
    BY <1>9, WritesOut, Names DEF Forward
  <2>3. QED
    BY <1>0, <1>9, <2>1, <2>2 DEF Forward, TypeOK, pvars
<1>10. ASSUME NEW q \in Queries, Resolve(q)
       PROVE  worker' \in Worker /\ waits' \in [Queries -> Jobs \cup {None}]
  <2>1. worker' \in Worker
    BY <1>10, Posts DEF Resolve, TypeOK
  <2>2. QED
    BY <1>10, <2>1 DEF Resolve, TypeOK
<1>11. ASSUME NEW q \in Queries, ReadResponse(q) PROVE TypeOK'
  <2>1. stdin' \in Seq(Jobs \cup Queries)
    BY <1>11, ReadsIn DEF ReadResponse
  <2>2. worker' \in Worker /\ waits' \in [Queries -> Jobs \cup {None}]
    BY <1>10, <1>11 DEF ReadResponse
  <2>3. QED
    BY <1>11, <2>1, <2>2 DEF ReadResponse, TypeOK, pvars
<1>12. ASSUME NEW q \in Queries, WaitTimeout(q) PROVE TypeOK'
  <2>1. worker' \in Worker /\ waits' \in [Queries -> Jobs \cup {None}]
    BY <1>10, <1>12 DEF WaitTimeout
  <2>2. QED
    BY <1>12, <2>1 DEF WaitTimeout, TypeOK, pvars
<1>13. ASSUME NEW q \in Queries, Ask(q) PROVE TypeOK'
  <2>1. worker' \in Worker
    BY <1>13, EmitsOnly DEF Ask, Message
  <2>2. QED
    BY <1>13, <2>1 DEF Ask, wUnchanged, TypeOK, pvars, rvars, QueryState, Pending
<1>14. ASSUME NEW q \in Queries, SettleQuery(q) PROVE query' \in [Queries -> QueryState]
  BY <1>14 DEF SettleQuery, TypeOK, QueryState
<1>15. ASSUME NEW q \in Queries, TakeResponse(q) PROVE TypeOK'
  <2>1. worker' \in Worker
    BY <1>15, TakeKeeps, WorkerTakes, Fields DEF TakeResponse, WorkerReads
  <2>2. QED
    BY <1>14, <1>15, <2>1 DEF TakeResponse, wUnchanged, TypeOK, pvars, rvars
<1>16. ASSUME NEW q \in Queries, QueryTimeout(q) PROVE TypeOK'
  BY <1>14, <1>16 DEF QueryTimeout, wUnchanged, TypeOK, pvars, rvars
<1>17. ASSUME NEW m \in Result, NEW k \in BOOLEAN, Finish(m, k), k => worker.outbox # <<>>,
              UNCHANGED <<pvars, stdin, proc, handler, waits, mvars>>
       PROVE  TypeOK'
  <2>1. /\ running' = None /\ stdout' \in Seq(Line) /\ worker' \in Worker
        /\ query' \in [Queries -> QueryState]
    BY <1>17, FinishTypes
  <2>2. QED
    BY <1>0, <1>17, <2>1 DEF TypeOK, pvars
<1>18. ASSUME NEW m \in OwnMessage, TakeResult(m) PROVE TypeOK'
  <2>1. (IF m = Opaque THEN running ELSE m) \in Result
    BY <1>18, Names DEF TakeResult, TypeOK
  <2>2. QED
    BY <1>17, <1>18, <2>1 DEF TakeResult
<1>19. ASSUME NEW m \in OwnMessage, DropResult(m) PROVE TypeOK'
  <2>1. worker' \in Worker
    BY <1>19, TakesMessage DEF DropResult
  <2>2. QED
    BY <1>19, <2>1 DEF DropResult, TypeOK, pvars, rvars
<1>20. ASSUME Dies, UNCHANGED <<alive, asking, mvars>>,
              Settle("failed") \/ Settle("dropped") \/ UNCHANGED <<current, call>>
       PROVE  TypeOK'
  <2>1. /\ current' \in Jobs \cup {None}
        /\ call' \in [Jobs -> {"new", "given", "answered", "failed", "dropped"}]
    BY <1>20, SettleTypes DEF TypeOK
  <2>2. NoWaits \in [Queries -> Jobs \cup {None}]
    BY DEF NoWaits
  <2>3. QED
    BY <1>0, <1>20, <2>1, <2>2, Died DEF TypeOK, Fresh
<1>21. ASSUME NEW m \in Result, ReadForeign(m) PROVE TypeOK'
  BY <1>20, <1>21 DEF ReadForeign
<1>22. CASE IgnoreLine
  BY <1>0, <1>22, ReadsOut DEF IgnoreLine, TypeOK, pvars, rvars
<1>23. CASE ParentTimeout
  BY <1>20, <1>23 DEF ParentTimeout
<1>24. CASE Exit
  <2>1. current' = None /\ call' \in [Jobs -> {"new", "given", "answered", "failed", "dropped"}]
    BY <1>24, SettleTypes DEF Exit
  <2>2. QED
    BY <1>24, <2>1 DEF Exit, TypeOK, rvars
<1>25. CASE Restart
  BY <1>25 DEF Restart, TypeOK, rvars
<1>26. CASE JobTimeout \/ WorkerError
  <2>1. running \in Result
    BY <1>26 DEF JobTimeout, WorkerError, TypeOK, Result
  <2>2. QED
    BY <1>17, <1>26, <2>1 DEF JobTimeout, WorkerError
<1>27. CASE SandboxDies
  <2>1. worker' \in Worker
    BY <1>27 DEF SandboxDies, TypeOK, Worker
  <2>2. QED
    BY <1>27, <2>1 DEF SandboxDies, TypeOK, pvars, rvars
<1>28. CASE ProcessEnds
  BY <1>20, <1>28 DEF ProcessEnds, pvars
<1>29. ASSUME NEW m \in OwnMessage, PostOwn(m) PROVE TypeOK'
  <2>1. worker' \in Worker
    BY <1>29, EmitsOnly, Names DEF PostOwn
  <2>2. posts' \in 0..MaxPosts /\ InThread \subseteq Jobs
    BY <1>29, MaxPostsAssumption, Fields DEF PostOwn, TypeOK, InThread, Waiting
  <2>3. QED
    BY <1>29, <2>1, <2>2 DEF PostOwn, TypeOK, pvars, rvars
<1>30. ASSUME NEW j \in Jobs, ReadBare(j) PROVE TypeOK'
  BY <1>20, <1>30 DEF ReadBare
<1>31. QED
  BY <1>1, <1>2, <1>3, <1>4, <1>5, <1>6, <1>7, <1>8, <1>9, <1>11, <1>12, <1>13,
     <1>15, <1>16, <1>18, <1>19, <1>21, <1>22, <1>23, <1>24, <1>25, <1>26, <1>27,
     <1>28, <1>29, <1>30
     DEF Next, JobStep, QueryStep, MessageStep

LEMMA DeadHolds == IInv /\ Next => DeadIsEmpty'
<1> SUFFICES ASSUME IInv, Next PROVE DeadIsEmpty'
  OBVIOUS
<1> USE DEF IInv
<1>1. ASSUME Dies PROVE DeadIsEmpty'
  BY <1>1, Died DEF DeadIsEmpty, NoWaits
<1>2. ASSUME proc' = proc, proc = "dead" => UNCHANGED <<stdin, stdout, running, waits, worker>>
      PROVE  DeadIsEmpty'
  BY <1>2 DEF DeadIsEmpty, NoWaits
<1>3. ASSUME proc = "dead"
      PROVE  /\ stdin = <<>> /\ stdout = <<>> /\ running = None
             /\ worker.inbox = <<>> /\ worker.outbox = <<>> /\ ~worker.up
             /\ \A q \in Queries : waits[q] = None
  BY <1>3 DEF DeadIsEmpty, NoWaits, NoWorker, NewWorker
<1>4. ASSUME NEW j \in Jobs, JobStep(j) PROVE DeadIsEmpty'
  <2>1. CASE Give(j)
    BY <1>2, <2>1 DEF Give, ToChild, rvars
  <2>2. CASE ReadResult(j)
    BY <1>2, <1>3, <2>2 DEF ReadResult, ReadLine
  <2>3. CASE RunJob(j)
    BY <1>2, <1>3, <2>3 DEF RunJob, TakesJob
  <2>4. CASE NoNewWorker(j)
    BY <1>2, <1>3, <2>4 DEF NoNewWorker, TakesJob
  <2>5. CASE StartJob(j)
    BY <1>2, <1>3, <2>5 DEF StartJob, WorkerReads, wUnchanged
  <2>6. CASE FinishJob(j)
    BY <1>2, <1>3, <2>6 DEF FinishJob, wUnchanged
  <2>7. CASE ReadBare(j)
    BY <1>1, <2>7 DEF ReadBare
  <2>8. QED
    BY <1>4, <2>1, <2>2, <2>3, <2>4, <2>5, <2>6, <2>7 DEF JobStep
<1>5. ASSUME NEW q \in Queries, QueryStep(q) PROVE DeadIsEmpty'
  <2>1. CASE ReadRequest(q)
    BY <1>2, <1>3, <2>1 DEF ReadRequest, ReadLine
  <2>2. CASE Respond(q)
    BY <1>2, <2>2 DEF Respond, ToChild, rvars
  <2>3. CASE Forward(q)
    BY <1>2, <1>3, <2>3 DEF Forward
  <2>4. CASE ReadResponse(q)
    BY <1>2, <1>3, <2>4 DEF ReadResponse
  <2>5. CASE WaitTimeout(q)
    BY <1>2, <1>3, <2>5 DEF WaitTimeout
  <2>6. CASE Ask(q)
    BY <1>2, <1>3, <2>6 DEF Ask, wUnchanged
  <2>7. CASE TakeResponse(q)
    BY <1>2, <1>3, <2>7 DEF TakeResponse, WorkerReads, wUnchanged
  <2>8. CASE QueryTimeout(q)
    BY <1>2, <1>3, <2>8 DEF QueryTimeout, wUnchanged
  <2>9. QED
    BY <1>5, <2>1, <2>2, <2>3, <2>4, <2>5, <2>6, <2>7, <2>8 DEF QueryStep
<1>6. ASSUME NEW m \in OwnMessage, MessageStep(m) PROVE DeadIsEmpty'
  <2>1. CASE TakeResult(m)
    BY <1>2, <1>3, <2>1 DEF TakeResult
  <2>2. CASE DropResult(m)
    BY <1>2, <1>3, <2>2 DEF DropResult
  <2>3. CASE PostOwn(m)
    BY <1>2, <1>3, <2>3 DEF PostOwn
  <2>4. QED
    BY <1>6, <2>1, <2>2, <2>3 DEF MessageStep
<1>7. CASE IgnoreLine
  BY <1>2, <1>3, <1>7 DEF IgnoreLine
<1>8. CASE ParentTimeout \/ ProcessEnds
  BY <1>1, <1>8 DEF ParentTimeout, ProcessEnds
<1>9. CASE Exit
  BY <1>2, <1>9 DEF Exit, rvars
<1>10. CASE Restart
  BY <1>10 DEF Restart, DeadIsEmpty
<1>11. CASE JobTimeout \/ WorkerError
  BY <1>2, <1>3, <1>11 DEF JobTimeout, WorkerError
<1>12. CASE SandboxDies
  BY <1>2, <1>3, <1>12 DEF SandboxDies
<1>13. ASSUME NEW m \in Result, ReadForeign(m) PROVE DeadIsEmpty'
  BY <1>1, <1>13 DEF ReadForeign
<1>14. QED
  BY <1>4, <1>5, <1>6, <1>7, <1>8, <1>9, <1>10, <1>11, <1>12, <1>13 DEF Next

-----------------------------------------------------------------------------
(* What a step does to the calls, and to the jobs meddled with             *)

LEMMA MeddledGrows ==
  ASSUME TypeOK, Next
  PROVE  /\ meddled \subseteq meddled'
         /\ (\A j \in Jobs : ~RunJob(j)) /\ (\A m \in OwnMessage : ~PostOwn(m)) => meddled' = meddled
<1> USE DEF mvars
<1>1. ASSUME NEW j \in Jobs, JobStep(j), ~RunJob(j) PROVE meddled' = meddled
  BY <1>1 DEF JobStep, Give, ReadResult, ReadBare, NoNewWorker, StartJob, FinishJob, wUnchanged
<1>2. ASSUME NEW j \in Jobs, RunJob(j) PROVE meddled \subseteq meddled'
  BY <1>2 DEF RunJob
<1>3. ASSUME NEW q \in Queries, QueryStep(q) PROVE meddled' = meddled
  BY <1>3 DEF QueryStep, ReadRequest, Respond, Forward, ReadResponse, WaitTimeout, Ask,
              TakeResponse, QueryTimeout, wUnchanged
<1>4. ASSUME NEW m \in OwnMessage, TakeResult(m) \/ DropResult(m) PROVE meddled' = meddled
  BY <1>4 DEF TakeResult, DropResult
<1>5. ASSUME NEW m \in OwnMessage, PostOwn(m) PROVE meddled \subseteq meddled'
  BY <1>5 DEF PostOwn
<1>6. ASSUME NEW m \in Result, ReadForeign(m) PROVE meddled' = meddled
  BY <1>6 DEF ReadForeign
<1>7. CASE IgnoreLine \/ ParentTimeout \/ Exit \/ Restart
  BY <1>7 DEF IgnoreLine, ParentTimeout, Exit, Restart
<1>8. CASE JobTimeout \/ WorkerError \/ SandboxDies \/ ProcessEnds
  BY <1>8 DEF JobTimeout, WorkerError, SandboxDies, ProcessEnds
<1>9. QED
  BY <1>1, <1>2, <1>3, <1>4, <1>5, <1>6, <1>7, <1>8 DEF Next, MessageStep

(* A job that has begun stays so.                                          *)
LEMMA BegunStays ==
  ASSUME TypeOK, Next, NEW k \in Jobs, NotBegun(k)'
  PROVE  NotBegun(k)
<1>1. ASSUME Holds(stdin', k) => Holds(stdin, k), call'[k] = "new" => call[k] = "new"
      PROVE  NotBegun(k)
  BY <1>1 DEF NotBegun
<1>2. ASSUME Dies, call'[k] = "new" => call[k] = "new" PROVE NotBegun(k)
  BY <1>1, <1>2, Died
<1>3. ASSUME NEW j \in Jobs, Give(j) PROVE NotBegun(k)
  <2>1. Holds(stdin', k) => Holds(stdin, k) \/ k = j
    BY <1>3, WritesIn DEF Give
  <2>2. /\ call[j] = "new"
        /\ call'[k] = "new" => call[k] = "new"
    BY <1>3 DEF Give, TypeOK
  <2>3. QED
    BY <2>1, <2>2 DEF NotBegun
<1>4. ASSUME NEW j \in Jobs, RunJob(j) \/ NoNewWorker(j) PROVE NotBegun(k)
  BY <1>1, <1>4, ReadsIn DEF RunJob, NoNewWorker, TakesJob, pvars
<1>5. ASSUME NEW j \in Jobs, ReadResult(j) \/ StartJob(j) \/ FinishJob(j) PROVE NotBegun(k)
  BY <1>1, <1>5, SettleTypes DEF ReadResult, StartJob, FinishJob, wUnchanged, pvars
<1>6. ASSUME NEW j \in Jobs, ReadBare(j) PROVE NotBegun(k)
  BY <1>2, <1>6, SettleTypes DEF ReadBare
<1>7. ASSUME NEW q \in Queries, QueryStep(q) PROVE NotBegun(k)
  <2>1. CASE Respond(q)
    BY <1>1, <2>1, WritesIn, Names DEF Respond
  <2>2. CASE ReadResponse(q)
    BY <1>1, <2>2, ReadsIn DEF ReadResponse, pvars
  <2>3. CASE ReadRequest(q) \/ Forward(q) \/ WaitTimeout(q) \/ Ask(q) \/ TakeResponse(q)
             \/ QueryTimeout(q)
    BY <1>1, <2>3 DEF ReadRequest, Forward, WaitTimeout, Ask, TakeResponse, QueryTimeout,
                      wUnchanged, pvars
  <2>4. QED
    BY <1>7, <2>1, <2>2, <2>3 DEF QueryStep
<1>8. ASSUME NEW m \in OwnMessage, MessageStep(m) PROVE NotBegun(k)
  BY <1>1, <1>8 DEF MessageStep, TakeResult, DropResult, PostOwn, pvars
<1>9. ASSUME NEW m \in Result, ReadForeign(m) PROVE NotBegun(k)
  BY <1>2, <1>9, SettleTypes DEF ReadForeign
<1>10. CASE ParentTimeout \/ ProcessEnds
  BY <1>2, <1>10, SettleTypes DEF ParentTimeout, ProcessEnds, pvars
<1>11. CASE Exit
  BY <1>1, <1>11, SettleTypes DEF Exit
<1>12. CASE IgnoreLine \/ Restart \/ JobTimeout \/ WorkerError \/ SandboxDies
  BY <1>1, <1>12 DEF IgnoreLine, Restart, JobTimeout, WorkerError, SandboxDies, pvars
<1>13. QED
  BY <1>3, <1>4, <1>5, <1>6, <1>7, <1>8, <1>9, <1>10, <1>11, <1>12 DEF Next, JobStep

(* The runner takes its job from stdin: from then on it has begun.         *)
LEMMA TakesFirst ==
  ASSUME IInv, NEW j \in Jobs, TakesJob(j), UNCHANGED call
  PROVE  /\ current = j /\ running = None /\ NoResult(stdout)
         /\ Only(stdin', Jobs) /\ \A k \in Jobs : ~Holds(stdin', k)
         /\ NotBegun(j) /\ ~NotBegun(j)'
<1>1. /\ Holds(stdin, j) /\ Only(stdin', Jobs) /\ \A k \in Jobs : ~Holds(stdin', k)
  BY ReadsIn DEF TakesJob, IInv, OneTurn
<1>2. /\ current = j /\ running = None /\ NoResult(stdout) /\ call[j] # "new"
  BY <1>1, Names DEF IInv, OneTurn
<1>3. QED
  BY <1>1, <1>2 DEF NotBegun

LEMMA DropsHold == IInv /\ Next => DropsKnown'
<1> SUFFICES ASSUME IInv, Next PROVE DropsKnown'
  OBVIOUS
<1> USE DEF IInv
<1>1. ASSUME \A k \in Jobs : call'[k] = "dropped" => call[k] = "dropped" \/ k \in meddled
      PROVE  DropsKnown'
  BY <1>1, MeddledGrows DEF DropsKnown
<1>2. ASSUME call' = call \/ Settle("answered") \/ Settle("failed") PROVE DropsKnown'
  BY <1>1, <1>2, SettleTypes
<1>3. ASSUME NEW j \in Jobs, Give(j) PROVE DropsKnown'
  BY <1>1, <1>3 DEF Give, TypeOK
<1>4. ASSUME NEW j \in Jobs, ReadBare(j) PROVE DropsKnown'
  <2>1. Holds(stdout, [bare |-> j]) /\ current = j
    BY <1>4, TailOnly DEF ReadBare, ReadLine, TypeOK
  <2>2. j \in meddled
    BY <2>1, Names DEF OneTurn
  <2>3. QED
    BY <1>1, <1>4, <2>1, <2>2, SettleTypes DEF ReadBare
<1>5. ASSUME NEW j \in Jobs, JobStep(j) PROVE DropsKnown'
  BY <1>2, <1>3, <1>4, <1>5
     DEF JobStep, ReadResult, RunJob, NoNewWorker, StartJob, FinishJob, wUnchanged, pvars
<1>6. ASSUME NEW q \in Queries, QueryStep(q) PROVE DropsKnown'
  BY <1>2, <1>6 DEF QueryStep, ReadRequest, Respond, Forward, ReadResponse, WaitTimeout, Ask,
                    TakeResponse, QueryTimeout, wUnchanged, pvars
<1>7. ASSUME NEW m \in OwnMessage, MessageStep(m) PROVE DropsKnown'
  BY <1>2, <1>7 DEF MessageStep, TakeResult, DropResult, PostOwn, pvars
<1>8. ASSUME NEW m \in Result, ReadForeign(m) PROVE DropsKnown'
  BY <1>2, <1>8 DEF ReadForeign
<1>9. CASE IgnoreLine \/ ParentTimeout \/ Exit \/ Restart
  BY <1>2, <1>9 DEF IgnoreLine, ParentTimeout, Exit, Restart, pvars
<1>10. CASE JobTimeout \/ WorkerError \/ SandboxDies \/ ProcessEnds
  BY <1>2, <1>10 DEF JobTimeout, WorkerError, SandboxDies, ProcessEnds, pvars
<1>11. QED
  BY <1>5, <1>6, <1>7, <1>8, <1>9, <1>10 DEF Next

-----------------------------------------------------------------------------
(* The current job is in one place                                         *)

LEMMA TurnHolds == IInv /\ Next => OneTurn'
<1> SUFFICES ASSUME IInv, Next PROVE OneTurn'
  OBVIOUS
<1> USE DEF IInv
<1>0. meddled \subseteq meddled'
  BY MeddledGrows
<1>1. ASSUME UNCHANGED <<stdin, stdout, current, running, call>> PROVE OneTurn'
  BY <1>0, <1>1 DEF OneTurn, NoResult
<1>2. ASSUME Dies, current' = None \/ UNCHANGED <<current, call>> PROVE OneTurn'
  BY <1>2, Died, Names DEF OneTurn, NoResult, Result
\* Lines of queries come and go.
<1>3. ASSUME UNCHANGED <<current, running, call>>,
             Only(stdin', Jobs), Only(stdout', Result),
             \A j \in Jobs : Holds(stdin', j) => Holds(stdin, j),
             \A m \in Result : Holds(stdout', m) => Holds(stdout, m)
      PROVE  OneTurn'
  BY <1>0, <1>3 DEF OneTurn, NoResult
<1>4. ASSUME NEW j \in Jobs, Give(j) PROVE OneTurn'
  <2>1. /\ \A k \in Jobs : ~Holds(stdin, k)
        /\ running = None
        /\ \A m \in Result : ~Holds(stdout, m)
    BY <1>4, Names DEF Give, OneTurn
  <2>2. /\ \A k \in Jobs : Holds(stdin', k) => k = j
        /\ Only(stdin', Jobs)
    BY <1>4, <2>1, WritesIn DEF Give, OneTurn
  <2>3. /\ current' = j /\ UNCHANGED <<stdout, running>>
        /\ call'[j] # "new"
    BY <1>4 DEF Give, rvars, TypeOK
  <2>4. QED
    BY <2>1, <2>2, <2>3 DEF OneTurn, NoResult
<1>5. ASSUME NEW j \in Jobs, ReadResult(j) PROVE OneTurn'
  <2>1. /\ Holds(stdout, j) /\ Only(stdout', Result) /\ NoResult(stdout')
    BY <1>5, ReadsOut, Names DEF ReadResult, ReadLine, OneTurn
  <2>2. /\ \A k \in Jobs : ~Holds(stdin, k)
        /\ running = None
    BY <2>1, Names DEF OneTurn, NoResult
  <2>3. current' = None /\ UNCHANGED <<stdin, running>>
    BY <1>5, SettleTypes DEF ReadResult, rvars
  <2>4. QED
    BY <2>1, <2>2, <2>3 DEF OneTurn, NoResult
<1>7. ASSUME NEW j \in Jobs, RunJob(j) PROVE OneTurn'
  <2>1. /\ current = j /\ NoResult(stdout)
        /\ Only(stdin', Jobs) /\ \A k \in Jobs : ~Holds(stdin', k)
    BY <1>7, TakesFirst DEF RunJob, pvars
  <2>2. running' = j /\ UNCHANGED <<stdout, current, call>>
    BY <1>7 DEF RunJob, pvars
  <2>3. QED
    BY <2>1, <2>2 DEF OneTurn, NoResult
<1>8. ASSUME NEW j \in Jobs, NoNewWorker(j) PROVE OneTurn'
  <2>1. /\ current = j /\ running = None /\ NoResult(stdout)
        /\ Only(stdin', Jobs) /\ \A k \in Jobs : ~Holds(stdin', k)
    BY <1>8, TakesFirst DEF NoNewWorker, pvars
  <2>2. Only(stdout', Result) /\ \A x : Holds(stdout', x) <=> Holds(stdout, x) \/ x = j
    BY <1>8, <2>1, WritesOut, Names DEF NoNewWorker, OneTurn
  <2>3. UNCHANGED <<running, current, call>>
    BY <1>8 DEF NoNewWorker, pvars, rvars
  <2>4. QED
    BY <2>1, <2>2, <2>3, Names DEF OneTurn, NoResult
<1>9. ASSUME NEW m \in Result, NEW k \in BOOLEAN, Finish(m, k), k => worker.outbox # <<>>,
             running # None, m = running \/ running \in meddled, UNCHANGED <<pvars, stdin>>
      PROVE  OneTurn'
  <2>1. /\ running = current /\ NoResult(stdout) /\ \A j \in Jobs : ~Holds(stdin, j)
    BY <1>9 DEF OneTurn
  <2>2. /\ running' = None /\ Only(stdout', Result)
        /\ \A x : Holds(stdout', x) <=> Holds(stdout, x) \/ x = m
    BY <1>9, <2>1, FinishTypes DEF OneTurn
  <2>3. UNCHANGED <<current, call, stdin>>
    BY <1>9 DEF pvars
  <2>4. QED
    BY <1>0, <1>9, <2>1, <2>2, <2>3 DEF OneTurn, NoResult
<1>10. ASSUME NEW m \in OwnMessage, TakeResult(m) PROVE OneTurn'
  <2> DEFINE line == IF m = Opaque THEN running ELSE m
  <2>1. running # None /\ Holds(worker.outbox, m) /\ line \in Result
    BY <1>10, TailOnly, Fields, Names DEF TakeResult, TypeOK
  <2>2. ASSUME ~Meddling PROVE line = running
    BY <2>1, <2>2 DEF InTurn
  <2>3. ASSUME Meddling PROVE running \in meddled
    BY <2>1, <2>3 DEF ThreadKept, TypeOK
  <2>4. QED
    <3>1. Finish(line, TRUE) /\ worker.outbox # <<>> /\ UNCHANGED <<pvars, stdin>>
      BY <1>10 DEF TakeResult
    <3> HIDE DEF line
    <3>2. QED
      BY <1>9, <2>1, <2>2, <2>3, <3>1
<1>11. CASE JobTimeout \/ WorkerError
  <2>1. running \in Result /\ running # None
    BY <1>11 DEF JobTimeout, WorkerError, TypeOK, Result
  <2>2. QED
    BY <1>9, <1>11, <2>1 DEF JobTimeout, WorkerError
<1>12. ASSUME NEW q \in Queries, QueryStep(q) PROVE OneTurn'
  <2>1. CASE ReadRequest(q)
    BY <1>3, <2>1, ReadsOut DEF ReadRequest, ReadLine, rvars, OneTurn
  <2>2. CASE Respond(q)
    <3>1. Only(stdin', Jobs) /\ \A j \in Jobs : Holds(stdin', j) => Holds(stdin, j)
      BY <2>2, WritesIn, Names DEF Respond, OneTurn
    <3>2. QED
      BY <1>3, <2>2, <3>1 DEF Respond, rvars, OneTurn
  <2>3. CASE Forward(q)
    <3>1. Only(stdout', Result) /\ \A m \in Result : Holds(stdout', m) => Holds(stdout, m)
      BY <2>3, WritesOut, Names DEF Forward, OneTurn
    <3>2. QED
      BY <1>3, <2>3, <3>1 DEF Forward, pvars, OneTurn
  <2>4. CASE ReadResponse(q)
    BY <1>3, <2>4, ReadsIn DEF ReadResponse, pvars, OneTurn
  <2>5. CASE WaitTimeout(q)
    BY <1>1, <2>5 DEF WaitTimeout, pvars
  <2>6. CASE Ask(q) \/ TakeResponse(q) \/ QueryTimeout(q)
    BY <1>1, <2>6 DEF Ask, TakeResponse, QueryTimeout, wUnchanged, pvars, rvars
  <2>7. QED
    BY <1>12, <2>1, <2>2, <2>3, <2>4, <2>5, <2>6 DEF QueryStep
<1>13. ASSUME NEW m \in Result, ReadForeign(m) PROVE OneTurn'
  BY <1>2, <1>13, SettleTypes DEF ReadForeign
<1>14. ASSUME NEW m \in OwnMessage, DropResult(m) \/ PostOwn(m) PROVE OneTurn'
  BY <1>1, <1>14 DEF DropResult, PostOwn, pvars, rvars
<1>15. CASE IgnoreLine
  BY <1>3, <1>15, ReadsOut DEF IgnoreLine, pvars, rvars, OneTurn
<1>16. CASE ParentTimeout \/ ProcessEnds
  BY <1>2, <1>16, SettleTypes DEF ParentTimeout, ProcessEnds, pvars
<1>17. CASE Exit
  <2>1. stdin = <<>> /\ stdout = <<>> /\ running = None
    BY <1>17 DEF Exit, DeadIsEmpty
  <2>2. current' = None /\ stdin' = stdin /\ stdout' = stdout /\ running' = running
    BY <1>17, SettleTypes DEF Exit, rvars
  <2>3. QED
    BY <2>1, <2>2, EmptyHolds DEF OneTurn, NoResult
<1>18. CASE Restart
  BY <1>1, <1>18 DEF Restart, rvars
<1>19. CASE SandboxDies
  BY <1>1, <1>19 DEF SandboxDies, pvars, rvars
<1>20. ASSUME NEW j \in Jobs, StartJob(j) \/ FinishJob(j) PROVE OneTurn'
  BY <1>1, <1>20 DEF StartJob, FinishJob, wUnchanged, pvars, rvars
<1>21. ASSUME NEW j \in Jobs, ReadBare(j) PROVE OneTurn'
  BY <1>2, <1>21, SettleTypes DEF ReadBare
<1>22. QED
  BY <1>4, <1>5, <1>7, <1>8, <1>10, <1>11, <1>12, <1>13, <1>14, <1>15, <1>16, <1>17,
     <1>18, <1>19, <1>20, <1>21 DEF Next, JobStep, MessageStep

-----------------------------------------------------------------------------
(* The jobs of the worker thread                                           *)

LEMMA InThreadIs ==
  ASSUME TypeOK
  PROVE  InThread = {j \in Jobs : InWorker(worker, j)}
<1>1. DOMAIN worker.inbox = 1..Len(worker.inbox) /\ worker.ran \subseteq Jobs
  BY Fields, LenProperties
<1>2. QED
  BY <1>1 DEF InThread, Waiting, InWorker, Holds

LEMMA ThreadHolds == IInv /\ Next => ThreadKept'
<1> SUFFICES ASSUME IInv, Next PROVE ThreadKept'
  OBVIOUS
<1> USE DEF IInv
<1>0. \A j \in Jobs : NotBegun(j)' => NotBegun(j)
  BY BegunStays
\* No job comes to the thread or leaves it.
<1>1. ASSUME worker'.key = worker.key, worker'.exec \subseteq worker'.ran,
             \A j \in Jobs : InWorker(worker', j) <=> InWorker(worker, j),
             Meddling' <=> Meddling, running' \in {running, None}, meddled' = meddled
      PROVE  ThreadKept'
  BY <1>0, <1>1 DEF ThreadKept, TypeOK
<1>2. ASSUME worker'.key = worker.key, worker'.exec \subseteq worker.exec,
             worker'.ran = worker.ran, running' \in {running, None}, meddled' = meddled,
             \A j \in Jobs : Holds(worker'.inbox, j) <=> Holds(worker.inbox, j)
      PROVE  ThreadKept'
  <2>1. /\ Meddling' <=> Meddling
        /\ \A j \in Jobs : InWorker(worker', j) <=> InWorker(worker, j)
        /\ worker'.exec \subseteq worker'.ran
    BY <1>2 DEF Meddling, InWorker, ThreadKept
  <2>2. QED
    BY <1>1, <1>2, <2>1
<1>3. ASSUME UNCHANGED <<worker, running, meddled>> PROVE ThreadKept'
  BY <1>2, <1>3
<1>4. ASSUME Fresh(worker'), running' = None, meddled' = meddled PROVE ThreadKept'
  <2>1. \A j \in Jobs : ~InWorker(worker', j)
    BY <1>4, FreshHolds DEF InWorker
  <2>2. worker'.exec \subseteq worker'.ran
    BY <1>4 DEF Fresh
  <2>3. QED
    BY <1>0, <1>4, <2>1, <2>2 DEF ThreadKept
<1>5. ASSUME NEW j \in Jobs, RunJob(j) PROVE ThreadKept'
  <2>1. /\ NotBegun(j) /\ ~NotBegun(j)' /\ running' = j
        /\ j \notin meddled /\ ~InWorker(worker, j)
    BY <1>5, TakesFirst DEF RunJob, pvars, ThreadKept
  <2>2. CASE Reuse /\ worker.key = KeyOf[j]
    <3>1. /\ worker'.exec = worker.exec /\ worker'.ran = worker.ran /\ worker'.key = KeyOf[j]
          /\ \A x : Holds(worker'.inbox, x) <=> Holds(worker.inbox, x) \/ x = j
      BY <1>5, <2>2, Posts DEF RunJob
    <3>2. \A k \in Jobs : InWorker(worker', k) <=> InWorker(worker, k) \/ k = j
      BY <3>1 DEF InWorker
    <3>3. meddled' = IF Meddling THEN meddled \cup {j} ELSE meddled
      BY <1>5, <2>2 DEF RunJob, Meddling
    <3>4. Meddling' <=> Meddling
      BY <3>1, <3>3 DEF Meddling
    <3>5. \A k \in Jobs : NotBegun(k)' => k \notin meddled' /\ ~InWorker(worker', k)
      BY <1>0, <2>1, <3>2, <3>3 DEF ThreadKept
    <3>6. \A k \in Jobs : InWorker(worker', k) => KeyOf[k] = worker'.key
      BY <2>2, <3>1, <3>2 DEF ThreadKept
    <3>7. \A k \in Jobs : InWorker(worker', k) => (k \in meddled' <=> Meddling')
      BY <2>1, <3>2, <3>3, <3>4 DEF ThreadKept
    <3>8. worker'.exec \subseteq worker'.ran /\ InWorker(worker', running')
      BY <2>1, <3>1, <3>2 DEF ThreadKept
    <3>9. QED
      BY <3>5, <3>6, <3>7, <3>8 DEF ThreadKept
  <2>3. CASE ~(Reuse /\ worker.key = KeyOf[j])
    <3>1. /\ worker' = [NewWorker(KeyOf[j]) EXCEPT !.inbox = <<j>>]
          /\ meddled' = meddled
      BY <1>5, <2>3 DEF RunJob, Replace
    <3>2. /\ worker'.exec = {} /\ worker'.ran = {} /\ worker'.key = KeyOf[j]
          /\ \A x : Holds(worker'.inbox, x) <=> x = j
      BY <3>1, NewForJob
    <3>3. (\A k \in Jobs : InWorker(worker', k) <=> k = j) /\ ~Meddling'
      BY <3>2 DEF InWorker, Meddling
    <3>4. QED
      BY <1>0, <2>1, <3>1, <3>2, <3>3 DEF ThreadKept
  <2>4. QED
    BY <2>2, <2>3
<1>6. ASSUME NEW j \in Jobs, StartJob(j) PROVE ThreadKept'
  <2>1. /\ worker'.exec = worker.exec \cup {j} /\ worker'.ran = worker.ran \cup {j}
        /\ worker'.key = worker.key /\ Holds(worker.inbox, j)
        /\ \A x : Holds(worker'.inbox, x) => Holds(worker.inbox, x)
        /\ \A x : Holds(worker.inbox, x) => x = j \/ Holds(worker'.inbox, x)
    BY <1>6, StartsJob, WorkerTakes
  <2>2. running' = running /\ meddled' = meddled
    BY <1>6 DEF StartJob, wUnchanged, rvars, mvars
  <2>3. \A k \in Jobs : InWorker(worker', k) <=> InWorker(worker, k)
    BY <2>1 DEF InWorker
  <2>4. j \in meddled <=> Meddling
    BY <2>1 DEF InWorker, ThreadKept
  <2>5. Meddling' <=> Meddling
    BY <2>1, <2>2, <2>4 DEF Meddling
  <2>6. worker'.exec \subseteq worker'.ran
    BY <2>1 DEF ThreadKept
  <2>7. QED
    BY <1>1, <2>1, <2>2, <2>3, <2>5, <2>6
<1>7. ASSUME NEW j \in Jobs, FinishJob(j) PROVE ThreadKept'
  <2>1. /\ worker'.inbox = worker.inbox /\ worker'.exec = worker.exec \ {j}
        /\ worker'.ran = worker.ran /\ worker'.key = worker.key
    BY <1>7, EndsJob
  <2>2. QED
    BY <1>2, <1>7, <2>1 DEF FinishJob, wUnchanged, rvars, mvars
<1>8. ASSUME NEW j \in Jobs, NoNewWorker(j) PROVE ThreadKept'
  <2>1. running' = None
    BY <1>8 DEF NoNewWorker, TakesJob, rvars
  <2>2. QED
    BY <1>4, <1>8, <2>1, NewIsFresh DEF NoNewWorker, Replace, mvars
<1>9. ASSUME Dies, meddled' = meddled PROVE ThreadKept'
  BY <1>4, <1>9, Died
<1>10. ASSUME NEW j \in Jobs, JobStep(j) PROVE ThreadKept'
  <2>1. CASE Give(j) \/ ReadResult(j)
    BY <1>3, <2>1 DEF Give, ReadResult, rvars, mvars
  <2>2. CASE ReadBare(j)
    BY <1>9, <2>2 DEF ReadBare, mvars
  <2>3. QED
    BY <1>5, <1>6, <1>7, <1>8, <1>10, <2>1, <2>2 DEF JobStep
<1>11. ASSUME NEW q \in Queries, Resolve(q), UNCHANGED <<running, meddled>> PROVE ThreadKept'
  <2>1. CASE Post(q)
    BY <1>2, <1>11, <2>1, Posts, Names
  <2>2. CASE UNCHANGED worker
    BY <1>3, <1>11, <2>2
  <2>3. QED
    BY <1>11, <2>1, <2>2 DEF Resolve
<1>12. ASSUME NEW q \in Queries, QueryStep(q) PROVE ThreadKept'
  <2>1. CASE ReadRequest(q) \/ Respond(q) \/ QueryTimeout(q)
    BY <1>3, <2>1 DEF ReadRequest, Respond, QueryTimeout, wUnchanged, rvars, mvars
  <2>2. CASE Forward(q)
    BY <1>2, <2>2, TakesMessage DEF Forward, mvars
  <2>3. CASE ReadResponse(q) \/ WaitTimeout(q)
    BY <1>11, <2>3 DEF ReadResponse, WaitTimeout, mvars
  <2>4. CASE Ask(q)
    BY <1>2, <2>4, EmitsOnly, Names DEF Ask, wUnchanged, rvars, mvars
  <2>5. CASE TakeResponse(q)
    <3>1. /\ worker'.exec = worker.exec /\ worker'.ran = worker.ran /\ worker'.key = worker.key
          /\ Head(worker.inbox) = q
          /\ \A x : Holds(worker'.inbox, x) => Holds(worker.inbox, x)
          /\ \A x : Holds(worker.inbox, x) => x = Head(worker.inbox) \/ Holds(worker'.inbox, x)
      BY <2>5, TakeKeeps, WorkerTakes, Fields DEF TakeResponse, WorkerReads
    <3>2. QED
      BY <1>2, <2>5, <3>1, Names DEF TakeResponse, wUnchanged, rvars, mvars
  <2>6. QED
    BY <1>12, <2>1, <2>2, <2>3, <2>4, <2>5 DEF QueryStep
<1>13. ASSUME NEW m \in Result, NEW k \in BOOLEAN, Finish(m, k), k => worker.outbox # <<>>,
              UNCHANGED meddled
       PROVE  ThreadKept'
  <2>1. running' = None /\ (Fresh(worker') \/ worker' = [worker EXCEPT !.outbox = Tail(@)])
    BY <1>13, FinishTypes
  <2>2. ASSUME worker' = [worker EXCEPT !.outbox = Tail(@)] PROVE ThreadKept'
    <3>1. worker \in Worker
      BY DEF TypeOK
    <3>2. /\ worker'.key = worker.key /\ worker'.exec = worker.exec
          /\ worker'.ran = worker.ran /\ worker'.inbox = worker.inbox
      BY <2>2, <3>1 DEF Worker
    <3>3. QED
      BY <1>2, <1>13, <2>1, <3>2
  <2>3. QED
    BY <1>4, <1>13, <2>1, <2>2
<1>14. ASSUME NEW m \in OwnMessage, TakeResult(m) PROVE ThreadKept'
  <2>1. (IF m = Opaque THEN running ELSE m) \in Result
    BY <1>14, Names DEF TakeResult, TypeOK
  <2>2. QED
    BY <1>13, <1>14, <2>1 DEF TakeResult, mvars
<1>15. ASSUME NEW m \in OwnMessage, DropResult(m) PROVE ThreadKept'
  BY <1>2, <1>15, TakesMessage DEF DropResult, rvars, mvars
\* User code of a job of the thread posts: all the jobs in it are meddled with.
<1>16. ASSUME NEW m \in OwnMessage, PostOwn(m) PROVE ThreadKept'
  <2>1. /\ worker'.inbox = worker.inbox /\ worker'.exec = worker.exec
        /\ worker'.ran = worker.ran /\ worker'.key = worker.key /\ running' = running
    BY <1>16, EmitsOnly, Names DEF PostOwn, rvars
  <2>2. /\ meddled' = meddled \cup InThread /\ worker.ran # {}
        /\ worker.ran \subseteq InThread
    BY <1>16 DEF PostOwn, InThread
  <2>3. /\ \A j \in Jobs : InWorker(worker', j) <=> InWorker(worker, j)
        /\ \A j \in Jobs : j \in meddled' <=> j \in meddled \/ InWorker(worker, j)
    BY <2>1, <2>2, InThreadIs DEF InWorker
  <2>4. Meddling'
    BY <2>1, <2>2 DEF Meddling
  <2>5. /\ \A j \in Jobs : InWorker(worker', j) => KeyOf[j] = worker'.key
        /\ worker'.exec \subseteq worker'.ran
        /\ running' # None => InWorker(worker', running')
    BY <2>1, <2>3 DEF ThreadKept, TypeOK
  <2>6. \A j \in Jobs : NotBegun(j)' => j \notin meddled' /\ ~InWorker(worker', j)
    BY <1>0, <2>3 DEF ThreadKept
  <2>7. QED
    BY <2>3, <2>4, <2>5, <2>6 DEF ThreadKept
<1>17. ASSUME NEW m \in Result, ReadForeign(m) PROVE ThreadKept'
  BY <1>9, <1>17 DEF ReadForeign, mvars
<1>18. CASE ParentTimeout \/ ProcessEnds
  BY <1>9, <1>18 DEF ParentTimeout, ProcessEnds, mvars
<1>19. CASE IgnoreLine \/ Exit \/ Restart
  BY <1>3, <1>19 DEF IgnoreLine, Exit, Restart, rvars, mvars
<1>20. CASE JobTimeout \/ WorkerError
  <2>1. running \in Result
    BY <1>20, Names DEF JobTimeout, WorkerError, TypeOK
  <2>2. QED
    BY <1>13, <1>20, <2>1 DEF JobTimeout, WorkerError, mvars
<1>21. CASE SandboxDies
  <2>1. /\ worker'.inbox = worker.inbox /\ worker'.exec = worker.exec
        /\ worker'.ran = worker.ran /\ worker'.key = worker.key
    BY <1>21 DEF SandboxDies, TypeOK, Worker
  <2>2. QED
    BY <1>2, <1>21, <2>1 DEF SandboxDies, rvars, mvars
<1>22. QED
  BY <1>10, <1>12, <1>14, <1>15, <1>16, <1>17, <1>18, <1>19, <1>20, <1>21
     DEF Next, MessageStep

(* Unless user code posted in it, the thread has the running job alone.    *)
LEMMA BoxHolds == IInv /\ Next => InTurn'
<1> SUFFICES ASSUME IInv, Next PROVE InTurn'
  OBVIOUS
<1> USE DEF IInv
\* No job comes, and messages about queries come and go.
<1>1. ASSUME worker'.exec = worker.exec, worker'.ran = worker.ran, running' = running,
             meddled \subseteq meddled',
             Only(worker.inbox, Jobs) => Only(worker'.inbox, Jobs),
             Only(worker.outbox, Jobs) => Only(worker'.outbox, Jobs),
             \A j \in Jobs : Holds(worker'.inbox, j) => Holds(worker.inbox, j),
             \A m \in OwnMessage : Holds(worker'.outbox, m) => Holds(worker.outbox, m)
      PROVE  InTurn'
  <2>1. Meddling => Meddling'
    BY <1>1 DEF Meddling
  <2>2. \A j \in Jobs : j \in OwnMessage
    BY Names
  <2>3. QED
    BY <1>1, <2>1, <2>2 DEF InTurn, Inside
<1>2. ASSUME worker' = worker, running' = running PROVE InTurn'
  BY <1>1, <1>2, MeddledGrows
<1>3. ASSUME Fresh(worker') PROVE InTurn'
  BY <1>3, FreshHolds DEF InTurn, Inside
<1>4. ASSUME Dies PROVE InTurn'
  BY <1>3, <1>4, Died
<1>5. ASSUME NEW j \in Jobs, RunJob(j) PROVE InTurn'
  <2>1. running = None /\ running' = j
    BY <1>5 DEF RunJob, TakesJob
  <2>2. CASE Reuse /\ worker.key = KeyOf[j]
    <3>1. /\ worker'.outbox = worker.outbox /\ worker'.exec = worker.exec
          /\ worker'.ran = worker.ran
          /\ \A x : Holds(worker'.inbox, x) <=> Holds(worker.inbox, x) \/ x = j
          /\ Only(worker.inbox, Jobs) /\ (\A k \in Jobs : ~Holds(worker.inbox, k))
               => Only(worker'.inbox, Jobs)
      BY <1>5, <2>2, Posts DEF RunJob
    <3>2. Meddling => Meddling'
      BY <3>1, MeddledGrows DEF Meddling
    <3>3. ASSUME ~Meddling
          PROVE  /\ \A k \in Jobs : ~Inside(worker, k) /\ ~Holds(worker.outbox, k)
                 /\ Only(worker'.inbox, Jobs)
      BY <2>1, <3>1, <3>3, Names DEF InTurn, Inside
    <3>4. QED
      BY <2>1, <3>1, <3>2, <3>3 DEF InTurn, Inside
  <2>3. CASE ~(Reuse /\ worker.key = KeyOf[j])
    <3>1. worker' = [NewWorker(KeyOf[j]) EXCEPT !.inbox = <<j>>]
      BY <1>5, <2>3 DEF RunJob, Replace
    <3>2. /\ worker'.exec = {} /\ worker'.outbox = <<>>
          /\ \A x : Holds(worker'.inbox, x) <=> x = j
          /\ Only(worker'.inbox, Jobs)
      BY <3>1, NewForJob
    <3>3. Only(worker'.outbox, Jobs) /\ \A x : ~Holds(worker'.outbox, x)
      BY <3>2, EmptyHolds
    <3>4. QED
      BY <2>1, <3>2, <3>3 DEF InTurn, Inside
  <2>4. QED
    BY <2>2, <2>3
<1>6. ASSUME NEW j \in Jobs, StartJob(j) PROVE InTurn'
  <2>1. /\ worker'.outbox = worker.outbox /\ worker'.exec = worker.exec \cup {j}
        /\ worker'.ran = worker.ran \cup {j}
        /\ \A x : Holds(worker'.inbox, x) => Holds(worker.inbox, x)
        /\ Only(worker.inbox, Jobs) => Only(worker'.inbox, Jobs)
        /\ Only(worker.inbox, Jobs) => \A k \in Jobs : ~Holds(worker'.inbox, k)
        /\ Holds(worker.inbox, j)
    BY <1>6, StartsJob, WorkerTakes
  <2>2. running' = running /\ meddled' = meddled
    BY <1>6 DEF StartJob, wUnchanged, rvars, mvars
  <2>3. Meddling => Meddling'
    BY <2>1, <2>2 DEF Meddling
  <2>4. QED
    BY <2>1, <2>2, <2>3 DEF InTurn, Inside
<1>7. ASSUME NEW j \in Jobs, FinishJob(j) PROVE InTurn'
  <2>1. /\ worker'.inbox = worker.inbox /\ worker'.exec = worker.exec \ {j}
        /\ worker'.ran = worker.ran /\ j \in worker.exec
        /\ \A x : Holds(worker'.outbox, x) <=> Holds(worker.outbox, x) \/ x = j
        /\ Only(worker.outbox, Jobs) /\ (\A k \in Jobs : ~Holds(worker.outbox, k))
              => Only(worker'.outbox, Jobs)
    BY <1>7, EndsJob
  <2>2. running' = running /\ meddled' = meddled
    BY <1>7 DEF FinishJob, wUnchanged, rvars, mvars
  <2>3. Meddling => Meddling'
    BY <2>1, <2>2 DEF Meddling
  <2>4. ASSUME ~Meddling
        PROVE  /\ running = j /\ \A k \in Jobs : ~Holds(worker.outbox, k)
               /\ \A k \in Jobs : ~Inside(worker', k)
    <3>1. /\ running = j /\ \A k \in Jobs : ~Holds(worker.outbox, k)
          /\ \A k \in Jobs : Inside(worker, k) => k = j
          /\ ~Holds(worker.inbox, j)
      BY <2>1, <2>4 DEF InTurn, Inside
    <3>2. QED
      BY <2>1, <3>1 DEF Inside
  <2>5. ASSUME ~Meddling PROVE Only(worker'.inbox, Jobs) /\ Only(worker'.outbox, Jobs)
    BY <2>1, <2>4, <2>5 DEF InTurn
  <2>6. ASSUME ~Meddling, NEW m \in OwnMessage, Holds(worker'.outbox, m) PROVE m \in Jobs
    BY <2>1, <2>6 DEF InTurn
  <2>7. QED
    BY <2>1, <2>2, <2>3, <2>4, <2>5, <2>6 DEF InTurn, Inside
<1>8. ASSUME NEW j \in Jobs, JobStep(j) PROVE InTurn'
  <2>1. CASE Give(j) \/ ReadResult(j)
    BY <1>2, <2>1 DEF Give, ReadResult, rvars
  <2>2. CASE ReadBare(j)
    BY <1>4, <2>2 DEF ReadBare
  <2>3. CASE NoNewWorker(j)
    BY <1>3, <2>3, NewIsFresh DEF NoNewWorker, Replace
  <2>4. QED
    BY <1>5, <1>6, <1>7, <1>8, <2>1, <2>2, <2>3 DEF JobStep
<1>9. ASSUME NEW q \in Queries, Resolve(q), running' = running PROVE InTurn'
  <2>1. CASE Post(q)
    BY <1>1, <1>9, <2>1, Posts, Names, MeddledGrows
  <2>2. CASE UNCHANGED worker
    BY <1>2, <1>9, <2>2
  <2>3. QED
    BY <1>9, <2>1, <2>2 DEF Resolve
<1>10. ASSUME NEW q \in Queries, QueryStep(q) PROVE InTurn'
  <2>1. CASE ReadRequest(q) \/ Respond(q) \/ QueryTimeout(q)
    BY <1>2, <2>1 DEF ReadRequest, Respond, QueryTimeout, wUnchanged, rvars
  <2>2. CASE Forward(q)
    BY <1>1, <2>2, TakesMessage, MeddledGrows DEF Forward
  <2>3. CASE ReadResponse(q) \/ WaitTimeout(q)
    BY <1>9, <2>3 DEF ReadResponse, WaitTimeout
  <2>4. CASE Ask(q)
    <3>1. /\ worker'.inbox = worker.inbox /\ worker'.exec = worker.exec
          /\ worker'.ran = worker.ran
          /\ \A x : Holds(worker'.outbox, x) <=> Holds(worker.outbox, x) \/ x = q
          /\ Only(worker.outbox, Jobs) => Only(worker'.outbox, Jobs)
      BY <2>4, EmitsOnly, Names DEF Ask, Message
    <3>2. QED
      BY <1>1, <2>4, <3>1, Names, MeddledGrows DEF Ask, wUnchanged, rvars
  <2>5. CASE TakeResponse(q)
    <3>1. /\ worker'.outbox = worker.outbox /\ worker'.exec = worker.exec
          /\ worker'.ran = worker.ran
          /\ \A x : Holds(worker'.inbox, x) => Holds(worker.inbox, x)
          /\ Only(worker.inbox, Jobs) => Only(worker'.inbox, Jobs)
      BY <2>5, TakeKeeps, WorkerTakes, Fields DEF TakeResponse, WorkerReads
    <3>2. QED
      BY <1>1, <2>5, <3>1, MeddledGrows DEF TakeResponse, wUnchanged, rvars
  <2>6. QED
    BY <1>10, <2>1, <2>2, <2>3, <2>4, <2>5 DEF QueryStep
<1>11. ASSUME NEW m \in OwnMessage, TakeResult(m) PROVE InTurn'
  <2>1. /\ running' = None /\ meddled' = meddled
        /\ worker.outbox # <<>> /\ Head(worker.outbox) = m
        /\ worker' = [worker EXCEPT !.outbox = Tail(@)] \/ worker' = NoWorker
    BY <1>11 DEF TakeResult, Finish, Replace, mvars
  <2>2. ASSUME worker' = [worker EXCEPT !.outbox = Tail(@)] PROVE InTurn'
    <3>1. /\ Holds(worker.outbox, m)
          /\ worker'.inbox = worker.inbox /\ worker'.exec = worker.exec
          /\ worker'.ran = worker.ran
          /\ \A x : Holds(worker'.outbox, x) => Holds(worker.outbox, x)
          /\ Only(worker.outbox, Jobs) => Only(worker'.outbox, Jobs)
          /\ Only(worker.outbox, Jobs) /\ m \in Jobs
               => \A j \in Jobs : ~Holds(worker'.outbox, j)
      BY <2>1, <2>2, TakesMessage
    <3>2. Meddling' <=> Meddling
      BY <2>1, <3>1 DEF Meddling
    <3>3. ASSUME ~Meddling
          PROVE  /\ \A j \in Jobs : ~Inside(worker, j)
                 /\ \A j \in Jobs : ~Holds(worker'.outbox, j)
      <4>1. m \in Jobs /\ running = m
        BY <3>1, <3>3 DEF InTurn
      <4>2. QED
        BY <3>1, <3>3, <4>1 DEF InTurn
    <3>4. QED
      BY <3>1, <3>2, <3>3 DEF InTurn, Inside
  <2>3. ASSUME worker' = NoWorker PROVE InTurn'
    BY <1>3, <2>3, NewIsFresh
  <2>4. QED
    BY <2>1, <2>2, <2>3
<1>12. ASSUME NEW m \in OwnMessage, DropResult(m) PROVE InTurn'
  BY <1>1, <1>12, TakesMessage, MeddledGrows DEF DropResult, rvars
<1>13. ASSUME NEW m \in OwnMessage, PostOwn(m) PROVE InTurn'
  <2>1. worker'.ran = worker.ran
    BY <1>13, EmitsOnly, Names DEF PostOwn
  <2>2. Meddling'
    BY <1>13, <2>1 DEF PostOwn, InThread, Meddling
  <2>3. QED
    BY <2>2 DEF InTurn
<1>14. ASSUME NEW m \in Result, ReadForeign(m) PROVE InTurn'
  BY <1>4, <1>14 DEF ReadForeign
<1>15. CASE ParentTimeout \/ ProcessEnds
  BY <1>4, <1>15 DEF ParentTimeout, ProcessEnds
<1>16. CASE IgnoreLine \/ Exit \/ Restart
  BY <1>2, <1>16 DEF IgnoreLine, Exit, Restart, rvars
<1>17. CASE JobTimeout \/ WorkerError
  BY <1>3, <1>17, NewIsFresh DEF JobTimeout, WorkerError, Finish, Replace
<1>18. CASE SandboxDies
  <2>1. /\ worker'.inbox = worker.inbox /\ worker'.outbox = worker.outbox
        /\ worker'.exec = worker.exec /\ worker'.ran = worker.ran
    BY <1>18 DEF SandboxDies, TypeOK, Worker
  <2>2. QED
    BY <1>1, <1>18, <2>1, MeddledGrows DEF SandboxDies, rvars
<1>19. QED
  BY <1>8, <1>10, <1>11, <1>12, <1>13, <1>14, <1>15, <1>16, <1>17, <1>18
     DEF Next, MessageStep

-----------------------------------------------------------------------------
(* Queries and the worker that asked them                                  *)

LEMMA KnownHolds == IInv /\ Next => QueriesKnown'
<1> SUFFICES ASSUME IInv, Next PROVE QueriesKnown'
  OBVIOUS
<1> USE DEF IInv
<1>0. \A j \in Jobs : NotBegun(j)' => NotBegun(j)
  BY BegunStays
\* A message about a query is of a known one.
<1>1. ASSUME \A q \in Queries : Known(q) => Known(q)',
             \A q \in Queries : query'[q] = "asked" => JobOf[q] \in worker'.exec,
             \A q \in Queries : Holds(worker'.outbox, q) => Holds(worker.outbox, q) \/ Known(q)',
             \A q \in Queries : Holds(worker'.inbox, q) => Holds(worker.inbox, q) \/ Known(q)',
             \A q \in Queries : waits'[q] \in {waits[q], None},
             handler' = handler, running' \in {running, None}
      PROVE  QueriesKnown'
  <2>1. \A q \in Queries : waits'[q] # None /\ waits'[q] = running' => Known(q)'
    BY <1>1 DEF QueriesKnown
  <2>2. \A j \in Jobs : NotBegun(j)' => handler' # j /\ \A q \in Queries : waits'[q] # j
    BY <1>0, <1>1, Names DEF QueriesKnown
  <2>3. \A q \in Queries : /\ Holds(worker'.outbox, q) => Known(q)'
                           /\ Holds(worker'.inbox, q) => Known(q)'
    BY <1>1 DEF QueriesKnown
  <2>4. QED
    BY <1>1, <2>1, <2>2, <2>3 DEF QueriesKnown
\* Nothing happens to the queries.
<1>2. ASSUME query' = query, worker.exec \subseteq worker'.exec,
             \A q \in Queries : Holds(worker'.outbox, q) => Holds(worker.outbox, q),
             \A q \in Queries : Holds(worker'.inbox, q) => Holds(worker.inbox, q),
             UNCHANGED <<waits, handler>>, running' \in {running, None}
      PROVE  QueriesKnown'
  <2>1. /\ \A q \in Queries : Known(q) => Known(q)'
        /\ \A q \in Queries : query'[q] = "asked" => JobOf[q] \in worker'.exec
    BY <1>2 DEF Known, QueriesKnown
  <2>2. QED
    BY <1>1, <1>2, <2>1
\* The worker is terminated.
<1>3. ASSUME Fresh(worker'), running' = None,
             \A q \in Queries : query'[q] # "asked",
             \A j \in Jobs : NotBegun(j)' => handler' # j /\ \A q \in Queries : waits'[q] # j
      PROVE  QueriesKnown'
  BY <1>3, FreshHolds DEF QueriesKnown
<1>4. ASSUME NEW j \in Jobs, Give(j) PROVE QueriesKnown'
  BY <1>2, <1>4 DEF Give, rvars
<1>5. ASSUME NEW j \in Jobs, ReadResult(j) PROVE QueriesKnown'
  BY <1>2, <1>5 DEF ReadResult, rvars
<1>9. ASSUME NEW j \in Jobs, RunJob(j) PROVE QueriesKnown'
  <2>1. /\ \A k \in Jobs : NotBegun(k)' => NotBegun(k) /\ k # j
        /\ NotBegun(j)
    BY <1>0, <1>9, TakesFirst DEF RunJob, pvars
  <2>2. running' = j /\ handler' = j /\ waits' = waits
    BY <1>9 DEF RunJob
  <2>3. \A q \in Queries : waits'[q] # running'
    BY <2>1, <2>2 DEF QueriesKnown
  <2>4. \A k \in Jobs : NotBegun(k)' => handler' # k /\ \A q \in Queries : waits'[q] # k
    BY <2>1, <2>2 DEF QueriesKnown
  <2>5. CASE Reuse /\ worker.key = KeyOf[j]
    <3>1. Post(j) /\ query' = query
      BY <1>9, <2>5 DEF RunJob
    <3>2. /\ worker'.outbox = worker.outbox /\ worker'.exec = worker.exec
          /\ \A x : Holds(worker'.inbox, x) <=> Holds(worker.inbox, x) \/ x = j
      BY <3>1, Posts
    <3>3. QED
      BY <2>3, <2>4, <3>1, <3>2, Names DEF QueriesKnown, Known
  <2>6. CASE ~(Reuse /\ worker.key = KeyOf[j])
    <3>1. Replace([NewWorker(KeyOf[j]) EXCEPT !.inbox = <<j>>])
      BY <1>9, <2>6 DEF RunJob
    <3>2. worker' = [NewWorker(KeyOf[j]) EXCEPT !.inbox = <<j>>]
      BY <3>1 DEF Replace
    <3>3. /\ worker' \in Worker /\ worker'.outbox = <<>>
          /\ \A x : Holds(worker'.inbox, x) <=> x = j
      BY <3>2, NewForJob
    <3>4. \A q \in Queries : query'[q] # "asked"
      BY <3>1, <3>2, <3>3, Replaces
    <3>5. \A x : ~Holds(worker'.outbox, x)
      BY <3>3, EmptyHolds
    <3>6. QED
      BY <2>3, <2>4, <3>3, <3>4, <3>5, Names DEF QueriesKnown
  <2>7. QED
    BY <2>5, <2>6
<1>10. ASSUME NEW j \in Jobs, NoNewWorker(j) PROVE QueriesKnown'
  <2>1. running' = None
    BY <1>10 DEF NoNewWorker, TakesJob, rvars
  <2>2. Fresh(worker') /\ \A q \in Queries : query'[q] # "asked"
    BY <1>10, NewIsFresh, Replaces DEF NoNewWorker, Fresh
  <2>3. QED
    BY <1>0, <1>3, <1>10, <2>1, <2>2 DEF NoNewWorker, rvars, QueriesKnown
<1>11. ASSUME NEW j \in Jobs, StartJob(j) PROVE QueriesKnown'
  <2>1. /\ worker'.outbox = worker.outbox /\ worker'.exec = worker.exec \cup {j}
        /\ \A x : Holds(worker'.inbox, x) => Holds(worker.inbox, x)
    BY <1>11, StartsJob, WorkerTakes
  <2>2. QED
    BY <1>2, <1>11, <2>1 DEF StartJob, wUnchanged, pvars, rvars
<1>12. ASSUME NEW j \in Jobs, FinishJob(j) PROVE QueriesKnown'
  <2>2. /\ worker'.inbox = worker.inbox /\ worker'.exec = worker.exec \ {j}
        /\ \A x : Holds(worker'.outbox, x) <=> Holds(worker.outbox, x) \/ x = j
    BY <1>12, EndsJob
  <2>3. \A q \in Queries : /\ Known(q) => Known(q)'
                           /\ query'[q] = "asked" => query[q] = "asked" /\ JobOf[q] # j
    BY <1>12 DEF FinishJob, Known, Pending
  <2>4. \A q \in Queries : query'[q] = "asked" => JobOf[q] \in worker'.exec
    BY <2>2, <2>3 DEF QueriesKnown
  <2>5. UNCHANGED <<waits, handler, running, stdin, call>>
    BY <1>12 DEF FinishJob, wUnchanged, pvars, rvars
  <2>6. \A q \in Queries : /\ Holds(worker'.outbox, q) => Holds(worker.outbox, q)
                           /\ Holds(worker'.inbox, q) => Holds(worker.inbox, q)
    BY <2>2, Names
  <2>7. QED
    BY <1>1, <2>3, <2>4, <2>5, <2>6
<1>13. ASSUME NEW q \in Queries, ReadRequest(q) PROVE QueriesKnown'
  BY <1>2, <1>13 DEF ReadRequest, rvars
<1>14. ASSUME NEW q \in Queries, Respond(q) PROVE QueriesKnown'
  BY <1>2, <1>14 DEF Respond, rvars
<1>15. ASSUME NEW q \in Queries, Forward(q) PROVE QueriesKnown'
  <2>1. /\ Holds(worker.outbox, q)
        /\ worker'.inbox = worker.inbox /\ worker'.exec = worker.exec
        /\ \A x : Holds(worker'.outbox, x) => Holds(worker.outbox, x)
    BY <1>15, TakesMessage DEF Forward
  <2>2. /\ UNCHANGED <<query, running, handler, stdin, call>>
        /\ \A r \in Queries : waits'[r] = IF r = q THEN handler ELSE waits[r]
    BY <1>15 DEF Forward, pvars, TypeOK
  <2>3. \A r \in Queries : waits'[r] # None /\ waits'[r] = running' => Known(r)'
    BY <2>1, <2>2 DEF QueriesKnown, Known
  <2>4. \A j \in Jobs : NotBegun(j)' => handler' # j /\ \A r \in Queries : waits'[r] # j
    BY <1>0, <2>2 DEF QueriesKnown
  <2>5. QED
    BY <2>1, <2>2, <2>3, <2>4 DEF QueriesKnown, Known
<1>16. ASSUME NEW q \in Queries, Resolve(q), UNCHANGED <<query, running, handler>>
       PROVE  QueriesKnown'
  <2>1. \A r \in Queries : waits'[r] \in {waits[r], None}
    BY <1>16 DEF Resolve, TypeOK
  <2>2. /\ worker'.exec = worker.exec /\ worker'.outbox = worker.outbox
        /\ \A r \in Queries : Holds(worker'.inbox, r) => Holds(worker.inbox, r) \/ Known(r)
    <3>1. CASE waits[q] # None /\ waits[q] = running
      <4>1. Post(q) /\ Known(q)
        BY <1>16, <3>1 DEF Resolve, QueriesKnown
      <4>2. QED
        BY <4>1, Posts
    <3>2. CASE ~(waits[q] # None /\ waits[q] = running)
      BY <1>16, <3>2 DEF Resolve
    <3>3. QED
      BY <3>1, <3>2
  <2>3. \A r \in Queries : /\ Known(r) <=> Known(r)'
                           /\ query'[r] = "asked" => JobOf[r] \in worker'.exec
    BY <1>16, <2>2 DEF Known, QueriesKnown
  <2>4. QED
    BY <1>1, <1>16, <2>1, <2>2, <2>3
<1>17. ASSUME NEW q \in Queries, ReadResponse(q) PROVE QueriesKnown'
  BY <1>16, <1>17 DEF ReadResponse
<1>18. ASSUME NEW q \in Queries, WaitTimeout(q) PROVE QueriesKnown'
  BY <1>16, <1>18 DEF WaitTimeout
<1>19. ASSUME NEW q \in Queries, Ask(q) PROVE QueriesKnown'
  <2>1. /\ worker'.inbox = worker.inbox /\ worker'.exec = worker.exec
        /\ \A x : Holds(worker'.outbox, x) <=> Holds(worker.outbox, x) \/ x = q
    BY <1>19, EmitsOnly DEF Ask, Message
  <2>2. /\ UNCHANGED <<waits, handler, running, stdin, call>>
        /\ query' = [query EXCEPT ![q] = IF JobOf[q] \in worker.exec THEN "asked" ELSE "background"]
    BY <1>19 DEF Ask, wUnchanged, pvars, rvars
  <2>3. Known(q)' /\ \A r \in Queries : Known(r) => Known(r)'
    BY <2>2 DEF Known, TypeOK
  <2>4. \A r \in Queries : query'[r] = "asked" => JobOf[r] \in worker'.exec
    BY <2>1, <2>2 DEF TypeOK, QueriesKnown
  <2>5. QED
    BY <1>1, <2>1, <2>2, <2>3, <2>4
<1>20. ASSUME NEW q \in Queries, SettleQuery(q), worker'.exec = worker.exec
       PROVE  \A r \in Queries : /\ Known(r) => Known(r)'
                                 /\ query'[r] = "asked" => JobOf[r] \in worker'.exec
  <2>1. \A r \in Queries : /\ Known(r) => Known(r)'
                           /\ query'[r] = "asked" => query[r] = "asked"
    BY <1>20 DEF SettleQuery, Known, TypeOK
  <2>2. QED
    BY <1>20, <2>1 DEF QueriesKnown
<1>21. ASSUME NEW q \in Queries, TakeResponse(q) PROVE QueriesKnown'
  <2>1. /\ worker'.outbox = worker.outbox /\ worker'.exec = worker.exec
        /\ \A x : Holds(worker'.inbox, x) => Holds(worker.inbox, x)
    BY <1>21, TakeKeeps, WorkerTakes, Fields DEF TakeResponse, WorkerReads
  <2>2. UNCHANGED <<waits, handler, running, stdin, call>> /\ SettleQuery(q)
    BY <1>21 DEF TakeResponse, wUnchanged, pvars, rvars
  <2>3. QED
    BY <1>1, <1>20, <2>1, <2>2
<1>22. ASSUME NEW q \in Queries, QueryTimeout(q) PROVE QueriesKnown'
  <2>1. UNCHANGED <<worker, waits, handler, running, stdin, call>> /\ SettleQuery(q)
    BY <1>22 DEF QueryTimeout, wUnchanged, pvars, rvars
  <2>2. QED
    BY <1>1, <1>20, <2>1
<1>23. ASSUME NEW m \in Result, NEW k \in BOOLEAN, Finish(m, k), k => worker.outbox # <<>>,
              UNCHANGED <<pvars, stdin, handler, waits>>
       PROVE  QueriesKnown'
  <2>1. running' = None
    BY <1>23 DEF Finish
  <2>2. CASE k /\ Reuse
    <3>1. worker' = [worker EXCEPT !.outbox = Tail(@)] /\ query' = query
      BY <1>23, <2>2 DEF Finish
    <3>2. /\ worker'.inbox = worker.inbox /\ worker'.exec = worker.exec
          /\ \A x : Holds(worker'.outbox, x) => Holds(worker.outbox, x)
      BY <1>23, <2>2, <3>1, TakesMessage
    <3>3. QED
      BY <1>2, <1>23, <2>1, <3>1, <3>2
  <2>3. CASE ~(k /\ Reuse)
    <3>1. Replace(NoWorker) /\ Fresh(NoWorker) /\ NoWorker \in Worker
      BY <1>23, <2>3, NewIsFresh DEF Finish, Fresh
    <3>2. Fresh(worker') /\ \A q \in Queries : query'[q] # "asked"
      BY <3>1, Replaces
    <3>3. QED
      BY <1>0, <1>3, <1>23, <2>1, <3>2 DEF QueriesKnown
  <2>4. QED
    BY <2>2, <2>3
<1>24. ASSUME NEW m \in OwnMessage, TakeResult(m) PROVE QueriesKnown'
  <2>1. (IF m = Opaque THEN running ELSE m) \in Result
    BY <1>24, Names DEF TakeResult, TypeOK
  <2>2. QED
    BY <1>23, <1>24, <2>1 DEF TakeResult
<1>25. CASE JobTimeout \/ WorkerError
  <2>1. running \in Result
    BY <1>25 DEF JobTimeout, WorkerError, TypeOK, Result
  <2>2. QED
    BY <1>23, <1>25, <2>1 DEF JobTimeout, WorkerError
<1>26. ASSUME NEW m \in OwnMessage, DropResult(m) PROVE QueriesKnown'
  <2>1. /\ worker'.inbox = worker.inbox /\ worker'.exec = worker.exec
        /\ \A x : Holds(worker'.outbox, x) => Holds(worker.outbox, x)
    BY <1>26, TakesMessage DEF DropResult
  <2>2. QED
    BY <1>2, <1>26, <2>1 DEF DropResult, pvars, rvars
<1>27. ASSUME Dies PROVE QueriesKnown'
  <2>1. \A j \in Jobs : handler' # j /\ \A q \in Queries : waits'[q] # j
    BY <1>27, Died, Names DEF NoWaits
  <2>2. QED
    BY <1>3, <1>27, <2>1, Died
<1>28. ASSUME NEW m \in Result, ReadForeign(m) PROVE QueriesKnown'
  BY <1>27, <1>28 DEF ReadForeign
<1>29. CASE ParentTimeout \/ ProcessEnds
  BY <1>27, <1>29 DEF ParentTimeout, ProcessEnds
<1>30. CASE IgnoreLine \/ Restart
  BY <1>2, <1>30 DEF IgnoreLine, Restart, pvars, rvars
<1>31. CASE Exit
  BY <1>2, <1>31 DEF Exit, rvars
<1>32. CASE SandboxDies
  <2>1. /\ worker'.inbox = worker.inbox /\ worker'.outbox = worker.outbox
        /\ worker'.exec = worker.exec
    BY <1>32 DEF SandboxDies, TypeOK, Worker
  <2>2. QED
    BY <1>2, <1>32, <2>1 DEF SandboxDies, pvars, rvars
<1>33. ASSUME NEW m \in OwnMessage, PostOwn(m) PROVE QueriesKnown'
  <2>1. /\ worker'.inbox = worker.inbox /\ worker'.exec = worker.exec
        /\ \A x : Holds(worker'.outbox, x) <=> Holds(worker.outbox, x) \/ x = m
    BY <1>33, EmitsOnly, Names DEF PostOwn
  <2>2. QED
    BY <1>2, <1>33, <2>1, Names DEF PostOwn, rvars
<1>34. ASSUME NEW j \in Jobs, ReadBare(j) PROVE QueriesKnown'
  BY <1>27, <1>34 DEF ReadBare
<1>35. QED
  BY <1>4, <1>5, <1>9, <1>10, <1>11, <1>12, <1>13, <1>14, <1>15, <1>17, <1>18, <1>19,
     <1>21, <1>22, <1>24, <1>25, <1>26, <1>28, <1>29, <1>30, <1>31, <1>32, <1>33,
     <1>34
     DEF Next, JobStep, QueryStep, MessageStep

-----------------------------------------------------------------------------
(* The theorems                                                            *)

LEMMA InitHolds == Init => IInv
<1> SUFFICES ASSUME Init PROVE IInv
  OBVIOUS
<1>1. /\ NoWorker \in Worker /\ Fresh(NoWorker) /\ Fresh(worker)
      /\ \A x : ~Holds(<<>>, x)
      /\ Only(<<>>, Jobs) /\ Only(<<>>, Result)
      /\ <<>> \in Seq(Jobs \cup Queries) /\ <<>> \in Seq(Result \cup Queries)
  BY NewIsFresh, EmptyHolds DEF Fresh, Init
<1>2. TypeOK
  BY <1>1, MaxPostsAssumption DEF Init, TypeOK, NoWaits, QueryState
<1>3. DeadIsEmpty /\ OneTurn /\ DropsKnown
  BY <1>1, Names DEF Init, DeadIsEmpty, OneTurn, NoResult, DropsKnown
<1>4. ThreadKept
  <2>1. \A j \in Jobs : ~InWorker(worker, j)
    BY <1>1, FreshHolds DEF InWorker
  <2>2. worker.exec = {}
    BY <1>1 DEF Fresh
  <2>3. QED
    BY <2>1, <2>2 DEF Init, ThreadKept
<1>5. InTurn
  BY <1>1, FreshHolds DEF InTurn, Inside
<1>6. QueriesKnown
  BY <1>1, FreshHolds, Names DEF Init, QueriesKnown, NoWaits
<1>7. QED
  BY <1>2, <1>3, <1>4, <1>5, <1>6 DEF IInv

LEMMA StepHolds == IInv /\ [Next]_vars => IInv'
<1> SUFFICES ASSUME IInv, [Next]_vars PROVE IInv'
  OBVIOUS
<1>1. CASE Next
  BY <1>1, TypeHolds, DeadHolds, TurnHolds, DropsHold, ThreadHolds, BoxHolds, KnownHolds DEF IInv
<1>2. CASE UNCHANGED vars
  BY <1>2 DEF vars, mvars, IInv, TypeOK, DeadIsEmpty, OneTurn, NoResult, DropsKnown, ThreadKept,
              Meddling, InTurn, Inside, QueriesKnown, Known, NotBegun
<1>3. QED
  BY <1>1, <1>2

(* Every variable keeps its type.                                          *)
THEOREM TypeCorrect == Spec => []TypeOK
<1>1. IInv => TypeOK
  BY DEF IInv
<1>2. QED
  BY <1>1, InitHolds, StepHolds, PTL DEF Spec

(* The runner never has to refuse a job because another one runs.          *)
THEOREM JobsNeverMeet == Spec => []NeverBusy
<1>1. IInv => NeverBusy
  <2> SUFFICES ASSUME IInv, NEW j \in Jobs, stdin # <<>>, Head(stdin) = j PROVE running = None
    BY DEF NeverBusy
  <2>1. stdin \in Seq(Jobs \cup Queries)
    BY DEF IInv, TypeOK
  <2>2. Holds(stdin, Head(stdin))
    BY <2>1, TailOnly
  <2>3. QED
    BY <2>2 DEF IInv, OneTurn
<1>2. QED
  BY <1>1, InitHolds, StepHolds, PTL DEF Spec

(* A worker thread has jobs of its own sandbox key only, and at most one,  *)
(* unless user code in that thread has posted a message of its own.        *)
THEOREM OneJobPerSandbox == Spec => []OneJobInSandbox
<1>1. IInv => OneJobInSandbox
  <2> SUFFICES ASSUME IInv PROVE OneJobInSandbox
    OBVIOUS
  <2> DEFINE In == worker.exec \cup Waiting
  <2>1. DOMAIN worker.inbox = 1..Len(worker.inbox) /\ worker.exec \subseteq Jobs
    BY Fields, LenProperties DEF IInv
  <2>2. \A j \in In : j \in Jobs /\ Inside(worker, j) /\ InWorker(worker, j)
    BY <2>1 DEF Inside, InWorker, Waiting, Holds, IInv, ThreadKept
  <2>3. \A j \in In : KeyOf[j] = worker.key
    BY <2>2 DEF IInv, ThreadKept
  <2>4. ASSUME Meddling PROVE In \subseteq meddled
    BY <2>2, <2>4 DEF IInv, ThreadKept
  <2>5. ASSUME ~Meddling PROVE Cardinality(In) <= 1
    <3>1. \A j, k \in In : j = k
      BY <2>2, <2>5 DEF IInv, InTurn
    <3> HIDE DEF In
    <3>2. CASE In = {}
      BY <3>2, FS_EmptySet
    <3>3. CASE In # {}
      <4>1. PICK j : In = {j}
        BY <3>1, <3>3
      <4>2. QED
        BY <4>1, FS_Singleton
    <3>4. QED
      BY <3>2, <3>3
  <2>6. QED
    BY <2>3, <2>4, <2>5 DEF OneJobInSandbox
<1>2. QED
  BY <1>1, InitHolds, StepHolds, PTL DEF Spec

(* A result on its way to the parent is for the job the parent waits for,  *)
(* and no call of it is dropped, unless user code in the thread of that    *)
(* job has posted a message of its own.                                    *)
THEOREM ResultsAreForCurrent == Spec => []ResultIsForCurrent
<1>1. IInv => ResultIsForCurrent
  <2> SUFFICES ASSUME IInv PROVE ResultIsForCurrent
    OBVIOUS
  <2>1. DOMAIN stdout = 1..Len(stdout)
    BY LenProperties DEF IInv, TypeOK
  <2>2. ASSUME NEW m \in Result, \E i \in 1..Len(stdout) : stdout[i] = m
        PROVE  current # None /\ (m = current \/ current \in meddled)
    <3>1. Holds(stdout, m)
      BY <2>1, <2>2 DEF Holds
    <3>2. QED
      BY <3>1 DEF IInv, OneTurn
  <2>3. QED
    BY <2>2 DEF ResultIsForCurrent, IInv, DropsKnown
<1>2. QED
  BY <1>1, InitHolds, StepHolds, PTL DEF Spec

(* A response reaches only the worker thread that asked.                   *)
THEOREM ResponsesMeetQueries == Spec => []ResponseMeetsItsQuery
<1>1. IInv => ResponseMeetsItsQuery
  <2> SUFFICES ASSUME IInv, NEW q \in Queries,
                      \E i \in 1..Len(worker.inbox) : worker.inbox[i] = q
               PROVE  query[q] \in Pending \cup {"settled", "cleared"}
    BY DEF ResponseMeetsItsQuery
  <2>1. DOMAIN worker.inbox = 1..Len(worker.inbox)
    BY Fields, LenProperties DEF IInv
  <2>2. Holds(worker.inbox, q)
    BY <2>1 DEF Holds
  <2>3. Known(q) /\ query[q] \in QueryState
    BY <2>2 DEF IInv, QueriesKnown, TypeOK
  <2>4. QED
    BY <2>3 DEF Known, QueryState
<1>2. QED
  BY <1>1, InitHolds, StepHolds, PTL DEF Spec

(* Code of an ended job is not resumed by a query of its running time.     *)
THEOREM QueriesEndWithJobs == Spec => QueriesEndWithTheirJob
<1>1. IInv /\ [Next]_vars =>
        [\A q \in Queries : query[q] = "asked" /\ query'[q] = "settled"
                               => JobOf[q] \in worker.exec]_vars
  BY DEF IInv, QueriesKnown
<1>2. QED
  BY <1>1, InitHolds, StepHolds, PTL DEF Spec, QueriesEndWithTheirJob
=============================================================================

--------------------------- MODULE DbWorkerPoolProofs ---------------------------
(***************************************************************************)
(* Proofs about DbWorkerPool, for every number of slots, every queue limit *)
(* and every set of queries: type correctness, the accounting of tasks,    *)
(* that nobody waits next to an idle slot, and that no query returns       *)
(* another query's rows.                                                   *)
(***************************************************************************)
EXTENDS DbWorkerPool, QueueLemmas

-----------------------------------------------------------------------------
(* The operators                                                           *)

(* findIdleSlot finds a slot whenever there is one.                        *)
LEMMA IdleIsSlot ==
  ASSUME NEW w, NEW b, IdleIn(w, b) # {}
  PROVE  /\ First(IdleIn(w, b)) \in IdleIn(w, b)
         /\ First(IdleIn(w, b)) \in Slots
<1>1. IdleIn(w, b) \subseteq Slots /\ Slots \subseteq Nat
  BY WorkerCountAssumption DEF IdleIn, Slots
<1>2. \E x \in IdleIn(w, b) : \A y \in IdleIn(w, b) : x <= y
  BY <1>1, FirstExists
<1>3. QED
  BY <1>1, <1>2 DEF First

(* TasksAccounted, but for the restart timers, of variables that need not  *)
(* be those of one state: drain comes in the middle of a handler.          *)
Accounted(cl, b, c, ts) ==
  /\ b \in [Slots -> BOOLEAN]
  /\ c \in [Slots -> Tasks \cup {None}]
  /\ ts \in [Tasks -> TaskState]
  /\ \A t \in Tasks : ts[t] = "running" <=> \E s \in Slots : c[s] = t
  /\ \A s, r \in Slots : c[s] = c[r] /\ c[s] # None => s = r
  /\ ~cl => \A s \in Slots : b[s] <=> c[s] # None

QueueAccounted(cl, q, ts) ==
  /\ q \in Seq(Tasks)
  /\ Len(q) <= MaxQueue
  /\ cl => q = <<>>
  /\ Distinct(q)
  /\ \A t \in Tasks : ts[t] = "queued" <=> Holds(q, t)

(* A slot of an open pool that waits for its restart has no task: without  *)
(* this the new thread could be given a second one.                        *)
TimersAccounted ==
  ~closing => \A s \in Slots : /\ restart[s] <=> worker[s] = "exited"
                               /\ worker[s] = "exited" => current[s] = None

(* runOnSlot: a task that was not running starts on a slot without one.    *)
LEMMA StartAccounts ==
  ASSUME NEW cl, NEW b, NEW c, NEW ts, Accounted(cl, b, c, ts),
         NEW t \in Tasks, ts[t] # "running", NEW s \in Slots, c[s] = None
  PROVE  Accounted(cl, [b EXCEPT ![s] = TRUE], [c EXCEPT ![s] = t],
                   [ts EXCEPT ![t] = "running"])
<1> DEFINE b2 == [b EXCEPT ![s] = TRUE]
           c2 == [c EXCEPT ![s] = t]
           ts2 == [ts EXCEPT ![t] = "running"]
<1>1. /\ \A k \in Tasks : ts2[k] = IF k = t THEN "running" ELSE ts[k]
      /\ \A r \in Slots : c2[r] = IF r = s THEN t ELSE c[r]
      /\ \A r \in Slots : b2[r] = IF r = s THEN TRUE ELSE b[r]
      /\ b2 \in [Slots -> BOOLEAN]
      /\ c2 \in [Slots -> Tasks \cup {None}]
      /\ ts2 \in [Tasks -> TaskState]
  BY DEF Accounted, TaskState
<1> HIDE DEF b2, c2, ts2
<1>2. t # None /\ \A r \in Slots : c[r] # t
  BY NoneAssumption DEF Accounted
<1>3. \A k \in Tasks : ts2[k] = "running" <=> \E r \in Slots : c2[r] = k
  <2>1. TAKE k \in Tasks
  <2>2. CASE k = t
    BY <1>1, <2>2
  <2>3. CASE k # t
    <3>1. \A r \in Slots : c2[r] = k <=> c[r] = k
      BY <1>1, <2>3, NoneAssumption
    <3>2. QED
      BY <1>1, <2>3, <3>1 DEF Accounted
  <2>4. QED
    BY <2>2, <2>3
<1>4. \A r, q \in Slots : c2[r] = c2[q] /\ c2[r] # None => r = q
  BY <1>1, <1>2 DEF Accounted
<1>5. ~cl => \A r \in Slots : b2[r] <=> c2[r] # None
  <2> SUFFICES ASSUME ~cl, NEW r \in Slots PROVE b2[r] <=> c2[r] # None
    OBVIOUS
  <2>1. CASE r = s
    BY <1>1, <1>2, <2>1
  <2>2. CASE r # s
    <3>1. b[r] <=> c[r] # None
      BY Zenon DEF Accounted
    <3>2. b2[r] = b[r] /\ c2[r] = c[r]
      BY <1>1, <2>2
    <3>3. QED
      BY <3>1, <3>2, Zenon
  <2>3. QED
    BY <2>1, <2>2
<1>6. Accounted(cl, b2, c2, ts2)
  BY <1>1, <1>3, <1>4, <1>5 DEF Accounted
<1>7. QED
  BY <1>6 DEF b2, c2, ts2

(* drain takes the head out of the queue and gives exactly that task to a  *)
(* slot that has none.                                                     *)
LEMMA DrainAccounts ==
  ASSUME NEW w, NEW b, NEW c, NEW ts, Drain(w, b, c, ts),
         Accounted(closing, b, c, ts), QueueAccounted(closing, queue, ts)
  PROVE  Accounted(closing, busy', current', task') /\ QueueAccounted(closing, queue', task')
<1>1. CASE ~closing /\ queue # <<>> /\ IdleIn(w, b) # {}
  <2> DEFINE h == Head(queue)
             s0 == First(IdleIn(w, b))
  <2>1. /\ queue' = Tail(queue)
        /\ busy' = [b EXCEPT ![s0] = TRUE]
        /\ current' = [c EXCEPT ![s0] = h]
        /\ task' = [ts EXCEPT ![h] = "running"]
    BY <1>1 DEF Drain
  <2>2. /\ h \in Tasks /\ Holds(queue, h)
        /\ Tail(queue) \in Seq(Tasks)
        /\ Len(Tail(queue)) = Len(queue) - 1
        /\ Distinct(Tail(queue))
        /\ \A x : Holds(Tail(queue), x) <=> Holds(queue, x) /\ x # h
    BY <1>1, TailHolds DEF QueueAccounted
  <2>3. s0 \in Slots /\ ~b[s0]
    BY <1>1, IdleIsSlot DEF IdleIn
  <2> HIDE DEF h, s0
  <2>4. ts[h] = "queued" /\ c[s0] = None
    BY <1>1, <2>2, <2>3 DEF Accounted, QueueAccounted
  <2>5. Accounted(closing, busy', current', task')
    BY <2>1, <2>2, <2>3, <2>4, StartAccounts
  <2>6. \A t \in Tasks : task'[t] = IF t = h THEN "running" ELSE ts[t]
    BY <2>1, <2>2 DEF Accounted
  <2>7. \A t \in Tasks : task'[t] = "queued" <=> Holds(queue', t)
    BY <2>1, <2>2, <2>6 DEF QueueAccounted
  <2>8. Len(queue) \in Nat /\ Len(queue') <= MaxQueue
    BY <2>1, <2>2, LenProperties, MaxQueueAssumption DEF QueueAccounted
  <2>9. QED
    BY <1>1, <2>1, <2>2, <2>5, <2>7, <2>8 DEF QueueAccounted
<1>2. CASE ~(~closing /\ queue # <<>> /\ IdleIn(w, b) # {})
  BY <1>2 DEF Drain
<1>3. QED
  BY <1>1, <1>2

(* drain gives nothing to a slot whose thread has exited.                  *)
LEMMA DrainSkipsExited ==
  ASSUME NEW w, NEW b, NEW c \in [Slots -> Tasks \cup {None}], NEW ts, Drain(w, b, c, ts),
         NEW s \in Slots, w[s] = "exited"
  PROVE  current'[s] = c[s]
<1>1. IdleIn(w, b) # {} => First(IdleIn(w, b)) # s
  BY IdleIsSlot DEF IdleIn, Alive
<1>2. QED
  BY <1>1 DEF Drain

(* The current task of slot s settles, and the slot is free.               *)
LEMMA SettleAccounts ==
  ASSUME NEW b, Accounted(closing, b, current, task), QueueAccounted(closing, queue, task),
         NEW s \in Slots, current[s] # None, NEW how \in Settled
  PROVE  /\ Accounted(closing, [b EXCEPT ![s] = FALSE], [current EXCEPT ![s] = None],
                      [task EXCEPT ![current[s]] = how])
         /\ QueueAccounted(closing, queue, [task EXCEPT ![current[s]] = how])
<1> DEFINE t0 == current[s]
           b2 == [b EXCEPT ![s] = FALSE]
           c2 == [current EXCEPT ![s] = None]
           ts2 == [task EXCEPT ![t0] = how]
<1>1. t0 \in Tasks /\ task[t0] = "running"
  BY DEF Accounted
<1>2. how # "running" /\ how # "queued" /\ how \in TaskState
  BY DEF Settled, TaskState
<1>3. /\ \A t \in Tasks : ts2[t] = IF t = t0 THEN how ELSE task[t]
      /\ \A r \in Slots : c2[r] = IF r = s THEN None ELSE current[r]
      /\ \A r \in Slots : b2[r] = IF r = s THEN FALSE ELSE b[r]
  BY <1>1 DEF Accounted
<1>4. /\ b2 \in [Slots -> BOOLEAN]
      /\ c2 \in [Slots -> Tasks \cup {None}]
      /\ ts2 \in [Tasks -> TaskState]
  BY <1>1, <1>2 DEF Accounted
<1> HIDE DEF b2, c2, ts2
<1>5. \A t \in Tasks : ts2[t] = "running" <=> \E r \in Slots : c2[r] = t
  <2>1. TAKE t \in Tasks
  <2>2. t # None
    BY NoneAssumption
  <2>3. CASE t = t0
    <3>1. \A r \in Slots : current[r] = t => r = s
      BY <2>2, <2>3 DEF Accounted
    <3>2. QED
      BY <1>2, <1>3, <2>2, <2>3, <3>1
  <2>4. CASE t # t0
    <3>1. \A r \in Slots : c2[r] = t <=> current[r] = t
      BY <1>3, <2>2, <2>4
    <3>2. QED
      BY <1>3, <2>4, <3>1 DEF Accounted
  <2>5. QED
    BY <2>3, <2>4
<1>6. \A r, q \in Slots : c2[r] = c2[q] /\ c2[r] # None => r = q
  BY <1>3 DEF Accounted
<1>7. ~closing => \A r \in Slots : b2[r] <=> c2[r] # None
  <2> SUFFICES ASSUME ~closing, NEW r \in Slots PROVE b2[r] <=> c2[r] # None
    OBVIOUS
  <2>1. CASE r = s
    BY <1>3, <2>1
  <2>2. CASE r # s
    <3>1. b[r] <=> current[r] # None
      BY Zenon DEF Accounted
    <3>2. b2[r] = b[r] /\ c2[r] = current[r]
      BY <1>3, <2>2
    <3>3. QED
      BY <3>1, <3>2, Zenon
  <2>3. QED
    BY <2>1, <2>2
<1>8. Accounted(closing, b2, c2, ts2)
  BY <1>4, <1>5, <1>6, <1>7 DEF Accounted
<1>9. QueueAccounted(closing, queue, ts2)
  BY <1>1, <1>2, <1>3 DEF QueueAccounted
<1>10. QED
  BY <1>8, <1>9 DEF b2, c2, ts2

(* failCurrent                                                             *)
LEMMA FailCurrentAccounts ==
  ASSUME NEW w, NEW b, Accounted(closing, b, current, task), QueueAccounted(closing, queue, task),
         NEW s \in Slots, NEW how \in Settled, FailCurrent(s, w, b, how)
  PROVE  Accounted(closing, busy', current', task') /\ QueueAccounted(closing, queue', task')
<1>1. CASE current[s] = None
  BY <1>1 DEF FailCurrent
<1>2. CASE current[s] # None
  <2> DEFINE b2 == [b EXCEPT ![s] = FALSE]
             c2 == [current EXCEPT ![s] = None]
             ts2 == [task EXCEPT ![current[s]] = how]
  <2>1. Drain(w, b2, c2, ts2)
    BY <1>2 DEF FailCurrent
  <2>2. Accounted(closing, b2, c2, ts2) /\ QueueAccounted(closing, queue, ts2)
    BY <1>2, SettleAccounts
  <2> HIDE DEF b2, c2, ts2
  <2>3. QED
    BY <2>1, <2>2, DrainAccounts
<1>3. QED
  BY <1>1, <1>2

LEMMA FailCurrentSkipsExited ==
  ASSUME current \in [Slots -> Tasks \cup {None}], NEW s \in Slots, NEW w, NEW b, NEW how,
         FailCurrent(s, w, b, how), NEW r \in Slots, w[r] = "exited"
  PROVE  current'[r] = IF r = s THEN None ELSE current[r]
<1>1. CASE current[s] = None
  BY <1>1 DEF FailCurrent
<1>2. CASE current[s] # None
  <2> DEFINE c2 == [current EXCEPT ![s] = None]
  <2>1. Drain(w, [b EXCEPT ![s] = FALSE], c2, [task EXCEPT ![current[s]] = how])
    BY <1>2 DEF FailCurrent
  <2>2. c2 \in [Slots -> Tasks \cup {None}] /\ c2[r] = IF r = s THEN None ELSE current[r]
    OBVIOUS
  <2> HIDE DEF c2
  <2>3. QED
    BY <2>1, <2>2, DrainSkipsExited
<1>3. QED
  BY <1>1, <1>2

-----------------------------------------------------------------------------
(* Types and accounting                                                    *)

(* The variables that no task's promise depends on.                        *)
ThreadTypes ==
  /\ worker \in [Slots -> WorkerState]
  /\ restart \in [Slots -> BOOLEAN]
  /\ sent \in [Slots -> SUBSET Tasks]
  /\ closing \in BOOLEAN
  /\ answer \in [Tasks -> Tasks \cup {None}]

IInv ==
  /\ ThreadTypes
  /\ Accounted(closing, busy, current, task)
  /\ QueueAccounted(closing, queue, task)
  /\ TimersAccounted

LEMMA IInvImplies == IInv => TypeOK /\ TasksAccounted
BY DEF IInv, TypeOK, TasksAccounted, ThreadTypes, Accounted, QueueAccounted, TimersAccounted,
       Distinct, Holds

(* drain posts only tasks.                                                 *)
LEMMA PostedType ==
  ASSUME NEW base \in [Slots -> SUBSET Tasks], Posted(base),
         current' \in [Slots -> Tasks \cup {None}]
  PROVE  sent' \in [Slots -> SUBSET Tasks]
BY DEF Posted

LEMMA InitHolds == Init => IInv
<1> SUFFICES ASSUME Init PROVE IInv
  OBVIOUS
<1>1. queue = <<>> /\ DOMAIN queue = {} /\ Len(queue) = 0 /\ queue \in Seq(Tasks)
  BY DEF Init
<1>2. QueueAccounted(closing, queue, task)
  BY <1>1, MaxQueueAssumption DEF QueueAccounted, Distinct, Holds, Init
<1>3. Accounted(closing, busy, current, task)
  BY NoneAssumption DEF Accounted, Init, TaskState
<1>4. ThreadTypes /\ TimersAccounted
  BY DEF Init, ThreadTypes, TimersAccounted, WorkerState
<1>5. QED
  BY <1>2, <1>3, <1>4 DEF IInv

(* A query that is refused, at once or by its queue timer or close().      *)
LEMMA QueryStepHolds ==
  ASSUME IInv, NEW t \in Tasks, QueryStep(t)
  PROVE  IInv'
<1> USE DEF IInv
<1>1. CASE QueryRejected(t) \/ QueryFull(t)
  <2>1. \E e \in {"closing", "full"} : task' = [task EXCEPT ![t] = e]
    BY <1>1 DEF QueryRejected, QueryFull
  <2>2. /\ task[t] = "new"
        /\ UNCHANGED <<worker, busy, current, restart, sent, queue, closing, answer>>
    BY <1>1 DEF QueryRejected, QueryFull, svars
  <2>3. \A k \in Tasks : /\ task'[k] = "running" <=> task[k] = "running"
                         /\ task'[k] = "queued" <=> task[k] = "queued"
    BY <2>1, <2>2 DEF Accounted
  <2>4. Accounted(closing, busy', current', task')
    BY <2>1, <2>2, <2>3 DEF Accounted, TaskState, Settled
  <2>5. QueueAccounted(closing, queue', task')
    BY <2>2, <2>3 DEF QueueAccounted
  <2>6. QED
    BY <2>2, <2>4, <2>5 DEF ThreadTypes, TimersAccounted, Accounted, QueueAccounted
<1>2. CASE QueryRun(t)
  <2> DEFINE s0 == First(IdleIn(worker, busy))
  <2>1. s0 \in Slots /\ ~busy[s0]
    BY <1>2, IdleIsSlot DEF QueryRun, IdleIn
  <2>2. /\ task[t] = "new" /\ ~closing
        /\ busy' = [busy EXCEPT ![s0] = TRUE]
        /\ current' = [current EXCEPT ![s0] = t]
        /\ task' = [task EXCEPT ![t] = "running"]
        /\ Posted(sent)
        /\ UNCHANGED <<worker, restart, queue, closing, answer>>
    BY <1>2 DEF QueryRun
  <2> HIDE DEF s0
  <2>3. current[s0] = None
    BY <2>1, <2>2 DEF Accounted
  <2>4. Accounted(closing, busy', current', task')
    BY <2>1, <2>2, <2>3, StartAccounts
  <2>5. QueueAccounted(closing, queue', task')
    BY <2>2 DEF QueueAccounted, Accounted
  <2>6. sent' \in [Slots -> SUBSET Tasks]
    BY <2>2, <2>4, PostedType DEF ThreadTypes, Accounted
  <2>7. QED
    <3>1. s0 \in Slots /\ worker[s0] # "exited"
      BY <1>2, IdleIsSlot DEF QueryRun, IdleIn, Alive, s0
    <3>2. TimersAccounted'
      BY <2>2, <3>1 DEF TimersAccounted, Accounted
    <3>3. QED
      BY <2>2, <2>4, <2>5, <2>6, <3>2 DEF ThreadTypes
<1>3. CASE QueryQueued(t)
  <2>1. /\ task[t] = "new" /\ ~closing /\ Len(queue) < MaxQueue
        /\ queue' = Append(queue, t)
        /\ task' = [task EXCEPT ![t] = "queued"]
        /\ UNCHANGED <<worker, busy, current, restart, sent, closing, answer>>
    BY <1>3 DEF QueryQueued, svars
  <2>2. ~Holds(queue, t)
    BY <2>1 DEF QueueAccounted
  <2>3. /\ queue' \in Seq(Tasks) /\ Len(queue') = Len(queue) + 1 /\ Distinct(queue')
        /\ \A x : Holds(queue', x) <=> Holds(queue, x) \/ x = t
    BY <2>1, <2>2, AppendHolds DEF QueueAccounted
  <2>4. \A k \in Tasks : task'[k] = IF k = t THEN "queued" ELSE task[k]
    BY <2>1 DEF Accounted
  <2>5. task' \in [Tasks -> TaskState]
    BY <2>1 DEF Accounted, TaskState
  <2>6. Accounted(closing, busy', current', task')
    BY <2>1, <2>4, <2>5 DEF Accounted
  <2>7. Len(queue) \in Nat /\ Len(queue') <= MaxQueue
    BY <2>1, <2>3, LenProperties, MaxQueueAssumption DEF QueueAccounted
  <2>8. QueueAccounted(closing, queue', task')
    BY <2>1, <2>3, <2>4, <2>7 DEF QueueAccounted
  <2>9. QED
    BY <2>1, <2>6, <2>8 DEF ThreadTypes, TimersAccounted
<1>4. CASE QueueTimeout(t)
  <2>1. /\ task[t] = "queued"
        /\ task' = [task EXCEPT ![t] = "queueTimeout"]
        /\ UNCHANGED <<worker, busy, current, restart, sent, closing, answer>>
    BY <1>4 DEF QueueTimeout, svars
  <2>2. PICK i \in DOMAIN queue : queue[i] = t /\ queue' = Cut(queue, i)
    BY <1>4 DEF QueueTimeout, Without, Cut
  <2>3. /\ queue' \in Seq(Tasks) /\ Len(queue') = Len(queue) - 1 /\ Distinct(queue')
        /\ \A x : Holds(queue', x) <=> Holds(queue, x) /\ x # t
    BY <2>2, CutHolds DEF QueueAccounted
  <2>4. \A k \in Tasks : task'[k] = IF k = t THEN "queueTimeout" ELSE task[k]
    BY <2>1 DEF Accounted
  <2>5. task' \in [Tasks -> TaskState]
    BY <2>1 DEF Accounted, TaskState, Settled
  <2>6. Accounted(closing, busy', current', task')
    BY <2>1, <2>4, <2>5 DEF Accounted
  <2>7. ~closing /\ Len(queue) \in Nat /\ Len(queue') <= MaxQueue
    BY <2>2, <2>3, LenProperties, MaxQueueAssumption DEF QueueAccounted
  <2>8. QueueAccounted(closing, queue', task')
    BY <2>1, <2>3, <2>4, <2>7 DEF QueueAccounted
  <2>9. QED
    BY <2>1, <2>6, <2>8 DEF ThreadTypes, TimersAccounted
<1>5. QED
  BY <1>1, <1>2, <1>3, <1>4 DEF QueryStep

(* The events of a slot                                                    *)
LEMMA RespondHolds ==
  ASSUME IInv, NEW s \in Slots, NEW t \in Tasks, Respond(s, t)
  PROVE  IInv'
<1> DEFINE base == [sent EXCEPT ![s] = @ \ {t}]
<1>1. UNCHANGED <<worker, restart, closing>> /\ Posted(base)
  BY DEF Respond
<1>2. base \in [Slots -> SUBSET Tasks]
  BY DEF IInv, ThreadTypes
<1> HIDE DEF base
<1>3. CASE current[s] # t
  <2>1. UNCHANGED <<busy, current, queue, task, answer>>
    BY <1>3 DEF Respond
  <2>2. sent' \in [Slots -> SUBSET Tasks]
    BY <1>1, <1>2, <2>1, PostedType DEF IInv, Accounted
  <2>3. QED
    BY <1>1, <2>1, <2>2 DEF IInv, ThreadTypes, TimersAccounted, Accounted, QueueAccounted
<1>4. CASE current[s] = t
  <2> DEFINE b2 == [busy EXCEPT ![s] = FALSE]
             c2 == [current EXCEPT ![s] = None]
             ts2 == [task EXCEPT ![current[s]] = "answered"]
  <2>1. answer' = [answer EXCEPT ![t] = t] /\ Drain(worker, b2, c2, ts2)
    BY <1>4 DEF Respond
  <2>2. Accounted(closing, b2, c2, ts2) /\ QueueAccounted(closing, queue, ts2)
    BY <1>4, SettleAccounts, NoneAssumption DEF Settled, IInv
  <2>3. \A r \in Slots : worker[r] = "exited" /\ current[r] = None => c2[r] = None
    BY DEF IInv, Accounted
  <2> HIDE DEF b2, c2, ts2
  <2>4. Accounted(closing, busy', current', task') /\ QueueAccounted(closing, queue', task')
    BY <2>1, <2>2, DrainAccounts
  <2>5. sent' \in [Slots -> SUBSET Tasks]
    BY <1>1, <1>2, <2>4, PostedType DEF Accounted
  <2>6. \A r \in Slots : worker[r] = "exited" => current'[r] = c2[r]
    BY <2>1, <2>2, DrainSkipsExited DEF Accounted
  <2>7. TimersAccounted'
    BY <1>1, <2>3, <2>6 DEF IInv, TimersAccounted
  <2>8. QED
    BY <1>1, <2>1, <2>4, <2>5, <2>7 DEF IInv, ThreadTypes
<1>5. QED
  BY <1>3, <1>4

LEMMA RunTimeoutHolds ==
  ASSUME IInv, NEW s \in Slots, RunTimeout(s)
  PROVE  IInv'
<1>1. /\ FailCurrent(s, worker, busy, "timeout") /\ Posted(sent)
      /\ worker' = [worker EXCEPT ![s] = IF @ = "up" THEN "terminating" ELSE @]
      /\ UNCHANGED <<restart, closing, answer>>
  BY DEF RunTimeout
<1>2. Accounted(closing, busy', current', task') /\ QueueAccounted(closing, queue', task')
  BY <1>1, FailCurrentAccounts DEF Settled, IInv
<1>3. sent' \in [Slots -> SUBSET Tasks]
  BY <1>1, <1>2, PostedType DEF IInv, ThreadTypes, Accounted
<1>4. /\ worker' \in [Slots -> WorkerState]
      /\ \A r \in Slots : worker'[r] = "exited" <=> worker[r] = "exited"
  BY <1>1 DEF IInv, ThreadTypes, WorkerState
<1>5. \A r \in Slots : worker[r] = "exited" => current'[r] \in {current[r], None}
  BY <1>1, FailCurrentSkipsExited DEF IInv, Accounted
<1>6. TimersAccounted'
  BY <1>1, <1>4, <1>5 DEF IInv, TimersAccounted
<1>7. QED
  BY <1>1, <1>2, <1>3, <1>4, <1>6 DEF IInv, ThreadTypes

LEMMA ExitHolds ==
  ASSUME IInv, NEW s \in Slots, Exit(s)
  PROVE  IInv'
<1> DEFINE w == [worker EXCEPT ![s] = "exited"]
           b == [busy EXCEPT ![s] = FALSE]
<1>1. /\ worker' = w
      /\ sent' = [sent EXCEPT ![s] = {}]
      /\ restart' = [restart EXCEPT ![s] = ~closing]
      /\ UNCHANGED <<closing, answer>>
      /\ IF closing THEN busy' = b /\ UNCHANGED <<current, queue, task>>
                    ELSE FailCurrent(s, w, b, "exited")
  BY DEF Exit
<1>2. w \in [Slots -> WorkerState] /\ \A r \in Slots : w[r] = IF r = s THEN "exited" ELSE worker[r]
  BY DEF IInv, ThreadTypes, WorkerState
<1>3. b \in [Slots -> BOOLEAN] /\ \A r \in Slots : b[r] = IF r = s THEN FALSE ELSE busy[r]
  BY DEF IInv, Accounted
<1>4. closing => Accounted(closing, b, current, task)
  BY <1>3 DEF IInv, Accounted
<1>5. ~closing /\ current[s] = None => b = busy
  BY DEF IInv, Accounted
<1>6. ~closing /\ current[s] # None => FailCurrent(s, w, busy, "exited")
  <2>1. [b EXCEPT ![s] = FALSE] = [busy EXCEPT ![s] = FALSE]
    BY DEF IInv, Accounted
  <2>2. QED
    BY <1>1, <2>1 DEF FailCurrent
<1> HIDE DEF w, b
<1>7. Accounted(closing, busy', current', task') /\ QueueAccounted(closing, queue', task')
  <2>1. CASE closing
    BY <1>1, <1>4, <2>1 DEF IInv
  <2>2. CASE ~closing /\ current[s] = None
    <3>1. busy' = busy /\ UNCHANGED <<current, queue, task>>
      BY <1>1, <1>5, <2>2 DEF FailCurrent
    <3>2. QED
      BY <3>1 DEF IInv
  <2>3. CASE ~closing /\ current[s] # None
    BY <1>6, <2>3, FailCurrentAccounts DEF Settled, IInv
  <2>4. QED
    BY <2>1, <2>2, <2>3
<1>8. TimersAccounted'
  <2> SUFFICES ASSUME ~closing, NEW r \in Slots
               PROVE  /\ restart'[r] <=> worker'[r] = "exited"
                      /\ worker'[r] = "exited" => current'[r] = None
    BY <1>1 DEF TimersAccounted
  <2>1. w[r] = "exited" => current'[r] = IF r = s THEN None ELSE current[r]
    BY <1>1, FailCurrentSkipsExited DEF IInv, Accounted
  <2>2. CASE r = s
    BY <1>1, <1>2, <2>1, <2>2 DEF IInv, ThreadTypes
  <2>3. CASE r # s
    BY <1>1, <1>2, <2>1, <2>3 DEF IInv, ThreadTypes, TimersAccounted
  <2>4. QED
    BY <2>2, <2>3
<1>9. QED
  BY <1>1, <1>2, <1>7, <1>8 DEF IInv, ThreadTypes

LEMMA RestartHolds ==
  ASSUME IInv, NEW s \in Slots, Restart(s)
  PROVE  IInv'
<1> DEFINE w == [worker EXCEPT ![s] = "up"]
           b == [busy EXCEPT ![s] = FALSE]
<1>1. /\ restart[s] /\ ~closing
      /\ restart' = [restart EXCEPT ![s] = FALSE]
      /\ worker' = w
      /\ Drain(w, b, current, task)
      /\ Posted(sent)
      /\ UNCHANGED <<closing, answer>>
  BY DEF Restart
<1>2. w \in [Slots -> WorkerState] /\ \A r \in Slots : w[r] = IF r = s THEN "up" ELSE worker[r]
  BY DEF IInv, ThreadTypes, WorkerState
<1>3. current[s] = None /\ busy[s] = FALSE
  BY <1>1 DEF IInv, TimersAccounted, Accounted
<1>4. b = busy
  BY <1>3 DEF IInv, Accounted
<1> HIDE DEF w, b
<1>5. Accounted(closing, busy', current', task') /\ QueueAccounted(closing, queue', task')
  BY <1>1, <1>4, DrainAccounts DEF IInv
<1>6. sent' \in [Slots -> SUBSET Tasks]
  BY <1>1, <1>5, PostedType DEF IInv, ThreadTypes, Accounted
<1>7. \A r \in Slots : w[r] = "exited" => current'[r] = current[r]
  BY <1>1, DrainSkipsExited DEF IInv, Accounted
<1>8. TimersAccounted'
  <2> SUFFICES ASSUME NEW r \in Slots
               PROVE  /\ restart'[r] <=> worker'[r] = "exited"
                      /\ worker'[r] = "exited" => current'[r] = None
    BY DEF TimersAccounted
  <2>1. CASE r = s
    BY <1>1, <1>2, <2>1 DEF IInv, ThreadTypes
  <2>2. CASE r # s
    BY <1>1, <1>2, <1>7, <2>2 DEF IInv, ThreadTypes, TimersAccounted
  <2>3. QED
    BY <2>1, <2>2
<1>9. QED
  BY <1>1, <1>2, <1>5, <1>6, <1>8 DEF IInv, ThreadTypes

LEMMA CloseHolds ==
  ASSUME IInv, Close
  PROVE  IInv'
<1>1. /\ ~closing /\ closing' = TRUE /\ queue' = <<>> /\ DOMAIN queue' = {}
      /\ queue' \in Seq(Tasks) /\ Len(queue') = 0
      /\ UNCHANGED <<busy, current, sent, answer>>
  BY DEF Close
<1>2. \A t \in Tasks : task'[t] = IF task[t] = "queued" THEN "closing" ELSE task[t]
  BY DEF Close
<1>3. task' \in [Tasks -> TaskState]
  BY DEF Close, IInv, Accounted, TaskState, Settled
<1>4. restart' \in [Slots -> BOOLEAN] /\ worker' \in [Slots -> WorkerState]
  BY DEF Close, IInv, ThreadTypes, WorkerState
<1>5. Accounted(closing', busy', current', task')
  BY <1>1, <1>2, <1>3 DEF IInv, Accounted
<1>6. QueueAccounted(closing', queue', task')
  BY <1>1, <1>2, MaxQueueAssumption DEF QueueAccounted, Distinct, Holds
<1>7. QED
  BY <1>1, <1>4, <1>5, <1>6 DEF IInv, ThreadTypes, TimersAccounted

LEMMA StepHolds == IInv /\ [Next]_vars => IInv'
<1> SUFFICES ASSUME IInv, [Next]_vars PROVE IInv'
  OBVIOUS
<1>1. CASE UNCHANGED vars
  BY <1>1 DEF vars, IInv, ThreadTypes, TimersAccounted, Accounted, QueueAccounted
<1>2. QED
  BY <1>1, QueryStepHolds, RespondHolds, RunTimeoutHolds, ExitHolds, RestartHolds, CloseHolds
     DEF Next, SlotStep

(* Every variable keeps its type, for any number of slots and queries.     *)
THEOREM TypeCorrect == Spec => []TypeOK
BY InitHolds, StepHolds, IInvImplies, PTL DEF Spec

(* No task and no slot is lost or used twice, and the queue keeps its      *)
(* limit, although drain runs in the middle of four other handlers.        *)
THEOREM TasksAlwaysAccounted == Spec => []TasksAccounted
BY InitHolds, StepHolds, IInvImplies, PTL DEF Spec
-----------------------------------------------------------------------------
(* Nobody waits next to an idle slot                                       *)

(* One round of drain is enough when the handler freed one slot at most.   *)
LEMMA DrainConserves ==
  ASSUME NEW w, NEW b \in [Slots -> BOOLEAN], NEW c, NEW ts, NEW s, Drain(w, b, c, ts),
         ~closing /\ queue # <<>> => IdleIn(w, b) \subseteq {s}
  PROVE  ~closing /\ queue' # <<>> => IdleIn(w, busy') = {}
<1> SUFFICES ASSUME ~closing, queue' # <<>> PROVE IdleIn(w, busy') = {}
  OBVIOUS
<1>1. CASE queue # <<>> /\ IdleIn(w, b) # {}
  <2>1. First(IdleIn(w, b)) = s /\ s \in Slots
    BY <1>1, IdleIsSlot
  <2>2. busy' = [b EXCEPT ![s] = TRUE]
    BY <1>1, <2>1 DEF Drain
  <2>3. \A r \in Slots : Alive(w[r]) /\ ~b[r] => r = s
    BY <1>1 DEF IdleIn
  <2>4. busy'[s] = TRUE /\ \A r \in Slots : r # s => busy'[r] = b[r]
    BY <2>1, <2>2
  <2>5. \A r \in Slots : ~(Alive(w[r]) /\ ~busy'[r])
    BY <2>3, <2>4
  <2>6. QED
    BY <2>5 DEF IdleIn
<1>2. CASE queue = <<>>
  BY <1>2 DEF Drain
<1>3. CASE queue # <<>> /\ IdleIn(w, b) = {}
  BY <1>3 DEF Drain
<1>4. QED
  BY <1>1, <1>2, <1>3

(* The slot s becomes idle, and no other.                                  *)
LEMMA FreedIsIdle ==
  ASSUME NEW w, NEW b \in [Slots -> BOOLEAN], NEW s, IdleIn(w, b) = {}
  PROVE  IdleIn(w, [b EXCEPT ![s] = FALSE]) \subseteq {s}
<1>1. \A r \in Slots : r # s => [b EXCEPT ![s] = FALSE][r] = b[r]
  OBVIOUS
<1>2. QED
  BY <1>1 DEF IdleIn

LEMMA FailCurrentConserves ==
  ASSUME NEW w, NEW b \in [Slots -> BOOLEAN], NEW s \in Slots, NEW how,
         FailCurrent(s, w, b, how),
         ~closing /\ queue # <<>> => IdleIn(w, b) = {}
  PROVE  ~closing /\ queue' # <<>> => IdleIn(w, busy') = {}
<1>1. CASE current[s] = None
  BY <1>1 DEF FailCurrent
<1>2. CASE current[s] # None
  <2> DEFINE b2 == [b EXCEPT ![s] = FALSE]
             c2 == [current EXCEPT ![s] = None]
             ts2 == [task EXCEPT ![current[s]] = how]
  <2>1. Drain(w, b2, c2, ts2)
    BY <1>2 DEF FailCurrent
  <2>2. b2 \in [Slots -> BOOLEAN]
    OBVIOUS
  <2>3. ~closing /\ queue # <<>> => IdleIn(w, b2) \subseteq {s}
    BY FreedIsIdle
  <2> HIDE DEF b2, c2, ts2
  <2>4. QED
    BY <2>1, <2>2, <2>3, DrainConserves
<1>3. QED
  BY <1>1, <1>2

LEMMA WorkConservingStep ==
  ASSUME IInv, WorkConserving, Next
  PROVE  WorkConserving'
<1>0. busy \in [Slots -> BOOLEAN] /\ worker \in [Slots -> WorkerState]
  BY DEF IInv, Accounted, ThreadTypes
<1>1. ASSUME NEW t \in Tasks, QueryStep(t) PROVE WorkConserving'
  <2>1. CASE QueryRejected(t) \/ QueryFull(t)
    BY <2>1 DEF QueryRejected, QueryFull, svars, WorkConserving
  <2>2. CASE QueryRun(t)
    BY <2>2 DEF QueryRun, WorkConserving
  <2>3. CASE QueryQueued(t)
    BY <2>3 DEF QueryQueued, svars, WorkConserving
  <2>4. CASE QueueTimeout(t)
    <3>1. PICK i \in DOMAIN queue : queue[i] = t
      BY <2>4 DEF QueueTimeout
    <3>2. queue # <<>>
      BY <3>1
    <3>3. UNCHANGED <<worker, busy, closing>>
      BY <2>4 DEF QueueTimeout, svars
    <3>4. QED
      BY <3>2, <3>3 DEF WorkConserving
  <2>5. QED
    BY <1>1, <2>1, <2>2, <2>3, <2>4 DEF QueryStep
<1>2. ASSUME NEW s \in Slots, NEW t \in Tasks, Respond(s, t) PROVE WorkConserving'
  <2>1. UNCHANGED <<worker, closing>>
    BY <1>2 DEF Respond
  <2>2. CASE current[s] # t
    BY <1>2, <2>1, <2>2 DEF Respond, WorkConserving
  <2>3. CASE current[s] = t
    <3> DEFINE b2 == [busy EXCEPT ![s] = FALSE]
               c2 == [current EXCEPT ![s] = None]
               ts2 == [task EXCEPT ![t] = "answered"]
    <3>1. Drain(worker, b2, c2, ts2)
      BY <1>2, <2>3 DEF Respond
    <3>2. b2 \in [Slots -> BOOLEAN]
      BY <1>0
    <3>3. ~closing /\ queue # <<>> => IdleIn(worker, b2) \subseteq {s}
      BY <1>0, FreedIsIdle DEF WorkConserving
    <3> HIDE DEF b2, c2, ts2
    <3>4. QED
      BY <2>1, <3>1, <3>2, <3>3, DrainConserves DEF WorkConserving
  <2>4. QED
    BY <2>2, <2>3
<1>3. ASSUME NEW s \in Slots, RunTimeout(s) PROVE WorkConserving'
  <2>1. /\ FailCurrent(s, worker, busy, "timeout")
        /\ worker' = [worker EXCEPT ![s] = IF @ = "up" THEN "terminating" ELSE @]
        /\ UNCHANGED closing
    BY <1>3 DEF RunTimeout
  <2>2. ~closing /\ queue' # <<>> => IdleIn(worker, busy') = {}
    BY <1>0, <2>1, FailCurrentConserves DEF WorkConserving
  <2>3. \A r \in Slots : Alive(worker'[r]) => Alive(worker[r])
    BY <1>0, <2>1 DEF Alive
  <2>4. IdleIn(worker', busy') \subseteq IdleIn(worker, busy')
    BY <2>3 DEF IdleIn
  <2>5. QED
    BY <2>1, <2>2, <2>4 DEF WorkConserving
<1>4. ASSUME NEW s \in Slots, Exit(s) PROVE WorkConserving'
  <2> DEFINE w == [worker EXCEPT ![s] = "exited"]
             b == [busy EXCEPT ![s] = FALSE]
  <2>1. /\ worker' = w /\ UNCHANGED closing
        /\ ~closing => FailCurrent(s, w, b, "exited")
    BY <1>4 DEF Exit
  <2>2. b \in [Slots -> BOOLEAN]
    BY <1>0
  <2>3. \A r \in Slots : Alive(w[r]) /\ ~b[r] => Alive(worker[r]) /\ ~busy[r]
    BY <1>0 DEF Alive
  <2> HIDE DEF w, b
  <2>4. IdleIn(w, b) \subseteq IdleIn(worker, busy)
    BY <2>3 DEF IdleIn
  <2>5. ~closing /\ queue' # <<>> => IdleIn(w, busy') = {}
    BY <2>1, <2>2, <2>4, FailCurrentConserves DEF WorkConserving
  <2>6. QED
    BY <2>1, <2>5 DEF WorkConserving
<1>5. ASSUME NEW s \in Slots, Restart(s) PROVE WorkConserving'
  <2> DEFINE w == [worker EXCEPT ![s] = "up"]
             b == [busy EXCEPT ![s] = FALSE]
  <2>1. worker' = w /\ UNCHANGED closing /\ Drain(w, b, current, task)
    BY <1>5 DEF Restart
  <2>2. b \in [Slots -> BOOLEAN]
    BY <1>0
  <2>3. \A r \in Slots : r # s => w[r] = worker[r] /\ b[r] = busy[r]
    BY <1>0
  <2> HIDE DEF w, b
  <2>4. ~closing /\ queue # <<>> => IdleIn(w, b) \subseteq {s}
    BY <2>3 DEF IdleIn, WorkConserving
  <2>5. QED
    BY <2>1, <2>2, <2>4, DrainConserves DEF WorkConserving
<1>6. CASE Close
  BY <1>6 DEF Close, WorkConserving
<1>7. QED
  BY <1>1, <1>2, <1>3, <1>4, <1>5, <1>6 DEF Next, SlotStep

(* A waiting task and an idle slot never meet in an open pool, although a  *)
(* slot becomes idle in four handlers and each drains one task only.       *)
THEOREM AlwaysWorkConserving == Spec => []WorkConserving
<1>1. Init => WorkConserving
  BY DEF Init, WorkConserving
<1>2. IInv /\ WorkConserving /\ [Next]_vars => WorkConserving'
  <2> SUFFICES ASSUME IInv, WorkConserving, [Next]_vars PROVE WorkConserving'
    OBVIOUS
  <2>1. CASE UNCHANGED vars
    BY <2>1 DEF vars, WorkConserving
  <2>2. QED
    BY <2>1, WorkConservingStep
<1>3. QED
  BY <1>1, <1>2, InitHolds, StepHolds, PTL DEF Spec

-----------------------------------------------------------------------------
(* The rows of a query are its own                                         *)

(* drain and failCurrent answer nobody.                                    *)
LEMMA DrainAnswersNobody ==
  ASSUME NEW w, NEW b, NEW c, NEW ts \in [Tasks -> TaskState], Drain(w, b, c, ts),
         NEW k \in Tasks, task'[k] = "answered"
  PROVE  ts[k] = "answered"
BY DEF Drain

LEMMA FailCurrentAnswersNobody ==
  ASSUME IInv, NEW w, NEW b, NEW s \in Slots, NEW how \in {"timeout", "exited"},
         FailCurrent(s, w, b, how), NEW k \in Tasks, task'[k] = "answered"
  PROVE  task[k] = "answered"
<1> DEFINE ts2 == [task EXCEPT ![current[s]] = how]
<1>1. CASE current[s] = None
  BY <1>1 DEF FailCurrent
<1>2. CASE current[s] # None
  <2>1. Drain(w, [b EXCEPT ![s] = FALSE], [current EXCEPT ![s] = None], ts2)
    BY <1>2 DEF FailCurrent
  <2>2. ts2 \in [Tasks -> TaskState] /\ ts2[k] \in {how, task[k]}
    BY DEF IInv, Accounted, TaskState, Settled
  <2> HIDE DEF ts2
  <2>3. ts2[k] = "answered"
    BY <2>1, <2>2, DrainAnswersNobody
  <2>4. QED
    BY <2>2, <2>3
<1>3. QED
  BY <1>1, <1>2

LEMMA AnswerIsOwnStep ==
  ASSUME IInv, AnswerIsOwn, Next
  PROVE  AnswerIsOwn'
<1>0. task \in [Tasks -> TaskState] /\ answer \in [Tasks -> Tasks \cup {None}]
  BY DEF IInv, Accounted, ThreadTypes
<1>1. ASSUME NEW t \in Tasks, QueryStep(t) PROVE AnswerIsOwn'
  <2>1. answer' = answer
    BY <1>1 DEF QueryStep, QueryRejected, QueryFull, QueryRun, QueryQueued, QueueTimeout
  <2>2. \E e \in {"closing", "full", "running", "queued", "queueTimeout"} :
          task' = [task EXCEPT ![t] = e]
    BY <1>1 DEF QueryStep, QueryRejected, QueryFull, QueryRun, QueryQueued, QueueTimeout
  <2>3. \A k \in Tasks : task'[k] = "answered" => task[k] = "answered"
    BY <1>0, <2>2
  <2>4. QED
    BY <2>1, <2>3 DEF AnswerIsOwn
<1>2. ASSUME NEW s \in Slots, NEW t \in Tasks, Respond(s, t) PROVE AnswerIsOwn'
  <2>1. CASE current[s] # t
    BY <1>2, <2>1 DEF Respond, AnswerIsOwn
  <2>2. CASE current[s] = t
    <3> DEFINE ts2 == [task EXCEPT ![t] = "answered"]
    <3>1. /\ answer' = [answer EXCEPT ![t] = t]
          /\ Drain(worker, [busy EXCEPT ![s] = FALSE], [current EXCEPT ![s] = None], ts2)
      BY <1>2, <2>2 DEF Respond
    <3>2. ts2 \in [Tasks -> TaskState] /\ \A k \in Tasks : k # t => ts2[k] = task[k]
      BY <1>0 DEF TaskState, Settled
    <3> HIDE DEF ts2
    <3>3. \A k \in Tasks : task'[k] = "answered" /\ k # t => task[k] = "answered"
      BY <3>1, <3>2, DrainAnswersNobody
    <3>4. answer'[t] = t /\ \A k \in Tasks : k # t => answer'[k] = answer[k]
      BY <1>0, <3>1
    <3>5. QED
      BY <3>3, <3>4 DEF AnswerIsOwn
  <2>3. QED
    BY <2>1, <2>2
<1>3. ASSUME NEW s \in Slots, RunTimeout(s) PROVE AnswerIsOwn'
  BY <1>3, FailCurrentAnswersNobody DEF RunTimeout, AnswerIsOwn
<1>4. ASSUME NEW s \in Slots, Exit(s) PROVE AnswerIsOwn'
  <2>1. \A k \in Tasks : task'[k] = "answered" => task[k] = "answered"
    BY <1>4, FailCurrentAnswersNobody DEF Exit
  <2>2. QED
    BY <1>4, <2>1 DEF Exit, AnswerIsOwn
<1>5. ASSUME NEW s \in Slots, Restart(s) PROVE AnswerIsOwn'
  BY <1>0, <1>5, DrainAnswersNobody DEF Restart, AnswerIsOwn
<1>6. CASE Close
  <2>1. \A k \in Tasks : task'[k] = "answered" => task[k] = "answered"
    BY <1>6 DEF Close
  <2>2. QED
    BY <1>6, <2>1 DEF Close, AnswerIsOwn
<1>7. QED
  BY <1>1, <1>2, <1>3, <1>4, <1>5, <1>6 DEF Next, SlotStep

(* No query returns the rows of another one, although a slot that is       *)
(* handed on after a run timeout may still deliver the old task's answer.  *)
THEOREM AnswersAreOwn == Spec => []AnswerIsOwn
<1>1. Init => AnswerIsOwn
  BY DEF Init, AnswerIsOwn
<1>2. IInv /\ AnswerIsOwn /\ [Next]_vars => AnswerIsOwn'
  <2> SUFFICES ASSUME IInv, AnswerIsOwn, [Next]_vars PROVE AnswerIsOwn'
    OBVIOUS
  <2>1. CASE UNCHANGED vars
    BY <2>1 DEF vars, AnswerIsOwn
  <2>2. QED
    BY <2>1, AnswerIsOwnStep
<1>3. QED
  BY <1>1, <1>2, InitHolds, StepHolds, PTL DEF Spec
=============================================================================

-------------------------- MODULE JobLifecycleProofs --------------------------
(***************************************************************************)
(* Proofs about JobLifecycle, for every set of requests and job ids, every *)
(* number of crashes and any failing statements: who ends an active        *)
(* record, what an ended one says, whose answer a reply is, and that it is *)
(* stored.                                                                 *)
(***************************************************************************)
EXTENDS JobLifecycle, TLAPS

(* A request that found its record retryable, or has written it: the       *)
(* record is there and is its own.                                         *)
Writing == {"pool", "finish", "fail"}
Holding(q) == pc[q] \in Writing \cup {"requeue"}
OwnRecord ==
  \A q \in Requests : Holding(q) =>
    rec[IdOf[q]].status # "absent" /\ rec[IdOf[q]].hash = HashOf[q]

(* Where a request is, and what that says about its call and its outcome.  *)
Progress ==
  \A q \in Requests :
    /\ pc[q] \in {"new", "create", "requeue"} => call[q] = "new"
    /\ pc[q] = "pool" => call[q] \in {"waiting", "starting", "running", "dropped"}
    /\ pc[q] = "finish" => outcome[q] \in Result
    /\ pc[q] \in {"new", "create", "requeue"} => origin[q] = "none"
    /\ pc[q] \in Writing => origin[q] \in {"created", "requeued"}

(* A crash leaves no request behind that goes on.                          *)
NobodyRecovers == server = "recovering" => \A q \in Requests : pc[q] \notin UnderWay

(* The creator of a record has it to itself until it answers.              *)
CreatorAlone ==
  \A q \in Requests : origin[q] = "created" /\ pc[q] \in Writing =>
    /\ Active(IdOf[q])
    /\ \A p \in Requests : p # q /\ IdOf[p] = IdOf[q] => ~Holding(p)

(* What the record says of the user's code is an execution of its request. *)
Told == {"ok", "userError"}
RecordIsOwn ==
  \A id \in Ids : rec[id].result \in Told =>
    /\ rec[id].by \in Requests
    /\ IdOf[rec[id].by] = id /\ HashOf[rec[id].by] = rec[id].hash

IInv == TypeOK /\ OwnRecord /\ Progress /\ NobodyRecovers /\ NoZombieRecord
        /\ CreatorAlone /\ RecordIsOwn /\ AnswersItsOwnRequest /\ StatusMatchesResult
        /\ ToldIsStored
-----------------------------------------------------------------------------
(* What the writes do to the rows                                          *)

LEMMA NoneIsOther == None \notin Requests /\ None \notin Reply /\ None \notin Result
BY NoneAssumption DEF Reply

LEMMA IdsOf == \A q \in Requests : IdOf[q] \in Ids /\ HashOf[q] \in Hashes
BY IdOfAssumption DEF Hashes

Rewritten(id, s, o, p) ==
  rec' = [rec EXCEPT ![id].status = s, ![id].result = o, ![id].by = p]

LEMMA Rewrites ==
  ASSUME TypeOK, NEW id \in Ids, NEW s \in Status, NEW o \in Result \cup {None},
         NEW p \in Requests \cup {None}, Rewritten(id, s, o, p)
  PROVE  /\ rec' \in [Ids -> Record]
         /\ \A i \in Ids : i # id => rec'[i] = rec[i]
         /\ rec'[id].status = s /\ rec'[id].result = o /\ rec'[id].by = p
         /\ rec'[id].hash = rec[id].hash
BY DEF Rewritten, TypeOK, Record

LEMMA Creates ==
  ASSUME TypeOK, NEW q \in Requests, Create(q)
  PROVE  /\ rec' \in [Ids -> Record]
         /\ \A i \in Ids : i # IdOf[q] => rec'[i] = rec[i]
         /\ rec'[IdOf[q]].status = "queued" /\ rec'[IdOf[q]].result = None
         /\ rec'[IdOf[q]].hash = HashOf[q]
<1>1. Queued(q) \in Record
  BY IdsOf DEF Queued, Record, Status
<1>2. rec \in [Ids -> Record] /\ IdOf[q] \in Ids
  BY IdsOf DEF TypeOK
<1>3. QED
  BY <1>1, <1>2 DEF Create, Queued

LEMMA Requeues ==
  ASSUME TypeOK, NEW q \in Requests, Requeue(q)
  PROVE  /\ rec' \in [Ids -> Record]
         /\ \A i \in Ids : i # IdOf[q] => rec'[i] = rec[i]
         /\ rec'[IdOf[q]].status = "queued" /\ rec'[IdOf[q]].result = None
         /\ rec'[IdOf[q]].hash = rec[IdOf[q]].hash
<1>1. Rewritten(IdOf[q], "queued", None, None) /\ "queued" \in Status
  BY DEF Requeue, Rewritten, Status
<1>2. IdOf[q] \in Ids /\ None \in Result \cup {None} /\ None \in Requests \cup {None}
  BY IdsOf
<1>3. QED
  BY <1>1, <1>2, Rewrites

LEMMA Marks ==
  ASSUME TypeOK, NEW q \in Requests, MarkRunning(q)
  PROVE  /\ rec' \in [Ids -> Record]
         /\ \A i \in Ids : i # IdOf[q] => rec'[i] = rec[i]
         /\ rec'[IdOf[q]].status = "running"
         /\ rec'[IdOf[q]].result = rec[IdOf[q]].result /\ rec'[IdOf[q]].by = rec[IdOf[q]].by
         /\ rec'[IdOf[q]].hash = rec[IdOf[q]].hash
<1>1. IdOf[q] \in Ids /\ rec[IdOf[q]] \in Record /\ rec \in [Ids -> Record]
  BY IdsOf DEF TypeOK
<1>2. rec' = [rec EXCEPT ![IdOf[q]] = [rec[IdOf[q]] EXCEPT !.status = "running"]]
  BY <1>1 DEF MarkRunning
<1>3. [rec[IdOf[q]] EXCEPT !.status = "running"] \in Record
  BY <1>1 DEF Record, Status
<1>4. QED
  BY <1>1, <1>2, <1>3 DEF Record

LEMMA Recovers ==
  ASSUME TypeOK, NEW id \in Ids, Recover(id)
  PROVE  /\ rec' \in [Ids -> Record]
         /\ \A i \in Ids : i # id => rec'[i] = rec[i]
         /\ rec'[id].status = "crashed" /\ rec'[id].result = "crashed"
         /\ rec'[id].hash = rec[id].hash
BY DEF Recover, TypeOK, Record, Status, Terminal, Result, Retryable

LEMMA Statuses ==
  /\ \A o \in Result : StatusForResult(o) \in Terminal /\ StatusForResult(o) \in Status
  /\ StatusForResult("infra") = "failed" /\ StatusForResult("crashed") = "crashed"
BY DEF StatusForResult, Result, Retryable, Terminal, Status

LEMMA Ends ==
  ASSUME TypeOK, Progress, NEW q \in Requests, Finish(q) \/ Fail(q)
  PROVE  /\ rec' \in [Ids -> Record]
         /\ \A i \in Ids : i # IdOf[q] => rec'[i] = rec[i]
         /\ rec'[IdOf[q]].status = StatusForResult(rec'[IdOf[q]].result)
         /\ rec'[IdOf[q]].status \in Terminal
         /\ rec'[IdOf[q]].result \in Result /\ rec'[IdOf[q]].by = q
         /\ rec'[IdOf[q]].hash = rec[IdOf[q]].hash
         /\ outcome'[q] \in Result /\ by'[q] = q /\ pc'[q] = "replied"
<1>1. CASE Finish(q)
  <2>1. outcome[q] \in Result
    BY <1>1 DEF Finish, Progress
  <2>2. StatusForResult(outcome[q]) \in Status /\ StatusForResult(outcome[q]) \in Terminal
    BY <2>1, Statuses
  <2>3. Rewritten(IdOf[q], StatusForResult(outcome[q]), outcome[q], q)
    BY <1>1 DEF Finish, Store, Rewritten
  <2>4. outcome'[q] = outcome[q] /\ by'[q] = q /\ pc'[q] = "replied"
    BY <1>1 DEF Finish, Answered, Goto, TypeOK
  <2>5. IdOf[q] \in Ids /\ outcome[q] \in Result \cup {None} /\ q \in Requests \cup {None}
    BY <2>1, IdsOf
  <2>6. /\ rec' \in [Ids -> Record]
        /\ \A i \in Ids : i # IdOf[q] => rec'[i] = rec[i]
        /\ rec'[IdOf[q]].status = StatusForResult(outcome[q])
        /\ rec'[IdOf[q]].result = outcome[q] /\ rec'[IdOf[q]].by = q
        /\ rec'[IdOf[q]].hash = rec[IdOf[q]].hash
    BY <2>2, <2>3, <2>5, Rewrites
  <2>7. QED
    BY <2>1, <2>2, <2>4, <2>6
<1>2. CASE Fail(q)
  <2>1. Rewritten(IdOf[q], "failed", "infra", q)
    BY <1>2 DEF Fail, Store, Rewritten
  <2>2. outcome'[q] = "infra" /\ by'[q] = q /\ pc'[q] = "replied"
    BY <1>2 DEF Fail, Answered, Goto, TypeOK
  <2>3. "infra" \in Result /\ "failed" \in Status /\ "failed" \in Terminal
    BY DEF Result, Retryable, Status, Terminal
  <2>4. IdOf[q] \in Ids /\ "infra" \in Result \cup {None} /\ q \in Requests \cup {None}
    BY <2>3, IdsOf
  <2>5. /\ rec' \in [Ids -> Record]
        /\ \A i \in Ids : i # IdOf[q] => rec'[i] = rec[i]
        /\ rec'[IdOf[q]].status = "failed"
        /\ rec'[IdOf[q]].result = "infra" /\ rec'[IdOf[q]].by = q
        /\ rec'[IdOf[q]].hash = rec[IdOf[q]].hash
    BY <2>1, <2>3, <2>4, Rewrites
  <2>6. QED
    BY <2>2, <2>3, <2>5, Statuses
<1>3. QED
  BY <1>1, <1>2
-----------------------------------------------------------------------------
(* The types                                                               *)

LEMMA PCs ==
  /\ {"replied", "create", "requeue", "pool", "finish", "fail", "lost"} \subseteq PC
  /\ Pool!CallState = {"new", "waiting", "starting", "running", "dropped",
                       "result", "crashed", "refused", "rejected"}
BY DEF PC, UnderWay, Pool!CallState, Pool!Settled

LEMMA TypeHolds == TypeOK /\ Progress /\ Next => TypeOK'
<1> SUFFICES ASSUME TypeOK, Progress, Next PROVE TypeOK'
  OBVIOUS
<1>1. ASSUME NEW q \in Requests, Lookup(q) PROVE TypeOK'
  <2>1. rec[IdOf[q]] \in Record
    BY IdsOf DEF TypeOK
  <2>2. CASE FindNothing(q) \/ FindRetryable(q)
    BY <2>2, PCs DEF FindNothing, FindRetryable, Goto, TypeOK
  <2>3. CASE FindConflict(q) \/ FindActive(q)
    BY <2>3, PCs DEF FindConflict, FindActive, Answered, Goto, TypeOK, Reply
  <2>4. CASE FindResult(q)
    BY <2>1, <2>4, PCs DEF FindResult, Answered, Goto, TypeOK, Record, Reply
  <2>5. QED
    BY <1>1, <2>2, <2>3, <2>4 DEF Lookup
<1>2. ASSUME NEW q \in Requests, Create(q) \/ Requeue(q) PROVE TypeOK'
  <2>1. rec' \in [Ids -> Record]
    BY <1>2, Creates, Requeues
  <2>2. QED
    BY <1>2, <2>1, PCs DEF Create, Requeue, Admitted, Goto, TypeOK
<1>3. ASSUME NEW q \in Requests, CreateCollides(q) \/ StoreFailsEarly(q) PROVE TypeOK'
  BY <1>3, PCs DEF CreateCollides, StoreFailsEarly, Answered, Goto, TypeOK, Reply
<1>4. ASSUME NEW q \in Requests, InPool(q) PROVE TypeOK'
  <2>1. CASE Refuse(q)
    BY <2>1, PCs DEF Refuse, PoolMoves, Goto, TypeOK, Reply, Result, Retryable
  <2>2. CASE Dispatch(q)
    BY <2>2, PCs DEF Dispatch, PoolMoves, TypeOK
  <2>3. CASE MarkRunning(q)
    <3>1. rec' \in [Ids -> Record]
      BY <2>3, Marks
    <3>2. QED
      BY <2>3, <3>1, PCs DEF MarkRunning, PoolMoves, TypeOK
  <2>4. CASE MarkRunningFails(q)
    BY <2>4, PCs DEF MarkRunningFails, PoolMoves, Goto, TypeOK
  <2>5. CASE RunnerAnswers(q)
    BY <2>5, PCs DEF RunnerAnswers, PoolMoves, Goto, TypeOK, Reply, Result, Retryable
  <2>6. CASE RunnerDrops(q)
    BY <2>6, PCs DEF RunnerDrops, PoolMoves, TypeOK
  <2>7. QED
    BY <1>4, <2>1, <2>2, <2>3, <2>4, <2>5, <2>6 DEF InPool
<1>5. ASSUME NEW q \in Requests, End(q) PROVE TypeOK'
  <2>1. CASE Finish(q) \/ Fail(q)
    <3>1. rec' \in [Ids -> Record]
      BY <2>1, Ends
    <3>2. "infra" \in Reply /\ outcome[q] \in Reply \cup {None}
      BY DEF Reply, Result, Retryable, TypeOK
    <3>3. QED
      BY <2>1, <3>1, <3>2, PCs DEF Finish, Fail, Answered, Goto, TypeOK
  <2>2. CASE FinishFails(q)
    BY <2>2, PCs DEF FinishFails, Goto, TypeOK
  <2>3. CASE FailFails(q)
    BY <2>3, PCs, IdsOf DEF FailFails, Answered, Goto, TypeOK, Reply
  <2>4. QED
    BY <1>5, <2>1, <2>2, <2>3 DEF End
<1>6. ASSUME NEW id \in Ids, Recover(id) PROVE TypeOK'
  <2>1. rec' \in [Ids -> Record]
    BY <1>6, Recovers
  <2>2. QED
    BY <1>6, <2>1 DEF Recover, qvars, TypeOK
<1>7. CASE Crash
  BY <1>7, PCs, MaxCrashesAssumption DEF Crash, TypeOK
<1>8. CASE Listen
  BY <1>8 DEF Listen, qvars, TypeOK
<1>9. QED
  BY <1>1, <1>2, <1>3, <1>4, <1>5, <1>6, <1>7, <1>8 DEF Next, Write
-----------------------------------------------------------------------------
(* What the steps of a request do                                          *)

Asking(q) == Lookup(q) \/ CreateCollides(q) \/ StoreFailsEarly(q)
Ending(q) == Finish(q) \/ Fail(q)
RequestStep(q) == \/ Asking(q) \/ Create(q) \/ Requeue(q) \/ InPool(q)
                  \/ Ending(q) \/ FinishFails(q) \/ FailFails(q)

(* Nobody else moves, and the server is not starting.                      *)
Alone(q) ==
  /\ server' = server /\ crashes' = crashes
  /\ \A p \in Requests : p # q =>
       /\ pc'[p] = pc[p] /\ call'[p] = call[p] /\ outcome'[p] = outcome[p]
       /\ by'[p] = by[p] /\ origin'[p] = origin[p]

LEMMA NextSteps == Next => \/ \E q \in Requests : RequestStep(q)
                           \/ \E id \in Ids : Recover(id)
                           \/ Crash \/ Listen
BY DEF Next, RequestStep, Asking, Ending, Write, End

LEMMA Asks ==
  ASSUME TypeOK, NEW q \in Requests, Asking(q)
  PROVE  /\ Alone(q) /\ UNCHANGED <<rec, call, origin, orphaned>>
         /\ pc[q] \in {"new", "create", "requeue"}
         /\ \/ pc'[q] = "create" /\ server = "up"
            \/ pc'[q] = "requeue" /\ server = "up" /\ SameRequest(q)
                 /\ rec[IdOf[q]].status \in Terminal
            \/ pc'[q] = "replied" /\ outcome'[q] \notin Told
            \/ pc'[q] = "replied" /\ SameRequest(q)
                 /\ outcome'[q] = rec[IdOf[q]].result /\ by'[q] = rec[IdOf[q]].by
<1> USE DEF TypeOK, Goto, Alone, Find
<1>1. CASE FindNothing(q)
  BY <1>1 DEF FindNothing
<1>2. CASE FindRetryable(q)
  BY <1>2 DEF FindRetryable
<1>3. CASE FindConflict(q)
  BY <1>3 DEF FindConflict, Answered, Told
<1>4. CASE FindActive(q)
  BY <1>4 DEF FindActive, Answered, Told
<1>5. CASE FindResult(q)
  BY <1>5 DEF FindResult, Answered
<1>6. CASE CreateCollides(q)
  BY <1>6 DEF CreateCollides, Answered, Told
<1>7. CASE StoreFailsEarly(q)
  BY <1>7 DEF StoreFailsEarly, Answered, Told
<1>8. QED
  BY <1>1, <1>2, <1>3, <1>4, <1>5, <1>6, <1>7 DEF Asking, Lookup

LEMMA Admits ==
  ASSUME TypeOK, NEW q \in Requests, Create(q) \/ Requeue(q)
  PROVE  /\ Alone(q) /\ UNCHANGED orphaned
         /\ Create(q) => pc[q] = "create" /\ rec[IdOf[q]].status = "absent"
         /\ Requeue(q) => pc[q] = "requeue" /\ origin'[q] = "requeued"
         /\ Create(q) => origin'[q] = "created"
         /\ pc'[q] = "pool" /\ call'[q] = "waiting" /\ outcome' = outcome
BY DEF Create, Requeue, Admitted, Goto, TypeOK, Alone

LEMMA Pools ==
  ASSUME TypeOK, NEW q \in Requests, InPool(q)
  PROVE  /\ Alone(q) /\ UNCHANGED <<origin, orphaned, by>>
         /\ pc[q] = "pool" /\ pc'[q] \in Writing
         /\ pc'[q] = "pool" => call'[q] \in {"starting", "running", "dropped"}
         /\ pc'[q] = "finish" => outcome'[q] \in Result
         /\ MarkRunning(q) \/ rec' = rec
<1> USE DEF TypeOK, Goto, Alone, PoolMoves, Writing
<1>1. CASE Refuse(q)
  BY <1>1 DEF Refuse, Result, Retryable
<1>2. CASE Dispatch(q)
  BY <1>2 DEF Dispatch
<1>3. CASE MarkRunning(q)
  BY <1>3 DEF MarkRunning
<1>4. CASE MarkRunningFails(q)
  BY <1>4 DEF MarkRunningFails
<1>5. CASE RunnerAnswers(q)
  BY <1>5 DEF RunnerAnswers, Result, Retryable
<1>6. CASE RunnerDrops(q)
  BY <1>6 DEF RunnerDrops
<1>7. QED
  BY <1>1, <1>2, <1>3, <1>4, <1>5, <1>6 DEF InPool

LEMMA Stops ==
  ASSUME TypeOK, NEW q \in Requests, Ending(q) \/ FinishFails(q) \/ FailFails(q)
  PROVE  /\ Alone(q) /\ UNCHANGED <<call, origin>>
         /\ pc[q] \in {"finish", "fail"}
         /\ Ending(q) => orphaned' = orphaned /\ pc'[q] = "replied"
         /\ FinishFails(q) => rec' = rec /\ orphaned' = orphaned /\ pc'[q] = "fail"
         /\ FailFails(q) => /\ rec' = rec /\ orphaned' = orphaned \cup {IdOf[q]}
                            /\ pc'[q] = "replied" /\ outcome'[q] = "error"
<1> USE DEF TypeOK, Goto, Alone, Answered
<1>1. CASE Finish(q)
  BY <1>1 DEF Finish, Fail, FinishFails, FailFails, Ending
<1>2. CASE Fail(q)
  BY <1>2 DEF Finish, Fail, FinishFails, FailFails, Ending
<1>3. CASE FinishFails(q)
  BY <1>3 DEF Finish, Fail, FinishFails, FailFails, Ending
<1>4. CASE FailFails(q)
  BY <1>4 DEF Finish, Fail, FinishFails, FailFails, Ending
<1>5. QED
  BY <1>1, <1>2, <1>3, <1>4 DEF Ending

(* Crash, or a step of the startup: requests stay, or are lost.            *)
LEMMA Restarts ==
  ASSUME TypeOK, Crash \/ Listen \/ \E id \in Ids : Recover(id)
  PROVE  /\ UNCHANGED <<call, outcome, by, origin, orphaned>>
         /\ Crash => /\ rec' = rec /\ server' = "recovering"
                     /\ \A q \in Requests : \/ pc'[q] = pc[q] /\ pc[q] \notin UnderWay
                                            \/ pc'[q] = "lost"
         /\ pc' = pc \/ Crash
         /\ ~Crash => server = "recovering"
<1>1. CASE Crash
  BY <1>1 DEF Crash
<1>2. CASE Listen
  BY <1>2 DEF Listen, Crash, qvars
<1>3. CASE \E id \in Ids : Recover(id)
  BY <1>3 DEF Recover, Crash, qvars
<1>4. QED
  BY <1>1, <1>2, <1>3
-----------------------------------------------------------------------------
(* Requests and the rows they work on                                      *)

(* A row is never deleted and keeps its request hash.                      *)
LEMMA RowsStay ==
  ASSUME IInv, Next, NEW id \in Ids, rec[id].status # "absent"
  PROVE  rec'[id].status # "absent" /\ rec'[id].hash = rec[id].hash
<1> USE DEF IInv
<1>1. ASSUME NEW q \in Requests, RequestStep(q)
      PROVE  rec'[id].status # "absent" /\ rec'[id].hash = rec[id].hash
  <2>1. CASE rec' = rec
    BY <2>1
  <2>2. CASE Create(q)
    BY <2>2, Admits, Creates
  <2>3. CASE Requeue(q)
    BY <2>3, Requeues
  <2>4. CASE MarkRunning(q)
    BY <2>4, Marks
  <2>5. CASE Ending(q)
    BY <2>5, Ends DEF Ending, Terminal
  <2>6. QED
    BY <1>1, <2>1, <2>2, <2>3, <2>4, <2>5, Asks, Pools, Stops DEF RequestStep
<1>2. ASSUME NEW i \in Ids, Recover(i)
      PROVE  rec'[id].status # "absent" /\ rec'[id].hash = rec[id].hash
  BY <1>2, Recovers
<1>3. CASE Crash \/ Listen
  BY <1>3 DEF Crash, Listen
<1>4. QED
  BY <1>1, <1>2, <1>3, NextSteps

LEMMA OwnRecordHolds == IInv /\ Next => OwnRecord'
<1> SUFFICES ASSUME IInv, Next, NEW q \in Requests, Holding(q)'
             PROVE  rec'[IdOf[q]].status # "absent" /\ rec'[IdOf[q]].hash = HashOf[q]
  BY DEF OwnRecord
<1> USE DEF IInv
<1>1. CASE Holding(q)
  BY <1>1, RowsStay, IdsOf DEF OwnRecord
<1>2. CASE ~Holding(q)
  <2>1. ASSUME NEW p \in Requests, RequestStep(p)
        PROVE  rec'[IdOf[q]].status # "absent" /\ rec'[IdOf[q]].hash = HashOf[q]
    <3>1. CASE Asking(p)
      BY <1>2, <3>1, Asks DEF Alone, Holding, Writing, SameRequest
    <3>2. CASE Create(p)
      BY <1>2, <3>2, Admits, Creates DEF Alone, Holding, Writing
    <3>3. CASE Requeue(p) \/ InPool(p) \/ Ending(p) \/ FinishFails(p) \/ FailFails(p)
      BY <1>2, <3>3, Admits, Pools, Stops DEF Alone, Holding, Writing
    <3>4. QED
      BY <2>1, <3>1, <3>2, <3>3 DEF RequestStep
  <2>2. CASE Crash \/ Listen \/ \E id \in Ids : Recover(id)
    BY <1>2, <2>2, Restarts DEF Holding, Writing
  <2>3. QED
    BY <2>1, <2>2, NextSteps
<1>3. QED
  BY <1>1, <1>2

LEMMA ProgressHolds == IInv /\ Next => Progress'
<1> SUFFICES ASSUME IInv, Next PROVE Progress'
  OBVIOUS
<1> USE DEF IInv
<1>1. ASSUME NEW q \in Requests, RequestStep(q) PROVE Progress'
  <2>1. CASE Asking(q)
    BY <2>1, Asks DEF Alone, Progress, Writing
  <2>2. CASE Create(q) \/ Requeue(q)
    BY <2>2, Admits DEF Alone, Progress, Writing
  <2>3. CASE InPool(q)
    BY <2>3, Pools DEF Alone, Progress, Writing
  <2>4. CASE Ending(q) \/ FinishFails(q) \/ FailFails(q)
    BY <2>4, Stops DEF Alone, Progress, Writing
  <2>5. QED
    BY <1>1, <2>1, <2>2, <2>3, <2>4 DEF RequestStep
<1>2. CASE Crash \/ Listen \/ \E id \in Ids : Recover(id)
  BY <1>2, Restarts DEF Progress, Writing
<1>3. QED
  BY <1>1, <1>2, NextSteps

LEMMA NobodyHolds == IInv /\ Next => NobodyRecovers'
<1> SUFFICES ASSUME IInv, Next PROVE NobodyRecovers'
  OBVIOUS
<1> USE DEF IInv
<1>1. ASSUME NEW q \in Requests, RequestStep(q) PROVE NobodyRecovers'
  <2>1. server = "recovering" => pc[q] \notin UnderWay
    BY DEF NobodyRecovers
  <2>2. CASE Asking(q)
    BY <2>1, <2>2, Asks DEF Alone, NobodyRecovers, UnderWay
  <2>3. CASE Create(q) \/ Requeue(q) \/ InPool(q) \/ Ending(q) \/ FinishFails(q) \/ FailFails(q)
    BY <2>1, <2>3, Admits, Pools, Stops DEF Alone, NobodyRecovers, UnderWay
  <2>4. QED
    BY <1>1, <2>2, <2>3 DEF RequestStep
<1>2. CASE Crash
  BY <1>2, Restarts DEF NobodyRecovers, UnderWay
<1>3. CASE Listen \/ \E id \in Ids : Recover(id)
  BY <1>3 DEF Listen, Recover, qvars, NobodyRecovers
<1>4. QED
  BY <1>1, <1>2, <1>3, NextSteps

-----------------------------------------------------------------------------
(* Somebody ends an active record                                          *)

LEMMA NoZombieHolds == IInv /\ Next => NoZombieRecord'
<1>0. ASSUME NEW id \in Ids, \E q \in Requests : IdOf[q] = id /\ pc'[q] \in Writing
      PROVE  \/ \E q \in Requests :
                  IdOf[q] = id /\ pc'[q] \in {"pool", "finish", "fail"} /\ ~Hung(q)'
             \/ \E q \in Requests : IdOf[q] = id /\ Hung(q)'
  BY <1>0 DEF Writing
<1> SUFFICES ASSUME IInv, Next, NEW id \in Ids, server' = "up", Active(id)', id \notin orphaned'
             PROVE  \E q \in Requests : IdOf[q] = id /\ pc'[q] \in Writing
  BY <1>0 DEF NoZombieRecord
<1> USE DEF IInv
<1>1. ASSUME NEW q \in Requests, RequestStep(q)
      PROVE  \E p \in Requests : IdOf[p] = id /\ pc'[p] \in Writing
  <2>1. server = "up" /\ id \notin orphaned
    BY <1>1, Asks, Admits, Pools, Stops DEF Alone, RequestStep
  <2>2. CASE pc'[q] \in Writing /\ IdOf[q] = id
    BY <2>2
  <2>3. CASE ~(pc'[q] \in Writing /\ IdOf[q] = id)
    <3>1. rec'[id] = rec[id] /\ ~(pc[q] \in Writing /\ IdOf[q] = id)
      <4>1. CASE Asking(q)
        BY <4>1, Asks DEF Writing
      <4>2. CASE Create(q) \/ Requeue(q)
        BY <2>3, <4>2, Admits, Creates, Requeues DEF Writing
      <4>3. CASE InPool(q)
        BY <2>3, <4>3, Pools, Marks
      <4>4. CASE Ending(q)
        <5>1. IdOf[q] # id
          BY <4>4, Ends, IdsOf DEF Ending, Active, Terminal
        <5>2. QED
          BY <4>4, <5>1, Ends DEF Ending
      <4>5. CASE FinishFails(q) \/ FailFails(q)
        BY <2>3, <4>5, Stops DEF Writing
      <4>6. QED
        BY <1>1, <4>1, <4>2, <4>3, <4>4, <4>5 DEF RequestStep
    <3>2. PICK p \in Requests : IdOf[p] = id /\ pc[p] \in Writing
      BY <2>1, <3>1 DEF NoZombieRecord, Active, Writing, Hung
    <3>3. pc'[p] = pc[p]
      BY <1>1, <3>1, <3>2, Asks, Admits, Pools, Stops DEF Alone, RequestStep
    <3>4. QED
      BY <3>2, <3>3
  <2>4. QED
    BY <2>2, <2>3
<1>2. CASE Crash \/ \E i \in Ids : Recover(i)
  BY <1>2 DEF Crash, Recover
<1>3. CASE Listen
  BY <1>3 DEF Listen, Interrupted, Active
<1>4. QED
  BY <1>1, <1>2, <1>3, NextSteps

-----------------------------------------------------------------------------
(* The creator of a record                                                 *)

LEMMA CreatorHolds == IInv /\ Next => CreatorAlone'
<1> SUFFICES ASSUME IInv, Next, NEW q \in Requests, origin'[q] = "created", pc'[q] \in Writing
             PROVE  /\ Active(IdOf[q])'
                    /\ \A p \in Requests : p # q /\ IdOf[p] = IdOf[q] => ~Holding(p)'
  BY DEF CreatorAlone
<1> USE DEF IInv
\* It was there, and another request moves.
<1>1. ASSUME NEW r \in Requests, RequestStep(r), r # q
      PROVE  /\ Active(IdOf[q])'
             /\ \A p \in Requests : p # q /\ IdOf[p] = IdOf[q] => ~Holding(p)'
  <2>1. origin[q] = "created" /\ pc[q] \in Writing
    BY <1>1, Asks, Admits, Pools, Stops DEF Alone, RequestStep
  <2>2. /\ Active(IdOf[q])
        /\ \A p \in Requests : p # q /\ IdOf[p] = IdOf[q] => ~Holding(p)
    BY <2>1 DEF CreatorAlone
  <2>3. IdOf[r] = IdOf[q] => Asking(r) /\ pc'[r] # "requeue"
    BY <1>1, <2>2, Asks, Admits, Pools, Stops
       DEF RequestStep, Holding, Writing, Active, Terminal
  <2>4. rec'[IdOf[q]] = rec[IdOf[q]]
    <3>1. CASE IdOf[r] = IdOf[q]
      BY <2>3, <3>1, Asks
    <3>2. CASE IdOf[r] # IdOf[q]
      BY <1>1, <3>2, IdsOf, Asks, Creates, Requeues, Pools, Marks, Ends, Stops
         DEF RequestStep, Ending
    <3>3. QED
      BY <3>1, <3>2
  <2>5. ASSUME NEW p \in Requests, p # q, IdOf[p] = IdOf[q] PROVE ~Holding(p)'
    <3>1. CASE p = r
      BY <2>3, <2>5, <3>1, Asks DEF Holding, Writing
    <3>2. CASE p # r
      BY <1>1, <2>2, <2>5, <3>2, Asks, Admits, Pools, Stops DEF RequestStep, Alone, Holding
    <3>3. QED
      BY <3>1, <3>2
  <2>6. QED
    BY <2>2, <2>4, <2>5 DEF Active
\* It moves itself.
<1>2. ASSUME RequestStep(q)
      PROVE  /\ Active(IdOf[q])'
             /\ \A p \in Requests : p # q /\ IdOf[p] = IdOf[q] => ~Holding(p)'
  <2>1. \A p \in Requests : p # q => pc'[p] = pc[p]
    BY <1>2, Asks, Admits, Pools, Stops DEF RequestStep, Alone
  <2>2. CASE Create(q)
    <3>1. \A p \in Requests : IdOf[p] = IdOf[q] => ~Holding(p)
      BY <2>2, Admits DEF OwnRecord
    <3>2. Active(IdOf[q])'
      BY <2>2, Creates DEF Active
    <3>3. QED
      BY <2>1, <3>1, <3>2 DEF Holding
  <2>3. CASE InPool(q) \/ FinishFails(q)
    <3>1. origin[q] = "created" /\ pc[q] \in Writing
      BY <2>3, Pools, Stops DEF Writing
    <3>2. /\ Active(IdOf[q])
          /\ \A p \in Requests : p # q /\ IdOf[p] = IdOf[q] => ~Holding(p)
      BY <3>1 DEF CreatorAlone
    <3>3. Active(IdOf[q])'
      BY <2>3, <3>2, Pools, Stops, Marks DEF Active
    <3>4. QED
      BY <2>1, <3>2, <3>3 DEF Holding
  <2>4. CASE Asking(q) \/ Requeue(q) \/ Ending(q) \/ FailFails(q)
    BY <2>4, Asks, Admits, Stops DEF Writing
  <2>5. QED
    BY <1>2, <2>2, <2>3, <2>4 DEF RequestStep
<1>3. CASE Crash \/ Listen \/ \E id \in Ids : Recover(id)
  BY <1>3, Restarts DEF Writing, UnderWay, NobodyRecovers
<1>4. QED
  BY <1>1, <1>2, <1>3, NextSteps
-----------------------------------------------------------------------------
(* What records and replies say                                            *)

LEMMA ToldIsNoNone == None \notin Told /\ "crashed" \notin Told /\ None \notin Requests
BY NoneIsOther DEF Told, Result

LEMMA RecordIsOwnHolds == IInv /\ Next => RecordIsOwn'
<1> SUFFICES ASSUME IInv, Next, NEW id \in Ids, rec'[id].result \in Told
             PROVE  /\ rec'[id].by \in Requests
                    /\ IdOf[rec'[id].by] = id /\ HashOf[rec'[id].by] = rec'[id].hash
  BY DEF RecordIsOwn
<1> USE DEF IInv
<1>1. CASE /\ rec'[id].result = rec[id].result /\ rec'[id].by = rec[id].by
           /\ rec'[id].hash = rec[id].hash
  BY <1>1 DEF RecordIsOwn
<1>2. ASSUME NEW q \in Requests, RequestStep(q)
      PROVE  \/ /\ rec'[id].result = rec[id].result /\ rec'[id].by = rec[id].by
                /\ rec'[id].hash = rec[id].hash
             \/ rec'[id].by = q /\ IdOf[q] = id /\ HashOf[q] = rec'[id].hash
  <2>1. CASE rec' = rec
    BY <2>1
  <2>2. CASE Create(q)
    BY <2>2, Creates, ToldIsNoNone
  <2>3. CASE Requeue(q)
    BY <2>3, Requeues, ToldIsNoNone
  <2>4. CASE MarkRunning(q)
    BY <2>4, Marks
  <2>5. CASE Ending(q)
    <3>1. rec[IdOf[q]].hash = HashOf[q]
      BY <2>5, Stops DEF OwnRecord, Holding, Writing
    <3>2. QED
      BY <2>5, <3>1, Ends DEF Ending
  <2>6. QED
    BY <1>2, <2>1, <2>2, <2>3, <2>4, <2>5, Asks, Pools, Stops DEF RequestStep
<1>3. ASSUME NEW i \in Ids, Recover(i) PROVE rec'[id] = rec[id]
  BY <1>3, Recovers, ToldIsNoNone
<1>4. CASE Crash \/ Listen
  BY <1>1, <1>4 DEF Crash, Listen
<1>5. QED
  BY <1>1, <1>2, <1>3, <1>4, NextSteps

LEMMA AnswersHold == IInv /\ Next => AnswersItsOwnRequest'
<1> SUFFICES ASSUME IInv, Next, NEW q \in Requests, pc'[q] = "replied", outcome'[q] \in Told
             PROVE  by'[q] # None /\ IdOf[by'[q]] = IdOf[q] /\ HashOf[by'[q]] = HashOf[q]
  BY DEF AnswersItsOwnRequest, Told
<1> USE DEF IInv
<1>1. CASE pc[q] = "replied" /\ outcome'[q] = outcome[q] /\ by'[q] = by[q]
  BY <1>1 DEF AnswersItsOwnRequest, Told
<1>2. ASSUME NEW p \in Requests, p # q, RequestStep(p)
      PROVE  pc[q] = "replied" /\ outcome'[q] = outcome[q] /\ by'[q] = by[q]
  BY <1>2, Asks, Admits, Pools, Stops DEF RequestStep, Alone
<1>3. ASSUME RequestStep(q)
      PROVE  by'[q] # None /\ IdOf[by'[q]] = IdOf[q] /\ HashOf[by'[q]] = HashOf[q]
  <2>1. CASE Asking(q)
    <3>1. /\ rec[IdOf[q]].hash = HashOf[q]
          /\ outcome'[q] = rec[IdOf[q]].result /\ by'[q] = rec[IdOf[q]].by
      BY <2>1, Asks DEF SameRequest
    <3>2. QED
      BY <3>1, IdsOf, ToldIsNoNone DEF RecordIsOwn
  <2>2. CASE Ending(q)
    BY <2>2, Ends, ToldIsNoNone DEF Ending
  <2>3. CASE Create(q) \/ Requeue(q) \/ InPool(q) \/ FinishFails(q) \/ FailFails(q)
    BY <2>3, Admits, Pools, Stops DEF Writing, Told
  <2>4. QED
    BY <1>3, <2>1, <2>2, <2>3 DEF RequestStep
<1>4. CASE Crash \/ Listen \/ \E id \in Ids : Recover(id)
  BY <1>1, <1>4, Restarts
<1>5. QED
  BY <1>1, <1>2, <1>3, <1>4, NextSteps

LEMMA StatusHolds == IInv /\ Next => StatusMatchesResult'
<1> SUFFICES ASSUME IInv, Next, NEW id \in Ids, rec'[id].status \in Terminal
             PROVE  /\ rec'[id].result # None
                    /\ rec'[id].status = StatusForResult(rec'[id].result)
  BY DEF StatusMatchesResult
<1> USE DEF IInv
<1>1. CASE rec'[id] = rec[id]
  BY <1>1 DEF StatusMatchesResult
<1>2. ASSUME NEW q \in Requests, RequestStep(q), rec'[id] # rec[id]
      PROVE  /\ rec'[id].result # None
             /\ rec'[id].status = StatusForResult(rec'[id].result)
  <2>1. CASE Create(q) \/ Requeue(q) \/ MarkRunning(q)
    BY <1>2, <2>1, Creates, Requeues, Marks DEF Terminal
  <2>2. CASE Ending(q)
    BY <1>2, <2>2, Ends, NoneIsOther DEF Ending
  <2>3. QED
    BY <1>2, <2>1, <2>2, Asks, Pools, Stops DEF RequestStep
<1>3. ASSUME NEW i \in Ids, Recover(i), rec'[id] # rec[id]
      PROVE  /\ rec'[id].result # None
             /\ rec'[id].status = StatusForResult(rec'[id].result)
  BY <1>3, Recovers, Statuses, ToldIsNoNone, NoneIsOther DEF Result, Retryable
<1>4. CASE Crash \/ Listen
  BY <1>1, <1>4 DEF Crash, Listen
<1>5. QED
  BY <1>1, <1>2, <1>3, <1>4, NextSteps

-----------------------------------------------------------------------------
(* A result that was told                                                  *)

LEMMA ToldHolds == IInv /\ Next => ToldIsStored'
<1> SUFFICES ASSUME IInv, Next, NEW q \in Requests, pc'[q] = "replied", outcome'[q] \in Told
             PROVE  \/ Final(IdOf[q])' /\ rec'[IdOf[q]].result = outcome'[q]
                    \/ \E p \in Requests \ {q} :
                         IdOf[p] = IdOf[q] /\ origin'[p] = "requeued"
  BY DEF ToldIsStored, Told
<1> DEFINE Kept == \/ Final(IdOf[q])' /\ rec'[IdOf[q]].result = outcome'[q]
                   \/ \E p \in Requests \ {q} :
                        IdOf[p] = IdOf[q] /\ origin'[p] = "requeued"
<1> SUFFICES Kept
  OBVIOUS
<1> USE DEF IInv
<1>t. IdOf[q] \in Ids /\ Told \cap Retryable = {} /\ Told \subseteq Result
  BY IdsOf DEF Told, Retryable, Result
\* The reply was there, and so was the record.
<1>1. ASSUME pc[q] = "replied", outcome'[q] = outcome[q], rec'[IdOf[q]] = rec[IdOf[q]],
             \A p \in Requests : p # q => origin'[p] = origin[p] \/ origin'[p] = "requeued"
      PROVE  Kept
  BY <1>1 DEF ToldIsStored, Told, Final
<1>2. ASSUME NEW p \in Requests, p # q, RequestStep(p) PROVE Kept
  <2>1. /\ pc[q] = "replied" /\ outcome'[q] = outcome[q]
        /\ \A r \in Requests : r # p => origin'[r] = origin[r]
    BY <1>2, Asks, Admits, Pools, Stops DEF RequestStep, Alone
  <2>2. CASE rec'[IdOf[q]] = rec[IdOf[q]] /\ ~Create(p)
    <3>1. origin'[p] = origin[p] \/ origin'[p] = "requeued"
      BY <1>2, <2>2, Asks, Admits, Pools, Stops DEF RequestStep
    <3>2. \A r \in Requests : r # q => origin'[r] = origin[r] \/ origin'[r] = "requeued"
      BY <2>1, <3>1
    <3>3. QED
      BY <1>1, <2>1, <2>2, <3>2
  <2>3. CASE IdOf[p] = IdOf[q] /\ origin'[p] = "requeued"
    BY <1>2, <2>3
  <2>4. CASE Create(p) /\ IdOf[p] = IdOf[q]
    \* There was no record: somebody has requeued it all the same.
    <3>1. ~Final(IdOf[q])
      BY <2>4, Admits DEF Final, Terminal
    <3>2. PICK r \in Requests \ {q} : IdOf[r] = IdOf[q] /\ origin[r] = "requeued"
      BY <2>1, <3>1 DEF ToldIsStored, Told
    <3>3. r # p
      BY <2>4, <3>2, Admits DEF Progress
    <3>4. QED
      BY <2>1, <3>2, <3>3
  <2>5. CASE IdOf[p] = IdOf[q] /\ origin'[p] = origin[p] /\ Holding(p)
             /\ rec'[IdOf[q]] # rec[IdOf[q]]
    \* A creator has an active record to itself, any other has requeued it.
    <3>1. pc[p] \in Writing
      <4>1. ~Asking(p)
        BY <2>5, Asks
      <4>2. ~Create(p) /\ ~Requeue(p)
        BY <2>5, Admits DEF Progress, Holding, Writing
      <4>3. QED
        BY <1>2, <4>1, <4>2, Pools, Stops DEF RequestStep, Writing
    <3>2. CASE origin[p] = "requeued"
      BY <1>2, <2>5, <3>2
    <3>3. CASE origin[p] = "created"
      <4>1. ~Final(IdOf[q])
        BY <2>5, <3>1, <3>3 DEF CreatorAlone, Active, Final, Terminal
      <4>2. PICK r \in Requests \ {q} : IdOf[r] = IdOf[q] /\ origin[r] = "requeued"
        BY <2>1, <4>1 DEF ToldIsStored, Told
      <4>3. QED
        BY <2>1, <2>5, <3>3, <4>2
    <3>4. QED
      BY <3>1, <3>2, <3>3 DEF Progress
  <2>6. CASE rec'[IdOf[q]] # rec[IdOf[q]] \/ Create(p)
    <3>1. CASE Create(p)
      <4>1. CASE IdOf[p] = IdOf[q]
        BY <2>4, <3>1, <4>1
      <4>2. CASE IdOf[p] # IdOf[q]
        <5>1. rec'[IdOf[q]] = rec[IdOf[q]] /\ origin[p] = "none"
          BY <3>1, <4>2, <1>t, Creates, Admits DEF Progress
        <5>2. QED
          BY <2>1, <4>2, <5>1 DEF ToldIsStored, Told, Final
      <4>3. QED
        BY <4>1, <4>2
    <3>2. CASE Requeue(p)
      <4>1. IdOf[p] = IdOf[q]
        BY <2>6, <3>2, <1>t, Requeues, Admits
      <4>2. QED
        BY <2>3, <3>2, <4>1, Admits
    <3>3. CASE InPool(p) \/ Ending(p)
      <4>1. /\ IdOf[p] = IdOf[q] /\ origin'[p] = origin[p] /\ Holding(p)
            /\ rec'[IdOf[q]] # rec[IdOf[q]]
        <5>1. CASE InPool(p)
          BY <2>6, <5>1, <1>t, Pools, Marks, Admits DEF Holding, Writing, Progress
        <5>2. CASE Ending(p)
          <6>1. pc[p] \in Writing /\ origin' = origin
            BY <5>2, Stops DEF Writing
          <6>2. ~Create(p)
            BY <6>1, Admits DEF Writing
          <6>3. QED
            BY <2>6, <5>2, <6>1, <6>2, <1>t, Ends DEF Ending, Holding
        <5>3. QED
          BY <3>3, <5>1, <5>2
      <4>2. QED
        BY <2>5, <4>1
    <3>4. QED
      BY <1>2, <2>6, <3>1, <3>2, <3>3, Asks, Stops DEF RequestStep
  <2>7. QED
    BY <2>2, <2>6
<1>3. ASSUME RequestStep(q) PROVE Kept
  <2>1. CASE Asking(q)
    <3>1. pc'[q] = "replied" /\ outcome'[q] \in Told
      OBVIOUS
    <3>2. rec' = rec /\ outcome'[q] = rec[IdOf[q]].result /\ SameRequest(q)
      BY <2>1, <3>1, Asks
    <3>3. Final(IdOf[q])
      BY <2>1, <3>1, <3>2 DEF Asking, Lookup, FindNothing, FindConflict, FindResult,
         FindRetryable, FindActive, CreateCollides, StoreFailsEarly, Answered, Goto, Told, TypeOK
    <3>4. QED
      BY <3>2, <3>3 DEF Final
  <2>2. CASE Ending(q)
    <3>1. outcome'[q] = rec'[IdOf[q]].result
      <4>1. rec \in [Ids -> Record] /\ outcome \in [Requests -> Reply \cup {None}]
        BY DEF TypeOK
      <4>2. CASE Finish(q)
        <5>1. Rewritten(IdOf[q], StatusForResult(outcome[q]), outcome[q], q)
          BY <4>2 DEF Finish, Store, Rewritten
        <5>2. rec'[IdOf[q]].result = outcome[q]
          BY <1>t, <4>1, <5>1 DEF Rewritten, Record
        <5>3. QED
          BY <4>1, <4>2, <5>2 DEF Finish, Answered
      <4>3. CASE Fail(q)
        BY <1>t, <4>1, <4>3 DEF Fail, Store, Answered, Record
      <4>4. QED
        BY <2>2, <4>2, <4>3 DEF Ending
    <3>2. rec'[IdOf[q]].status \in Terminal
      BY <2>2, Ends DEF Ending
    <3>3. QED
      BY <1>t, <3>1, <3>2 DEF Final
  <2>3. CASE Create(q) \/ Requeue(q) \/ InPool(q) \/ FinishFails(q) \/ FailFails(q)
    BY <2>3, Admits, Pools, Stops DEF Writing, Told
  <2>4. QED
    BY <1>3, <2>1, <2>2, <2>3 DEF RequestStep
<1>4. CASE Crash \/ Listen \/ \E id \in Ids : Recover(id)
  <2>1. pc[q] = "replied" /\ outcome'[q] = outcome[q] /\ origin' = origin
    BY <1>4, Restarts
  <2>2. Final(IdOf[q]) => rec'[IdOf[q]] = rec[IdOf[q]]
    BY <1>4, <1>t, Recovers DEF Crash, Listen, Recover, Interrupted, Active, Final, Terminal
  <2>3. QED
    BY <2>1, <2>2 DEF ToldIsStored, Told, Final
<1>5. QED
  BY <1>2, <1>3, <1>4, NextSteps
-----------------------------------------------------------------------------
(* The inductive invariant                                                 *)

LEMMA InitHolds == Init => IInv
<1> SUFFICES ASSUME Init PROVE IInv
  OBVIOUS
<1>1. Absent \in Record
  BY DEF Absent, Record, Status
<1>2. TypeOK
  BY <1>1, PCs, MaxCrashesAssumption DEF Init, TypeOK, PC
<1>3. /\ OwnRecord /\ CreatorAlone /\ AnswersItsOwnRequest /\ NobodyRecovers /\ Progress
      /\ ToldIsStored
  BY DEF Init, ToldIsStored, OwnRecord, CreatorAlone, AnswersItsOwnRequest, NobodyRecovers, Progress,
         Holding, Writing
<1>4. \A id \in Ids : rec[id].status = "absent" /\ rec[id].result = None
  BY DEF Init, Absent
<1>5. NoZombieRecord /\ StatusMatchesResult /\ RecordIsOwn
  BY <1>4, ToldIsNoNone DEF NoZombieRecord, StatusMatchesResult, RecordIsOwn, Active, Terminal
<1>6. QED
  BY <1>2, <1>3, <1>5 DEF IInv

LEMMA StepHolds == IInv /\ [Next]_vars => IInv'
<1> SUFFICES ASSUME IInv, [Next]_vars PROVE IInv'
  OBVIOUS
<1>1. CASE Next
  <2>1. TypeOK'
    BY <1>1, TypeHolds DEF IInv
  <2>2. QED
    BY <1>1, <2>1, ToldHolds, OwnRecordHolds, ProgressHolds, NobodyHolds, NoZombieHolds, CreatorHolds,
       RecordIsOwnHolds, AnswersHold, StatusHolds DEF IInv
<1>2. CASE UNCHANGED vars
  BY <1>2 DEF vars, qvars, IInv, TypeOK, OwnRecord, Progress, NobodyRecovers, NoZombieRecord,
              CreatorAlone, RecordIsOwn, AnswersItsOwnRequest, StatusMatchesResult,
              ToldIsStored, Holding, Hung, Active, Final
<1>3. QED
  BY <1>1, <1>2

LEMMA Invariance == Spec => []IInv
BY InitHolds, StepHolds, PTL DEF Spec

-----------------------------------------------------------------------------

(* The rows keep to the schema and every request is at one of its          *)
(* statements, with its call in a state of pool.run.                       *)
THEOREM TypeCorrect == Spec => []TypeOK
BY Invariance, PTL DEF IInv

(* While the server is up, a queued or running record has a request that   *)
(* will end it, unless failJobRecord itself failed or the pool dropped the *)
(* call of a request for it.                                               *)
THEOREM NoZombieRecords == Spec => []NoZombieRecord
BY Invariance, PTL DEF IInv

(* The request that created a record never executes next to another one of *)
(* the same job: whoever looks later finds the record active.              *)
THEOREM CreatorsRunAlone == Spec => []CreatorRunsAlone
<1>1. IInv => CreatorRunsAlone
  BY DEF IInv, CreatorAlone, CreatorRunsAlone, Executing, Holding, Writing
<1>2. QED
  BY <1>1, Invariance, PTL

(* A reply that tells what the user's code did comes from an execution of  *)
(* the same job with the same request hash, stored or fresh.               *)
THEOREM AnswersAreOwn == Spec => []AnswersItsOwnRequest
BY Invariance, PTL DEF IInv

(* What a client was told of the user's code is what the record says, as   *)
(* long as no other request has requeued the job.                          *)
THEOREM ToldResultsAreStored == Spec => []ToldIsStored
BY Invariance, PTL DEF IInv

(* An ended record has a result and the status that goes with it, whoever  *)
(* wrote last.                                                             *)
THEOREM StatusesMatch == Spec => []StatusMatchesResult
BY Invariance, PTL DEF IInv

(* Nobody but a request under way for the job, or the recovery of an       *)
(* active record, writes a row.                                            *)
LEMMA FinalStep ==
  ASSUME IInv, [Next]_vars
  PROVE  /\ \A id \in Ids :
              Final(id) /\ (\A q \in Requests : IdOf[q] = id => pc[q] \notin UnderWay)
                => rec'[id] = rec[id]
         /\ \A q \in Requests :
              Final(IdOf[q]) /\ pc[q] = "new" => pc'[q] \in {"new", "replied"}
<1> USE DEF IInv
<1>1. ASSUME NEW id \in Ids, Final(id),
             \A q \in Requests : IdOf[q] = id => pc[q] \notin UnderWay
      PROVE  rec'[id] = rec[id]
  <2>1. ASSUME NEW q \in Requests, RequestStep(q) PROVE rec'[id] = rec[id]
    BY <1>1, <2>1, Asks, Admits, Creates, Requeues, Pools, Marks, Stops, Ends
       DEF RequestStep, Ending, UnderWay
  <2>2. ASSUME NEW i \in Ids, Recover(i) PROVE rec'[id] = rec[id]
    BY <1>1, <2>2, Recovers DEF Recover, Interrupted, Active, Final, Terminal
  <2>3. CASE Crash \/ Listen \/ UNCHANGED vars
    BY <2>3 DEF Crash, Listen, vars
  <2>4. QED
    BY <2>1, <2>2, <2>3, NextSteps
<1>2. ASSUME NEW q \in Requests, Final(IdOf[q]), pc[q] = "new"
      PROVE  pc'[q] \in {"new", "replied"}
  <2>1. ASSUME NEW p \in Requests, p # q, RequestStep(p) PROVE pc'[q] = pc[q]
    BY <2>1, Asks, Admits, Pools, Stops DEF RequestStep, Alone
  <2>2. CASE Lookup(q)
    BY <1>2, <2>2 DEF Lookup, FindNothing, FindConflict, FindResult, FindRetryable, FindActive,
                      Final, Terminal, Answered, Goto, TypeOK
  <2>3. CASE RequestStep(q) /\ ~Lookup(q)
    BY <1>2, <2>3, Admits, Pools, Stops
       DEF RequestStep, Asking, CreateCollides, StoreFailsEarly, Answered, Goto, TypeOK
  <2>4. CASE Crash \/ Listen \/ (\E i \in Ids : Recover(i)) \/ UNCHANGED vars
    BY <1>2, <2>4, Restarts DEF Crash, UnderWay, TypeOK, vars, qvars
  <2>5. QED
    BY <1>2, <2>1, <2>2, <2>3, <2>4, NextSteps
<1>3. QED
  BY <1>1, <1>2

(* A success or an error of the user's code stays as it is stored, through *)
(* crashes and recoveries, and later requests are answered from it.        *)
THEOREM FinalRecordsStay == Spec => FinalStays
<1>1. IInv /\ [Next]_vars =>
        [/\ \A id \in Ids :
              Final(id) /\ (\A q \in Requests : IdOf[q] = id => pc[q] \notin UnderWay)
                => rec'[id] = rec[id]
         /\ \A q \in Requests :
              Final(IdOf[q]) /\ pc[q] = "new" => pc'[q] \in {"new", "replied"}]_vars
  BY FinalStep
<1>2. QED
  BY <1>1, Invariance, PTL DEF Spec, FinalStays

=============================================================================

---------------------------- MODULE CodeJobsProofs ----------------------------
(***************************************************************************)
(* Proofs about CodeJobs and WorkspaceVersions, for all sets of requests,  *)
(* client ids and entries and every bound on versions and attempts: types, *)
(* that the versions of a workspace have no gap, that a client id creates  *)
(* one version, that a job keeps its bundle, that no job is left behind    *)
(* but by a fault, the budget of attempts, and what a cancel stops.        *)
(***************************************************************************)
EXTENDS CodeJobs, TLAPS, FiniteSetTheorems

-----------------------------------------------------------------------------
(* Requests                                                                *)

Where == {"new", "create", "lookup", "save", "version", "building", "persist",
          "resolve", "log"} \cup Ended
Asks == Ask \cup JobAsk \cup ControlAsk \cup WorkersAsk

ReqTypes == pc \in [Requests -> Where] /\ asked \in [Requests -> Asks \cup {None}]

(* What a request asks for whose next statement is w.                      *)
Asked(w, a) ==
  /\ w = "create" => a \in CreateAsk \cup SaveAsk
  /\ w = "lookup" => a \in SaveAsk /\ a.client # None
  /\ w = "save" => a \in SaveAsk
  /\ w \in {"version", "building", "persist"} => a \in BundleAsk
  /\ w = "resolve" => a \in JobAsk
  /\ w = "log" => a \in JobAsk \/ (a \in ControlAsk /\ a.route \in {"retry", "resume"})
WellAsked == \A r \in Requests : Asked(pc[r], asked[r])

LEMMA AskFields ==
  /\ \A a \in SaveAsk : /\ a.route \in {"draft", "publish"} /\ a.client \in ClientIds \cup {None}
                        /\ a.route = "draft" => a.target \in Versions \cup {None}
  /\ \A a \in CreateAsk : a.route = "workspace" /\ a.initial \in BOOLEAN
  /\ \A a \in BundleAsk : /\ a.route \in {"bundle", "build"} /\ a.version \in Versions
                          /\ a.entry \in Entries
  /\ \A a \in JobAsk : /\ a.route = "job" /\ a.version \in Versions /\ a.entry \in Entries
                       /\ a.runNow \in BOOLEAN
  /\ \A a \in ControlAsk : a.route \in {"retry", "resume", "cancel", "pause"} /\ a.job \in Requests
BY DEF SaveAsk, CreateAsk, BundleAsk, JobAsk, ControlAsk

LEMMA GotoFacts ==
  ASSUME ReqTypes, NEW r \in Requests, NEW w \in Where, Goto(r, w)
  PROVE  /\ pc' \in [Requests -> Where] /\ asked' \in [Requests -> Asks \cup {None}]
         /\ pc'[r] = w /\ (w \notin Ended => asked'[r] = asked[r])
         /\ \A q \in Requests : q # r => pc'[q] = pc[q] /\ asked'[q] = asked[q]
BY DEF ReqTypes, Goto

LEMMA ArrivesFacts ==
  ASSUME ReqTypes, NEW r \in Requests, NEW a \in Asks, NEW w \in Where, Arrives(r, a, w)
  PROVE  /\ pc' \in [Requests -> Where] /\ asked' \in [Requests -> Asks \cup {None}]
         /\ pc[r] = "new" /\ pc'[r] = w /\ (w \notin Ended => asked'[r] = a)
         /\ \A q \in Requests : q # r => pc'[q] = pc[q] /\ asked'[q] = asked[q]
BY DEF ReqTypes, Arrives

LEMMA GotoAsked ==
  ASSUME ReqTypes, WellAsked, NEW r \in Requests, NEW w \in Where, Goto(r, w),
         w \in Ended \/ Asked(w, asked[r])
  PROVE  ReqTypes' /\ WellAsked'
<1>1. ReqTypes'
  BY GotoFacts DEF ReqTypes
<1>2. WellAsked'
  <2>1. SUFFICES ASSUME NEW q \in Requests PROVE Asked(pc'[q], asked'[q])
    BY DEF WellAsked
  <2>2. CASE q # r
    BY <2>2, GotoFacts DEF WellAsked
  <2>3. CASE q = r /\ w \in Ended
    BY <2>3, GotoFacts DEF Asked, Ended
  <2>4. CASE q = r /\ w \notin Ended
    BY <2>4, GotoFacts
  <2>5. QED
    BY <2>2, <2>3, <2>4
<1>3. QED
  BY <1>1, <1>2

LEMMA ArrivesAsked ==
  ASSUME ReqTypes, WellAsked, NEW r \in Requests, NEW a \in Asks, NEW w \in Where,
         Arrives(r, a, w), w \in Ended \/ Asked(w, a)
  PROVE  ReqTypes' /\ WellAsked'
<1>1. ReqTypes'
  BY ArrivesFacts DEF ReqTypes
<1>2. WellAsked'
  <2>1. SUFFICES ASSUME NEW q \in Requests PROVE Asked(pc'[q], asked'[q])
    BY DEF WellAsked
  <2>2. CASE q # r
    BY <2>2, ArrivesFacts DEF WellAsked
  <2>3. CASE q = r /\ w \in Ended
    BY <2>3, ArrivesFacts DEF Asked, Ended
  <2>4. CASE q = r /\ w \notin Ended
    BY <2>4, ArrivesFacts
  <2>5. QED
    BY <2>2, <2>3, <2>4
<1>3. QED
  BY <1>1, <1>2

LEMMA VersionsStepAsked ==
  ASSUME ReqTypes, WellAsked, NEW r \in Requests, VersionsStep(r)
  PROVE  ReqTypes' /\ WellAsked'
<1>0. Asked(pc[r], asked[r])
  BY DEF WellAsked
<1>1. ASSUME NEW a \in CreateAsk, CreateWorkspace(r, a) PROVE ReqTypes' /\ WellAsked'
  <2> DEFINE w == IF current = None THEN "create" ELSE "ended"
  <2>1. w \in Where /\ a \in Asks /\ (w \in Ended \/ Asked(w, a))
    BY DEF Where, Asks, Ask, Ended, Asked
  <2>2. Arrives(r, a, w)
    BY <1>1 DEF CreateWorkspace
  <2> HIDE DEF w
  <2>3. QED
    BY <2>1, <2>2, ArrivesAsked
<1>2. ASSUME NEW a \in SaveAsk, Save(r, a) PROVE ReqTypes' /\ WellAsked'
  <2> DEFINE w == IF Found THEN LookUp(a) ELSE "create"
  <2>1. w \in Where /\ a \in Asks /\ (w \in Ended \/ Asked(w, a))
    BY DEF Where, Asks, Ask, Ended, Asked, LookUp
  <2>2. Arrives(r, a, w)
    BY <1>2 DEF Save
  <2> HIDE DEF w
  <2>3. QED
    BY <2>1, <2>2, ArrivesAsked
<1>3. ASSUME NEW a \in BundleAsk, Bundle(r, a) PROVE ReqTypes' /\ WellAsked'
  <2> DEFINE w == IF ~Found THEN "ended" ELSE IF a.route = "bundle" THEN "persist" ELSE "version"
  <2>1. w \in Where /\ a \in Asks /\ (w \in Ended \/ Asked(w, a))
    BY DEF Where, Asks, Ask, Ended, Asked
  <2>2. Arrives(r, a, w)
    BY <1>3 DEF Bundle
  <2> HIDE DEF w
  <2>3. QED
    BY <2>1, <2>2, ArrivesAsked
<1>4. CASE CreateTransaction(r)
  <2>1. Goto(r, "ended")
    BY <1>4 DEF CreateTransaction
  <2>2. QED
    BY <2>1, GotoAsked DEF Where, Ended
<1>5. CASE SaveCreates(r)
  <2> DEFINE w == LookUp(asked[r])
  <2>1. asked[r] \in SaveAsk
    BY <1>0, <1>5, AskFields DEF SaveCreates, Asked
  <2>2. w \in Where /\ Asked(w, asked[r])
    BY <2>1 DEF Where, Asked, LookUp
  <2>3. Goto(r, "ended") \/ Goto(r, w)
    BY <1>5 DEF SaveCreates
  <2> HIDE DEF w
  <2>4. QED
    BY <2>2, <2>3, GotoAsked DEF Where, Ended
<1>6. CASE LookUpClient(r)
  <2>1. Goto(r, "ended") \/ Goto(r, "save")
    BY <1>6 DEF LookUpClient
  <2>2. Asked("save", asked[r])
    BY <1>0, <1>6 DEF LookUpClient, Asked
  <2>3. QED
    BY <2>1, <2>2, GotoAsked DEF Where, Ended
<1>7. CASE DraftTransaction(r) \/ PublishTransaction(r) \/ PersistBundle(r)
  <2>1. Goto(r, "ended") \/ Goto(r, "collision")
    BY <1>7 DEF DraftTransaction, PublishTransaction, PersistBundle
  <2>2. QED
    BY <2>1, GotoAsked DEF Where, Ended
<1>8. CASE FindVersion(r) \/ Build(r)
  <2>1. Goto(r, "ended") \/ Goto(r, "building") \/ Goto(r, "persist")
    BY <1>8 DEF FindVersion, Build
  <2>2. Asked("building", asked[r]) /\ Asked("persist", asked[r])
    BY <1>0, <1>8 DEF FindVersion, Build, Asked
  <2>3. QED
    BY <2>1, <2>2, GotoAsked DEF Where, Ended
<1>9. QED
  BY <1>1, <1>2, <1>3, <1>4, <1>5, <1>6, <1>7, <1>8 DEF VersionsStep

LEMMA JobRequestStepAsked ==
  ASSUME ReqTypes, WellAsked, NEW r \in Requests, JobRequestStep(r)
  PROVE  ReqTypes' /\ WellAsked'
<1>0. Asked(pc[r], asked[r])
  BY DEF WellAsked
<1>1. ASSUME NEW a \in JobAsk, CreateJob(r, a) PROVE ReqTypes' /\ WellAsked'
  <2> DEFINE w == IF Found THEN "resolve" ELSE "ended"
  <2>1. w \in Where /\ a \in Asks /\ (w \in Ended \/ Asked(w, a))
    BY DEF Where, Asks, Ended, Asked
  <2>2. Arrives(r, a, w)
    BY <1>1 DEF CreateJob
  <2> HIDE DEF w
  <2>3. QED
    BY <2>1, <2>2, ArrivesAsked
<1>2. ASSUME NEW a \in ControlAsk, Control(r, a) PROVE ReqTypes' /\ WellAsked'
  <2> DEFINE w == IF job[a.job] # None /\ a.route \in {"retry", "resume"} THEN "log" ELSE "ended"
  <2>1. w \in Where /\ a \in Asks /\ (w \in Ended \/ Asked(w, a))
    BY DEF Where, Asks, Ended, Asked
  <2>2. Arrives(r, a, w)
    BY <1>2 DEF Control
  <2> HIDE DEF w
  <2>3. QED
    BY <2>1, <2>2, ArrivesAsked
<1>3. ASSUME NEW a \in WorkersAsk, ControlWorkers(r, a) PROVE ReqTypes' /\ WellAsked'
  <2>1. a \in Asks /\ Arrives(r, a, "ended")
    BY <1>3 DEF Asks, ControlWorkers
  <2>2. QED
    BY <2>1, ArrivesAsked DEF Where, Ended
<1>4. CASE InsertJob(r)
  <2>1. Goto(r, "ended") \/ Goto(r, "log")
    BY <1>4 DEF InsertJob
  <2>2. Asked("log", asked[r])
    BY <1>0, <1>4 DEF InsertJob, Asked
  <2>3. QED
    BY <2>1, <2>2, GotoAsked DEF Where, Ended
<1>5. CASE LogRequest(r) \/ RequestFails(r)
  <2>1. Goto(r, "ended")
    BY <1>5 DEF LogRequest, RequestFails
  <2>2. QED
    BY <2>1, GotoAsked DEF Where, Ended
<1>6. QED
  BY <1>1, <1>2, <1>3, <1>4, <1>5 DEF JobRequestStep

(* No executor touches a request.                                          *)
LEMMA ExecutorsAskNothing ==
  ASSUME NEW e \in Requests, ExecutorStep(e)
  PROVE  UNCHANGED <<rowvars, reqvars, worker>>
BY DEF ExecutorStep, FindJob, StartAttempt, Succeed, FindLatest, Requeue, Fail, LogAttempt,
       Mark, ExecutorThrows, MarkFails, OnlyJobs

LEMMA AskedStep ==
  ASSUME ReqTypes, WellAsked, [Next]_vars
  PROVE  ReqTypes' /\ WellAsked'
<1>1. CASE UNCHANGED reqvars
  BY <1>1 DEF ReqTypes, WellAsked, reqvars
<1>2. CASE Crash
  <2>1. /\ pc' = [r \in Requests |-> IF pc[r] \in {"new"} \cup Ended THEN pc[r] ELSE "ended"]
        /\ asked' = [r \in Requests |-> None]
    BY <1>2 DEF Crash
  <2>2. ReqTypes'
    BY <2>1 DEF ReqTypes, Where, Ended
  <2>3. \A r \in Requests : pc'[r] \in {"new"} \cup Ended
    BY <2>1 DEF Ended
  <2>4. WellAsked'
    BY <2>3 DEF WellAsked, Asked, Ended
  <2>5. QED
    BY <2>2, <2>4
<1>3. QED
  BY <1>1, <1>2, VersionsStepAsked, JobRequestStepAsked, ExecutorsAskNothing DEF Next, vars

-----------------------------------------------------------------------------
(* Version rows                                                            *)

RowTypes == /\ current \in 0..MaxVersion \cup {None}
            /\ rows \in [Versions -> Row \cup {None}]
            /\ replaced \subseteq ClientIds

(* The row with one more saved bundle of entry e.                          *)
Saved(row, e) == [row EXCEPT !.bundles[e] = @ + 1]

LEMMA NewRowFacts ==
  ASSUME NEW c \in ClientIds \cup {None}
  PROVE  NewRow(c) \in Row /\ NewRow(c).client = c /\ NewRow(c).born = c
BY DEF NewRow, Row

LEMMA DraftedFacts ==
  ASSUME NEW row \in Row, NEW c \in ClientIds \cup {None}
  PROVE  /\ Drafted(row, c) \in Row
         /\ Drafted(row, c).born = row.born /\ Drafted(row, c).bundles = row.bundles
         /\ Drafted(row, c).client = IF c = None THEN row.client ELSE c
BY DEF Drafted, Row

LEMMA SavedFacts ==
  ASSUME NEW row \in Row, NEW e \in Entries
  PROVE  /\ Saved(row, e) \in Row
         /\ Saved(row, e).born = row.born /\ Saved(row, e).client = row.client
         /\ Saved(row, e).bundles[e] = row.bundles[e] + 1
         /\ \A f \in Entries : f # e => Saved(row, e).bundles[f] = row.bundles[f]
<1> DEFINE b == [row.bundles EXCEPT ![e] = row.bundles[e] + 1]
<1>1. row.bundles \in [Entries -> Nat]
  BY DEF Row
<1>2. b \in [Entries -> Nat] /\ b[e] = row.bundles[e] + 1
      /\ \A f \in Entries : f # e => b[f] = row.bundles[f]
  BY <1>1
<1>3. Saved(row, e) = [row EXCEPT !.bundles = b]
  BY DEF Saved, Row
<1> HIDE DEF b
<1>4. QED
  BY <1>2, <1>3 DEF Row

(* What a step may do to the workspace and its versions.                   *)
RowBecomes(v, row) == rows' = [rows EXCEPT ![v] = row]
Founds == current = None /\ current' = 0 /\ rows' = rows /\ replaced' = replaced
FoundsWithFirst ==
  current = None /\ current' = 1 /\ RowBecomes(1, NewRow(None)) /\ replaced' = replaced
Drafts(v, c) ==
  /\ \E t \in Versions \cup {None} : v = DraftVersion([route |-> "draft", target |-> t, client |-> c])
  /\ ~Taken(c, v)
  /\ RowBecomes(v, IF rows[v] = None THEN NewRow(c) ELSE Drafted(rows[v], c))
  /\ replaced' = IF rows[v] # None /\ c # None
                 THEN replaced \cup ({rows[v].client} \ {None, c}) ELSE replaced
  /\ current' = v
Publishes(v, c) ==
  /\ current # None /\ v = NextVersion /\ rows[v] = None /\ ~Taken(c, v)
  /\ RowBecomes(v, NewRow(c)) /\ current' = v /\ replaced' = replaced
Saves(v, e) ==
  rows[v] # None /\ RowBecomes(v, Saved(rows[v], e)) /\ current' = current /\ replaced' = replaced
RowMove ==
  \/ UNCHANGED rowvars \/ Founds \/ FoundsWithFirst
  \/ \E v \in Versions : \E c \in ClientIds \cup {None} : Drafts(v, c) \/ Publishes(v, c)
  \/ \E v \in Versions : \E e \in Entries : Saves(v, e)

(* Nothing is done to a workspace that is not there.                       *)
Founded == \A r \in Requests :
  pc[r] \in {"lookup", "save", "version", "building", "persist", "resolve"} => current # None

(* A draft goes to a version: one that is there, or the first one.         *)
LEMMA LatestIsNumber == Latest \in Nat /\ Latest <= MaxVersion
<1>1. IsFiniteSet(Versions) /\ Cardinality(Versions) = MaxVersion
  BY FS_Interval, MaxVersionAssumption DEF Versions
<1>2. {v \in Versions : rows[v] # None} \subseteq Versions
  OBVIOUS
<1>3. QED
  BY <1>1, <1>2, FS_Subset, FS_CardinalityType DEF Latest

LEMMA DraftVersionIsVersion ==
  ASSUME NEW a PROVE DraftVersion(a) \in Versions
BY LatestIsNumber, MaxVersionAssumption DEF DraftVersion, Versions

LEMMA VersionsStepMovesRows ==
  ASSUME ReqTypes, WellAsked, RowTypes, Founded, NEW r \in Requests, VersionsStep(r)
  PROVE  RowMove
<1>0. Asked(pc[r], asked[r]) /\ 1 \in Versions
  BY MaxVersionAssumption DEF WellAsked, Versions
<1>1. CASE CreateTransaction(r)
  <2>1. \/ UNCHANGED rowvars
        \/ /\ current = None /\ replaced' = replaced
           /\ \/ current' = 1 /\ rows' = [rows EXCEPT ![1] = NewRow(None)]
              \/ current' = 0 /\ rows' = rows
    BY <1>1 DEF CreateTransaction
  <2>2. rows' = [rows EXCEPT ![1] = NewRow(None)] => RowBecomes(1, NewRow(None))
    BY <1>0 DEF RowTypes, RowBecomes
  <2>3. QED
    BY <2>1, <2>2 DEF RowMove, Founds, FoundsWithFirst
<1>2. CASE SaveCreates(r)
  BY <1>2 DEF SaveCreates, RowMove, Founds, rowvars
<1>3. CASE DraftTransaction(r)
  <2> DEFINE c == asked[r].client
             t == asked[r].target
             v == DraftVersion(asked[r])
  <2>1. asked[r] \in SaveAsk /\ c \in ClientIds \cup {None} /\ t \in Versions \cup {None}
    BY <1>0, <1>3, AskFields DEF DraftTransaction, Asked
  <2>2. v \in Versions /\ v = DraftVersion([route |-> "draft", target |-> t, client |-> c])
    BY DraftVersionIsVersion DEF DraftVersion
  <2>3. \/ UNCHANGED rowvars
        \/ /\ ~Taken(c, v)
           /\ rows' = [rows EXCEPT ![v] = IF rows[v] = None THEN NewRow(c) ELSE Drafted(rows[v], c)]
           /\ replaced' = IF rows[v] # None /\ c # None
                          THEN replaced \cup ({rows[v].client} \ {None, c}) ELSE replaced
           /\ current' = v
    BY <1>3 DEF DraftTransaction
  <2> HIDE DEF c, t, v
  <2>4. \/ UNCHANGED rowvars
        \/ Drafts(v, c)
    BY <2>1, <2>2, <2>3 DEF Drafts, RowBecomes, RowTypes
  <2>5. QED
    BY <2>1, <2>2, <2>4 DEF RowMove
<1>4. CASE PublishTransaction(r)
  <2> DEFINE c == asked[r].client
             v == NextVersion
  <2>1. c \in ClientIds \cup {None} /\ current # None
    BY <1>0, <1>4, AskFields DEF PublishTransaction, Asked, Founded
  <2>2. /\ v \in Versions
        /\ \/ UNCHANGED rowvars
           \/ /\ rows[v] = None /\ ~Taken(c, v)
              /\ rows' = [rows EXCEPT ![v] = NewRow(c)]
              /\ current' = v /\ replaced' = replaced
    BY <1>4 DEF PublishTransaction
  <2>3. v = NextVersion
    OBVIOUS
  <2> HIDE DEF c, v
  <2>4. UNCHANGED rowvars \/ Publishes(v, c)
    BY <2>1, <2>2, <2>3 DEF Publishes, RowBecomes, RowTypes
  <2>5. QED
    BY <2>1, <2>2, <2>4 DEF RowMove
<1>5. CASE PersistBundle(r)
  <2> DEFINE v == asked[r].version
             e == asked[r].entry
  <2>1. v \in Versions /\ e \in Entries
    BY <1>0, <1>5, AskFields DEF PersistBundle, Asked
  <2>2. \/ UNCHANGED rowvars
        \/ /\ rows[v] # None /\ current' = current /\ replaced' = replaced
           /\ rows' = [rows EXCEPT ![v].bundles[e] = @ + 1]
    BY <1>5 DEF PersistBundle, rowvars
  <2> HIDE DEF v, e
  <2>3. [rows EXCEPT ![v].bundles[e] = @ + 1] = [rows EXCEPT ![v] = Saved(rows[v], e)]
    BY DEF Saved
  <2>4. UNCHANGED rowvars \/ Saves(v, e)
    BY <2>1, <2>2, <2>3 DEF Saves, RowBecomes, RowTypes
  <2>5. QED
    BY <2>1, <2>4 DEF RowMove
<1>6. QED
  BY <1>1, <1>2, <1>3, <1>4, <1>5
     DEF VersionsStep, RowMove, CreateWorkspace, Save, Bundle, Arrives, LookUpClient, FindVersion,
         Build

LEMMA StepMovesRows ==
  ASSUME ReqTypes, WellAsked, RowTypes, Founded, [Next]_vars
  PROVE  RowMove
<1>1. ASSUME NEW r \in Requests, JobRequestStep(r) PROVE UNCHANGED rowvars
  BY <1>1 DEF JobRequestStep, CreateJob, Control, ControlWorkers, Arrives, InsertJob, LogRequest,
              RequestFails
<1>2. CASE Crash \/ UNCHANGED vars
  BY <1>2 DEF Crash, vars, RowMove
<1>3. QED
  BY <1>1, <1>2, VersionsStepMovesRows, ExecutorsAskNothing DEF Next, RowMove

LEMMA RowBecomesFacts ==
  ASSUME RowTypes, NEW v \in Versions, NEW row, RowBecomes(v, row)
  PROVE  /\ rows'[v] = row /\ \A u \in Versions : u # v => rows'[u] = rows[u]
         /\ row \in Row => rows' \in [Versions -> Row \cup {None}]
BY DEF RowTypes, RowBecomes

LEMMA RowTypesStep ==
  ASSUME RowTypes, RowMove
  PROVE  RowTypes' /\ (current # None => current' # None)
<1>0. /\ 1 \in Versions /\ 0 # None /\ Versions \subseteq 0..MaxVersion /\ None \notin Versions
      /\ 0 \in 0..MaxVersion
  BY MaxVersionAssumption, NoneAssumption DEF Versions
<1>1. CASE UNCHANGED rowvars \/ Founds
  BY <1>0, <1>1 DEF rowvars, Founds, RowTypes
<1>2. CASE FoundsWithFirst
  BY <1>0, <1>2, NewRowFacts, RowBecomesFacts DEF FoundsWithFirst, RowTypes
<1>3. ASSUME NEW v \in Versions, NEW c \in ClientIds \cup {None}, Drafts(v, c)
      PROVE  RowTypes' /\ current' # None
  <2> DEFINE row == IF rows[v] = None THEN NewRow(c) ELSE Drafted(rows[v], c)
  <2>1. row \in Row
    BY NewRowFacts, DraftedFacts DEF RowTypes
  <2>2. RowBecomes(v, row) /\ current' = v
    BY <1>3 DEF Drafts
  <2> HIDE DEF row
  <2>3. rows' \in [Versions -> Row \cup {None}]
    BY <2>1, <2>2, RowBecomesFacts
  <2>4. replaced' \subseteq ClientIds
    <3>1. rows[v] # None => rows[v].client \in ClientIds \cup {None}
      BY DEF RowTypes, Row
    <3>2. QED
      BY <1>3, <3>1 DEF Drafts, RowTypes
  <2>5. QED
    BY <1>0, <2>2, <2>3, <2>4 DEF RowTypes
<1>4. ASSUME NEW v \in Versions, NEW c \in ClientIds \cup {None}, Publishes(v, c)
      PROVE  RowTypes' /\ current' # None
  <2>1. NewRow(c) \in Row /\ RowBecomes(v, NewRow(c)) /\ current' = v /\ replaced' = replaced
    BY <1>4, NewRowFacts DEF Publishes
  <2>2. rows' \in [Versions -> Row \cup {None}]
    BY <2>1, RowBecomesFacts
  <2>3. QED
    BY <1>0, <2>1, <2>2 DEF RowTypes
<1>5. ASSUME NEW v \in Versions, NEW e \in Entries, Saves(v, e)
      PROVE  RowTypes' /\ current' = current
  <2>1. Saved(rows[v], e) \in Row
    BY <1>5, SavedFacts DEF Saves, RowTypes
  <2>2. rows' \in [Versions -> Row \cup {None}]
    BY <1>5, <2>1, RowBecomesFacts DEF Saves
  <2>3. QED
    BY <1>5, <2>2 DEF Saves, RowTypes
<1>6. QED
  BY <1>1, <1>2, <1>3, <1>4, <1>5 DEF RowMove, rowvars

(* The workspace is there for what goes on with it.                        *)
NeedsWorkspace == {"lookup", "save", "version", "building", "persist", "resolve"}

LEMMA GotoFounded ==
  ASSUME ReqTypes, Founded, current # None => current' # None, NEW r \in Requests,
         NEW w \in Where, Goto(r, w), w \in NeedsWorkspace => current' # None
  PROVE  Founded'
BY GotoFacts DEF Founded, NeedsWorkspace

LEMMA ArrivesFounded ==
  ASSUME ReqTypes, Founded, NEW r \in Requests, NEW a \in Asks, NEW w \in Where,
         Arrives(r, a, w), w \in NeedsWorkspace => current # None
  PROVE  Founded'
<1>1. current' = current
  BY DEF Arrives, rowvars
<1>2. QED
  BY <1>1, ArrivesFacts DEF Founded, NeedsWorkspace

LEMMA VersionsStepFounded ==
  ASSUME ReqTypes, WellAsked, Founded, current # None => current' # None,
         NEW r \in Requests, VersionsStep(r)
  PROVE  Founded'
<1>1. ASSUME NEW a \in CreateAsk, CreateWorkspace(r, a) PROVE Founded'
  <2>1. a \in Asks /\ (Arrives(r, a, "create") \/ Arrives(r, a, "ended"))
    BY <1>1 DEF Asks, Ask, CreateWorkspace
  <2>2. QED
    BY <2>1, ArrivesFounded DEF Where, Ended, NeedsWorkspace
<1>2. ASSUME NEW a \in SaveAsk, Save(r, a) PROVE Founded'
  <2>1. /\ a \in Asks
        /\ Arrives(r, a, "create") \/ (current # None /\ (Arrives(r, a, "save") \/ Arrives(r, a, "lookup")))
    BY <1>2 DEF Asks, Ask, Save, Found, LookUp
  <2>2. QED
    BY <2>1, ArrivesFounded DEF Where, NeedsWorkspace
<1>3. ASSUME NEW a \in BundleAsk, Bundle(r, a) PROVE Founded'
  <2> DEFINE w == IF ~Found THEN "ended" ELSE IF a.route = "bundle" THEN "persist" ELSE "version"
  <2>1. w \in {"ended", "persist", "version"} /\ (w # "ended" => current # None)
    BY DEF Found
  <2>2. a \in Asks /\ Arrives(r, a, w)
    BY <1>3 DEF Asks, Ask, Bundle
  <2> HIDE DEF w
  <2>3. QED
    BY <2>1, <2>2, ArrivesFounded DEF Where, Ended, NeedsWorkspace
<1>4. CASE SaveCreates(r)
  <2>1. Goto(r, "ended") \/ (current' = 0 /\ (Goto(r, "save") \/ Goto(r, "lookup")))
    BY <1>4 DEF SaveCreates, LookUp
  <2>2. 0 # None
    BY MaxVersionAssumption, NoneAssumption
  <2>3. QED
    BY <2>1, <2>2, GotoFounded DEF Where, Ended, NeedsWorkspace
<1>5. CASE LookUpClient(r) \/ FindVersion(r) \/ Build(r)
  <2>1. current' # None
    BY <1>5 DEF LookUpClient, FindVersion, Build, Founded
  <2>2. Goto(r, "ended") \/ Goto(r, "save") \/ Goto(r, "building") \/ Goto(r, "persist")
    BY <1>5 DEF LookUpClient, FindVersion, Build
  <2>3. QED
    BY <2>1, <2>2, GotoFounded DEF Where, Ended
<1>6. CASE CreateTransaction(r) \/ DraftTransaction(r) \/ PublishTransaction(r) \/ PersistBundle(r)
  <2>1. Goto(r, "ended") \/ Goto(r, "collision")
    BY <1>6 DEF CreateTransaction, DraftTransaction, PublishTransaction, PersistBundle
  <2>2. QED
    BY <2>1, GotoFounded DEF Where, Ended, NeedsWorkspace
<1>7. QED
  BY <1>1, <1>2, <1>3, <1>4, <1>5, <1>6 DEF VersionsStep

LEMMA JobRequestStepFounded ==
  ASSUME ReqTypes, Founded, current # None => current' # None,
         NEW r \in Requests, JobRequestStep(r)
  PROVE  Founded'
<1>1. ASSUME NEW a \in JobAsk, CreateJob(r, a) PROVE Founded'
  <2>1. a \in Asks /\ (Arrives(r, a, "ended") \/ (current # None /\ Arrives(r, a, "resolve")))
    BY <1>1 DEF Asks, CreateJob, Found
  <2>2. QED
    BY <2>1, ArrivesFounded DEF Where, Ended, NeedsWorkspace
<1>2. ASSUME NEW a \in ControlAsk, Control(r, a) PROVE Founded'
  <2>1. a \in Asks /\ (Arrives(r, a, "ended") \/ Arrives(r, a, "log"))
    BY <1>2 DEF Asks, Control
  <2>2. QED
    BY <2>1, ArrivesFounded DEF Where, Ended, NeedsWorkspace
<1>3. ASSUME NEW a \in WorkersAsk, ControlWorkers(r, a) PROVE Founded'
  <2>1. a \in Asks /\ Arrives(r, a, "ended")
    BY <1>3 DEF Asks, ControlWorkers
  <2>2. QED
    BY <2>1, ArrivesFounded DEF Where, Ended, NeedsWorkspace
<1>4. CASE InsertJob(r) \/ LogRequest(r) \/ RequestFails(r)
  <2>1. Goto(r, "ended") \/ Goto(r, "log")
    BY <1>4 DEF InsertJob, LogRequest, RequestFails
  <2>2. QED
    BY <2>1, GotoFounded DEF Where, Ended, NeedsWorkspace
<1>5. QED
  BY <1>1, <1>2, <1>3, <1>4 DEF JobRequestStep

LEMMA FoundedStep ==
  ASSUME ReqTypes, WellAsked, Founded, current # None => current' # None, [Next]_vars
  PROVE  Founded'
<1>1. CASE UNCHANGED <<current, pc>>
  BY <1>1 DEF Founded
<1>2. CASE Crash
  <2>1. /\ pc' = [r \in Requests |-> IF pc[r] \in {"new"} \cup Ended THEN pc[r] ELSE "ended"]
    BY <1>2 DEF Crash
  <2>2. QED
    BY <2>1 DEF Founded, Ended
<1>3. QED
  BY <1>1, <1>2, VersionsStepFounded, JobRequestStepFounded, ExecutorsAskNothing
     DEF Next, vars, rowvars, reqvars

-----------------------------------------------------------------------------
(* Versions without a gap                                                  *)

RowsContiguous ==
  /\ current = None => Latest = 0
  /\ \A v \in Versions : (rows[v] # None) <=> v <= Latest
  /\ current # None => current <= Latest /\ (current = 0 => Latest = 0)
NoCollision == \A r \in Requests : pc[r] # "collision"

LEMMA LatestStays ==
  ASSUME \A v \in Versions : rows'[v] # None <=> rows[v] # None
  PROVE  Latest' = Latest
<1>1. {v \in Versions : rows'[v] # None} = {v \in Versions : rows[v] # None}
  OBVIOUS
<1>2. QED
  BY <1>1 DEF Latest, Versions

LEMMA LatestGrows ==
  ASSUME NEW v \in Versions, rows[v] = None, rows'[v] # None,
         \A u \in Versions : u # v => rows'[u] = rows[u]
  PROVE  Latest' = Latest + 1
<1> DEFINE S == {u \in Versions : rows[u] # None}
           T == {u \in Versions : rows'[u] # None}
<1>1. T = S \cup {v} /\ v \notin S
  OBVIOUS
<1>2. IsFiniteSet(S)
  <2>1. IsFiniteSet(Versions) /\ S \subseteq Versions
    BY FS_Interval, MaxVersionAssumption DEF Versions
  <2> HIDE DEF S
  <2>2. QED
    BY <2>1, FS_Subset
<1> HIDE DEF S, T
<1>3. Cardinality(T) = Cardinality(S) + 1
  BY <1>1, <1>2, FS_AddElement
<1>4. QED
  BY <1>3 DEF S, T, Latest, Versions

(* The next version is the one after the latest, whichever is current.     *)
LEMMA NextIsAfterLatest ==
  ASSUME RowTypes, RowsContiguous, current # None
  PROVE  NextVersion = Latest + 1
BY LatestIsNumber DEF RowTypes, RowsContiguous, NextVersion

(* The first row there is.                                                 *)
LEMMA FirstRow ==
  ASSUME RowTypes, RowsContiguous, Latest = 0, NEW row \in Row, RowBecomes(1, row), current' = 1
  PROVE  RowsContiguous'
<1>1. 1 \in Versions /\ \A v \in Versions : v \in Nat /\ v >= 1
  BY MaxVersionAssumption DEF Versions
<1>2. rows'[1] # None /\ \A u \in Versions : u # 1 => rows'[u] = rows[u]
  BY <1>1, RowBecomesFacts, NoRowAssumption
<1>3. \A v \in Versions : rows[v] = None
  BY <1>1 DEF RowsContiguous
<1>4. Latest' = 1
  BY <1>1, <1>2, <1>3, LatestGrows
<1>5. \A v \in Versions : (rows'[v] # None) <=> v <= 1
  BY <1>1, <1>2, <1>3
<1>6. current' # None
  BY MaxVersionAssumption, NoneAssumption
<1>7. QED
  BY <1>4, <1>5, <1>6 DEF RowsContiguous, Versions

LEMMA ContiguousStep ==
  ASSUME RowTypes, RowsContiguous, RowMove
  PROVE  RowsContiguous'
<1>0. Latest \in Nat /\ (\A v \in Versions : v \in Nat /\ v >= 1 /\ v # None) /\ 0 # None
  BY LatestIsNumber, MaxVersionAssumption, NoneAssumption DEF Versions
<1>1. CASE UNCHANGED rowvars \/ Founds
  <2>1. rows' = rows /\ Latest' = Latest
    BY <1>1, LatestStays DEF rowvars, Founds
  <2>2. QED
    BY <1>0, <1>1, <2>1 DEF rowvars, Founds, RowsContiguous, Versions
<1>2. CASE FoundsWithFirst
  BY <1>2, FirstRow, NewRowFacts DEF FoundsWithFirst, RowsContiguous
<1>3. ASSUME NEW v \in Versions, NEW c \in ClientIds \cup {None}, Drafts(v, c)
      PROVE  RowsContiguous'
  <2> DEFINE row == IF rows[v] = None THEN NewRow(c) ELSE Drafted(rows[v], c)
  <2>1. row \in Row
    BY NewRowFacts, DraftedFacts DEF RowTypes
  <2>2. RowBecomes(v, row) /\ current' = v
    BY <1>3 DEF Drafts
  <2> HIDE DEF row
  <2>3. CASE rows[v] = None
    <3>1. Latest = 0 /\ v = 1
      <4>1. PICK t \in Versions \cup {None} :
              v = DraftVersion([route |-> "draft", target |-> t, client |-> c])
        BY <1>3 DEF Drafts
      <4>2. Latest > 0 => Latest \in Versions /\ rows[Latest] # None
        BY LatestIsNumber DEF RowsContiguous, Versions
      <4>3. v = IF Latest > 0 THEN Latest ELSE 1
        BY <2>3, <4>1 DEF DraftVersion
      <4>4. QED
        BY <1>0, <2>3, <4>2, <4>3
    <3>2. QED
      BY <2>1, <2>2, <3>1, FirstRow
  <2>4. CASE rows[v] # None
    <3>1. \A u \in Versions : rows'[u] # None <=> rows[u] # None
      BY <2>1, <2>2, <2>4, RowBecomesFacts, NoRowAssumption
    <3>2. Latest' = Latest
      BY <3>1, LatestStays
    <3>3. v <= Latest
      BY <2>4 DEF RowsContiguous
    <3>4. QED
      BY <1>0, <2>2, <3>1, <3>2, <3>3 DEF RowsContiguous, Versions
  <2>5. QED
    BY <2>3, <2>4
<1>4. ASSUME NEW v \in Versions, NEW c \in ClientIds \cup {None}, Publishes(v, c)
      PROVE  RowsContiguous'
  <2>1. /\ v = Latest + 1 /\ rows[v] = None /\ current' = v
        /\ NewRow(c) \in Row /\ RowBecomes(v, NewRow(c))
    BY <1>4, NextIsAfterLatest, NewRowFacts DEF Publishes
  <2>2. rows'[v] # None /\ \A u \in Versions : u # v => rows'[u] = rows[u]
    BY <2>1, RowBecomesFacts, NoRowAssumption
  <2>3. Latest' = Latest + 1
    BY <2>1, <2>2, LatestGrows
  <2>4. \A u \in Versions : (rows'[u] # None) <=> u <= Latest + 1
    <3>1. TAKE u \in Versions
    <3>2. CASE u = v
      BY <1>0, <2>1, <2>2, <3>2
    <3>3. CASE u # v
      BY <1>0, <2>1, <2>2, <3>3 DEF RowsContiguous
    <3>4. QED
      BY <3>2, <3>3
  <2>5. QED
    BY <1>0, <2>1, <2>3, <2>4 DEF RowsContiguous, Versions
<1>5. ASSUME NEW v \in Versions, NEW e \in Entries, Saves(v, e)
      PROVE  RowsContiguous'
  <2>1. rows[v] # None /\ Saved(rows[v], e) \in Row /\ RowBecomes(v, Saved(rows[v], e))
        /\ current' = current
    BY <1>5, SavedFacts DEF Saves, RowTypes
  <2>2. \A u \in Versions : rows'[u] # None <=> rows[u] # None
    BY <2>1, RowBecomesFacts, NoRowAssumption
  <2>3. Latest' = Latest
    BY <2>2, LatestStays
  <2>4. QED
    BY <2>1, <2>2, <2>3 DEF RowsContiguous, Versions
<1>6. QED
  BY <1>1, <1>2, <1>3, <1>4, <1>5 DEF RowMove

(* Only a publish looks for a collision, and finds none.                   *)
LEMMA GotoNoCollision ==
  ASSUME ReqTypes, NoCollision, NEW r \in Requests, NEW w \in Where, Goto(r, w), w # "collision"
  PROVE  NoCollision'
BY GotoFacts DEF NoCollision

LEMMA ArrivesNoCollision ==
  ASSUME ReqTypes, NoCollision, NEW r \in Requests, NEW a, NEW w, Arrives(r, a, w),
         w # "collision"
  PROVE  NoCollision'
BY DEF NoCollision, Arrives, ReqTypes

LEMMA CollisionStep ==
  ASSUME ReqTypes, RowTypes, Founded, RowsContiguous, NoCollision, [Next]_vars
  PROVE  NoCollision'
<1>1. CASE UNCHANGED pc
  BY <1>1 DEF NoCollision
<1>2. CASE Crash
  BY <1>2 DEF Crash, NoCollision
<1>3. ASSUME NEW r \in Requests, VersionsStep(r) PROVE NoCollision'
  <2>1. CASE PublishTransaction(r)
    <3>1. current # None /\ NextVersion \in Versions
      BY <2>1 DEF PublishTransaction, Founded
    <3>2. NextVersion = Latest + 1
      BY <3>1, NextIsAfterLatest
    <3>3. rows[NextVersion] = None
      BY <3>1, <3>2, LatestIsNumber DEF RowsContiguous
    <3>4. Goto(r, "ended")
      BY <2>1, <3>3 DEF PublishTransaction
    <3>5. QED
      BY <3>4, GotoNoCollision DEF Where, Ended
  <2>2. CASE \/ CreateTransaction(r) \/ SaveCreates(r) \/ LookUpClient(r) \/ DraftTransaction(r)
             \/ FindVersion(r) \/ Build(r) \/ PersistBundle(r)
    <3>1. \E w \in Where \ {"collision"} : Goto(r, w)
      <4>1. \/ Goto(r, "ended") \/ Goto(r, "save") \/ Goto(r, "lookup") \/ Goto(r, "building")
            \/ Goto(r, "persist")
        BY <2>2 DEF CreateTransaction, SaveCreates, LookUp, LookUpClient, DraftTransaction,
                    FindVersion, Build, PersistBundle
      <4>2. QED
        BY <4>1 DEF Where, Ended
    <3>2. QED
      BY <3>1, GotoNoCollision
  <2>3. ASSUME NEW a, CreateWorkspace(r, a) \/ Save(r, a) \/ Bundle(r, a) PROVE NoCollision'
    <3>1. \E w : w # "collision" /\ Arrives(r, a, w)
      BY <2>3 DEF CreateWorkspace, Save, LookUp, Bundle
    <3>2. QED
      BY <3>1, ArrivesNoCollision
  <2>4. QED
    BY <1>3, <2>1, <2>2, <2>3 DEF VersionsStep
<1>4. ASSUME NEW r \in Requests, JobRequestStep(r) PROVE NoCollision'
  <2>1. CASE InsertJob(r) \/ LogRequest(r) \/ RequestFails(r)
    <3>1. Goto(r, "ended") \/ Goto(r, "log")
      BY <2>1 DEF InsertJob, LogRequest, RequestFails
    <3>2. QED
      BY <3>1, GotoNoCollision DEF Where, Ended
  <2>2. ASSUME NEW a, CreateJob(r, a) \/ Control(r, a) \/ ControlWorkers(r, a) PROVE NoCollision'
    <3>1. \E w : w # "collision" /\ Arrives(r, a, w)
      BY <2>2 DEF CreateJob, Control, ControlWorkers
    <3>2. QED
      BY <3>1, ArrivesNoCollision
  <2>3. QED
    BY <1>4, <2>1, <2>2 DEF JobRequestStep
<1>5. QED
  BY <1>1, <1>2, <1>3, <1>4, ExecutorsAskNothing DEF Next, vars, reqvars

(* The invariant behind the theorems about versions.                       *)
WInv == ReqTypes /\ WellAsked /\ RowTypes /\ Founded /\ RowsContiguous /\ NoCollision

LEMMA VersionsInit == Init => WInv
<1> SUFFICES ASSUME Init PROVE WInv
  OBVIOUS
<1>0. /\ 1 \in Versions /\ (\A v \in Versions : v \in Nat /\ v >= 1)
      /\ 1 \in 0..MaxVersion /\ 1 # None
  BY MaxVersionAssumption, NoneAssumption DEF Versions
<1>1. /\ pc = [r \in Requests |-> "new"] /\ asked = [r \in Requests |-> None] /\ replaced = {}
  BY DEF Init, InitVersions
<1>2. ReqTypes
  BY <1>1 DEF ReqTypes, Where
<1>3. WellAsked /\ Founded /\ NoCollision
  BY <1>1 DEF WellAsked, Asked, Founded, NoCollision
<1>4. CASE current = None /\ rows = [v \in Versions |-> None]
  <2>1. {v \in Versions : rows[v] # None} = {}
    BY <1>4
  <2>2. Latest = 0
    BY <2>1, FS_EmptySet DEF Latest
  <2>3. QED
    BY <1>0, <1>1, <1>2, <1>3, <1>4, <2>2 DEF WInv, RowTypes, RowsContiguous
<1>5. ASSUME current = 1, NEW b \in [Entries -> 0..1],
             rows = [v \in Versions |-> IF v = 1 THEN [NewRow(None) EXCEPT !.bundles = b] ELSE None]
      PROVE  WInv
  <2> DEFINE row == [NewRow(None) EXCEPT !.bundles = b]
  <2>1. row \in Row
    BY DEF NewRow, Row
  <2> HIDE DEF row
  <2>2. rows = [v \in Versions |-> IF v = 1 THEN row ELSE None] /\ row # None
    BY <1>5, <2>1, NoRowAssumption DEF row
  <2>3. {v \in Versions : rows[v] # None} = {1}
    BY <1>0, <2>2
  <2>4. Latest = 1
    BY <2>3, FS_Singleton DEF Latest
  <2>5. RowTypes
    BY <1>0, <1>1, <1>5, <2>1, <2>2 DEF RowTypes
  <2>6. RowsContiguous
    BY <1>0, <1>5, <2>2, <2>4 DEF RowsContiguous
  <2>7. QED
    BY <1>2, <1>3, <2>5, <2>6 DEF WInv
<1>6. QED
  BY <1>4, <1>5 DEF Init, InitVersions

LEMMA VersionsStepInv == WInv /\ [Next]_vars => WInv' /\ RowMove
<1> SUFFICES ASSUME WInv, [Next]_vars PROVE WInv' /\ RowMove
  OBVIOUS
<1>1. RowMove
  BY StepMovesRows DEF WInv
<1>2. RowTypes' /\ (current # None => current' # None)
  BY <1>1, RowTypesStep DEF WInv
<1>3. QED
  BY <1>1, <1>2, AskedStep, FoundedStep, ContiguousStep, CollisionStep DEF WInv

(* The versions are 1 to the latest, whatever drafts have made the current *)
(* one and however many publishes are under way, and no publish finds its  *)
(* number taken.                                                           *)
THEOREM VersionsWithoutGap == Spec => []VersionsContiguous
<1>1. WInv => VersionsContiguous
  BY DEF WInv, RowsContiguous, NoCollision, VersionsContiguous
<1>2. QED
  BY <1>1, VersionsInit, VersionsStepInv, PTL DEF Spec

-----------------------------------------------------------------------------
(* One version for a client id                                             *)

(* A row still has the client id it was created with, or a draft has       *)
(* replaced that one and the history says so.                              *)
BornKnown == \A v \in Versions : rows[v] # None /\ rows[v].born # None =>
               rows[v].client = rows[v].born \/ rows[v].born \in replaced

LEMMA NewRowOnce ==
  ASSUME RowTypes, OncePerClientId, BornKnown, NEW v \in Versions, NEW c \in ClientIds \cup {None},
         RowBecomes(v, NewRow(c)), ~Taken(c, v), replaced' = replaced
  PROVE  OncePerClientId' /\ BornKnown'
<1>1. /\ rows'[v].born = c /\ rows'[v].client = c
      /\ \A u \in Versions : u # v => rows'[u] = rows[u]
  BY NewRowFacts, RowBecomesFacts
<1>2. BornKnown'
  BY <1>1 DEF BornKnown, Versions
<1>3. ASSUME NEW u \in Versions, u # v, rows[u] # None, rows[u].born = c, c # None
      PROVE  c \in replaced
  <2>1. rows[u].client # c
    BY <1>3 DEF Taken, Holders
  <2>2. QED
    BY <1>3, <2>1 DEF BornKnown
<1>4. OncePerClientId'
  <2>1. SUFFICES ASSUME NEW u \in Versions, NEW w \in Versions, rows'[u] # None, rows'[w] # None,
                        rows'[u].born # None, rows'[u].born = rows'[w].born, u # w
                 PROVE  rows'[u].born \in replaced
    BY DEF OncePerClientId, Versions
  <2>2. CASE u # v /\ w # v
    BY <1>1, <2>1, <2>2 DEF OncePerClientId
  <2>3. CASE u = v
    BY <1>1, <1>3, <2>1, <2>3
  <2>4. CASE w = v
    BY <1>1, <1>3, <2>1, <2>4
  <2>5. QED
    BY <2>2, <2>3, <2>4
<1>5. QED
  BY <1>2, <1>4

LEMMA OnceStep ==
  ASSUME RowTypes, RowsContiguous, OncePerClientId, BornKnown, RowMove
  PROVE  OncePerClientId' /\ BornKnown'
<1>1. CASE UNCHANGED rowvars \/ Founds
  BY <1>1 DEF rowvars, Founds, OncePerClientId, BornKnown, Versions
<1>2. CASE FoundsWithFirst
  <2>1. 1 \in Versions /\ ~Taken(None, 1)
    BY MaxVersionAssumption DEF Versions, Taken
  <2>2. QED
    BY <1>2, <2>1, NewRowOnce DEF FoundsWithFirst
<1>3. ASSUME NEW v \in Versions, NEW c \in ClientIds \cup {None}, Drafts(v, c)
      PROVE  OncePerClientId' /\ BornKnown'
  <2>1. CASE rows[v] = None
    BY <1>3, <2>1, NewRowOnce DEF Drafts
  <2>2. CASE rows[v] # None
    <3>1. /\ rows'[v].born = rows[v].born
          /\ rows'[v].client = IF c = None THEN rows[v].client ELSE c
          /\ \A u \in Versions : u # v => rows'[u] = rows[u]
      BY <1>3, <2>2, DraftedFacts, RowBecomesFacts DEF Drafts, RowTypes
    <3>2. replaced \subseteq replaced'
          /\ (c # None => {rows[v].client} \ {None, c} \subseteq replaced')
      BY <1>3, <2>2 DEF Drafts
    <3>3. OncePerClientId'
      BY <2>2, <3>1, <3>2 DEF OncePerClientId, Versions
    <3>4. BornKnown'
      <4>1. SUFFICES ASSUME NEW u \in Versions, rows'[u] # None, rows'[u].born # None
                     PROVE  rows'[u].client = rows'[u].born \/ rows'[u].born \in replaced'
        BY DEF BornKnown, Versions
      <4>2. CASE u # v
        BY <3>1, <3>2, <4>1, <4>2 DEF BornKnown
      <4>3. CASE u = v
        <5>1. rows[v].client = rows[v].born \/ rows[v].born \in replaced
          BY <2>2, <3>1, <4>1, <4>3 DEF BornKnown
        <5>2. QED
          BY <3>1, <3>2, <4>1, <4>3, <5>1
      <4>4. QED
        BY <4>2, <4>3
    <3>5. QED
      BY <3>3, <3>4
  <2>3. QED
    BY <2>1, <2>2
<1>4. ASSUME NEW v \in Versions, NEW c \in ClientIds \cup {None}, Publishes(v, c)
      PROVE  OncePerClientId' /\ BornKnown'
  BY <1>4, NewRowOnce DEF Publishes
<1>5. ASSUME NEW v \in Versions, NEW e \in Entries, Saves(v, e)
      PROVE  OncePerClientId' /\ BornKnown'
  <2>1. /\ rows[v] # None /\ rows'[v].born = rows[v].born /\ rows'[v].client = rows[v].client
        /\ \A u \in Versions : u # v => rows'[u] = rows[u]
    BY <1>5, SavedFacts, RowBecomesFacts DEF Saves, RowTypes
  <2>2. replaced' = replaced
    BY <1>5 DEF Saves
  <2>3. QED
    BY <2>1, <2>2 DEF OncePerClientId, BornKnown, Versions
<1>6. QED
  BY <1>1, <1>2, <1>3, <1>4, <1>5 DEF RowMove

(* Concurrent and retried requests with one client id create one version,  *)
(* unless a draft has put its own id in that row.  It rests on BornKnown:  *)
(* the unique key only compares the ids the rows have now.                 *)
THEOREM ClientIdCreatesOnce == Spec => []OncePerClientId
<1>1. Init => OncePerClientId /\ BornKnown
  BY DEF Init, InitVersions, OncePerClientId, BornKnown, NewRow
<1>2. WInv /\ OncePerClientId /\ BornKnown /\ [Next]_vars => (WInv /\ OncePerClientId /\ BornKnown)'
  BY VersionsStepInv, OnceStep DEF WInv
<1>3. QED
  BY <1>1, <1>2, VersionsInit, PTL DEF Spec

(* No row and no bundle ever goes away.                                    *)
RowsGrow == \A v \in Versions : rows[v] # None =>
              /\ rows'[v] # None
              /\ \A e \in Entries : rows[v].bundles[e] <= rows'[v].bundles[e]

LEMMA RowsOnlyGrow ==
  ASSUME RowTypes, RowsContiguous, RowMove
  PROVE  RowsGrow
<1>0. \A v \in Versions : rows[v] # None => \A e \in Entries : rows[v].bundles[e] \in Nat
  BY DEF RowTypes, Row
<1>1. CASE UNCHANGED rowvars \/ Founds
  BY <1>0, <1>1 DEF rowvars, Founds, RowsGrow
<1>2. CASE FoundsWithFirst
  <2>1. \A v \in Versions : rows[v] = None
    BY <1>2 DEF FoundsWithFirst, RowsContiguous, Versions
  <2>2. QED
    BY <2>1 DEF RowsGrow
<1>3. ASSUME NEW v \in Versions, NEW c \in ClientIds \cup {None}, Drafts(v, c)
      PROVE  RowsGrow
  <2>1. \A u \in Versions : u # v => rows'[u] = rows[u]
    BY <1>3, RowBecomesFacts DEF Drafts
  <2>2. rows[v] # None => rows'[v] # None /\ rows'[v].bundles = rows[v].bundles
    BY <1>3, DraftedFacts, RowBecomesFacts, NoRowAssumption DEF Drafts, RowTypes
  <2>3. QED
    BY <1>0, <2>1, <2>2 DEF RowsGrow
<1>4. ASSUME NEW v \in Versions, NEW c \in ClientIds \cup {None}, Publishes(v, c)
      PROVE  RowsGrow
  <2>1. rows[v] = None /\ \A u \in Versions : u # v => rows'[u] = rows[u]
    BY <1>4, RowBecomesFacts DEF Publishes
  <2>2. QED
    BY <1>0, <2>1 DEF RowsGrow
<1>5. ASSUME NEW v \in Versions, NEW e \in Entries, Saves(v, e)
      PROVE  RowsGrow
  <2>1. /\ \A u \in Versions : u # v => rows'[u] = rows[u]
        /\ rows'[v] # None /\ rows'[v].bundles[e] = rows[v].bundles[e] + 1
        /\ \A f \in Entries : f # e => rows'[v].bundles[f] = rows[v].bundles[f]
    BY <1>5, SavedFacts, RowBecomesFacts, NoRowAssumption DEF Saves, RowTypes
  <2>2. rows[v] # None
    BY <1>5 DEF Saves
  <2>3. QED
    BY <1>0, <2>1, <2>2 DEF RowsGrow
<1>6. QED
  BY <1>1, <1>2, <1>3, <1>4, <1>5 DEF RowMove

-----------------------------------------------------------------------------
(* Jobs and executors                                                      *)

JobTypes == /\ job \in [Requests -> Job \cup {None}]
            /\ orphan \subseteq Requests
            /\ worker \in {None, "idle", "paused", "offline"}
            /\ exec \in [Requests -> Exec]

(* An executor that was started has a job.                                 *)
Staffed == \A e \in Requests :
  /\ exec[e].at = "none" => exec[e] = Idle
  /\ exec[e].at # "none" => exec[e].job \in Requests /\ job[exec[e].job] # None

(* A request that has not ended has started no executor, one that has not  *)
(* inserted its job has none, and one that is about to start an executor   *)
(* has it for a job.                                                       *)
Fresh == \A r \in Requests :
  /\ pc[r] \notin Ended => exec[r] = Idle
  /\ pc[r] \notin Ended \cup {"log"} => job[r] = None
  /\ pc[r] = "log" => JobOf(r) \in Requests /\ job[JobOf(r)] # None

(* The same job with another status, attempt and decision to run it.       *)
SameBundle(row, old) == row.version = old.version /\ row.entry = old.entry /\ row.code = old.code

LEMMA StatusFacts ==
  ASSUME NEW row \in Job, NEW s \in {"queued", "running"} \cup Settled
  PROVE  /\ [row EXCEPT !.status = s] \in Job
         /\ [row EXCEPT !.status = s].status = s
         /\ [row EXCEPT !.status = s].attempt = row.attempt
         /\ [row EXCEPT !.status = s].runNow = row.runNow
         /\ SameBundle([row EXCEPT !.status = s], row)
BY DEF Job, SameBundle

LEMMA AttemptFacts ==
  ASSUME NEW row \in Job
  PROVE  LET new == [row EXCEPT !.status = "running", !.attempt = @ + 1]
         IN  /\ new \in Job /\ new.status = "running" /\ new.attempt = row.attempt + 1
             /\ new.runNow = row.runNow /\ SameBundle(new, row)
<1> DEFINE n == row.attempt + 1
           new == [row EXCEPT !.status = "running", !.attempt = n]
<1>1. n \in Nat
  BY DEF Job
<1> HIDE DEF n
<1>2. /\ new \in Job /\ new.status = "running" /\ new.attempt = n
      /\ new.runNow = row.runNow /\ SameBundle(new, row)
  BY <1>1 DEF Job, SameBundle
<1>3. QED
  BY <1>2 DEF n

LEMMA ControlledFacts ==
  ASSUME NEW row \in Job, NEW action \in {"retry", "resume", "cancel", "pause"}
  PROVE  LET new == Controlled(row, action)
         IN  /\ new \in Job /\ SameBundle(new, row)
             /\ new.attempt = row.attempt \/ new.attempt = 0
             /\ new.status = "cancelled" <=> action = "cancel"
             /\ new.status = "paused" <=> action = "pause"
             /\ new.status # "running"
<1>1. CASE action = "retry"
  BY <1>1 DEF Controlled, Job, Settled, SameBundle
<1>2. CASE action = "resume"
  BY <1>2 DEF Controlled, Job, Settled, SameBundle
<1>3. CASE action = "cancel"
  BY <1>3 DEF Controlled, Job, Settled, SameBundle
<1>4. CASE action = "pause"
  BY <1>4 DEF Controlled, Job, Settled, SameBundle
<1>5. QED
  BY <1>1, <1>2, <1>3, <1>4

(* Executor e becomes x, keeps its job and leaves the others alone.        *)
ExecBecomes(e, x) == exec' = [exec EXCEPT ![e] = x] /\ x \in Exec

LEMMA ExecBecomesFacts ==
  ASSUME JobTypes, NEW e \in Requests, NEW x, ExecBecomes(e, x)
  PROVE  /\ exec' \in [Requests -> Exec]
         /\ exec'[e] = x /\ \A d \in Requests : d # e => exec'[d] = exec[d]
BY DEF JobTypes, ExecBecomes

LEMMA ExecFacts ==
  ASSUME JobTypes, NEW e \in Requests
  PROVE  /\ exec[e] \in Exec
         /\ exec[e].at \in {"none", "find", "start", "run", "requeue", "fail",
                            "again", "last", "mark", "done"}
         /\ exec[e].job \in Requests \cup {None} /\ exec[e].code \in Nat
         /\ exec[e].nested \in BOOLEAN /\ exec[e].overtaken \in BOOLEAN
BY DEF JobTypes, Exec

LEMMA IdleFacts ==
  /\ Idle \in Exec /\ Idle.at = "none" /\ Idle.job = None
  /\ \A j \in Requests : /\ Executor(j) \in Exec /\ Executor(j).at = "find"
                         /\ Executor(j).job = j
BY DEF Idle, Exec, Executor

Leaves == {"run", "requeue", "fail", "again", "last", "mark"}

LEMMA StepFacts ==
  ASSUME JobTypes, NEW e \in Requests, NEW w \in Leaves, Step(e, w)
  PROVE  \E x \in Exec : /\ ExecBecomes(e, x) /\ x.at = w /\ x.job = exec[e].job
                         /\ x.nested = exec[e].nested /\ x.overtaken = exec[e].overtaken
                         /\ w = "run" => x.code = exec[e].code
<1> DEFINE x == [exec[e] EXCEPT !.at = w, !.code = IF w = "run" THEN exec[e].code ELSE 0]
<1>1. /\ x \in Exec /\ x.at = w /\ x.job = exec[e].job /\ x.nested = exec[e].nested
      /\ x.overtaken = exec[e].overtaken /\ (w = "run" => x.code = exec[e].code)
  BY DEF JobTypes, Exec, Leaves
<1>2. exec' = [exec EXCEPT ![e] = x]
  BY DEF Step, JobTypes, Exec
<1> HIDE DEF x
<1>3. QED
  BY <1>1, <1>2 DEF ExecBecomes

LEMMA FinishedFacts ==
  ASSUME JobTypes, NEW e \in Requests, Finished(e)
  PROVE  \E x \in Exec : ExecBecomes(e, x) /\ x.at = "done" /\ x.job = exec[e].job
<1> DEFINE x == [Idle EXCEPT !.at = "done", !.job = exec[e].job]
<1>1. x \in Exec /\ x.at = "done" /\ x.job = exec[e].job
  BY ExecFacts DEF Idle, Exec
<1>2. exec' = [exec EXCEPT ![e] = x]
  BY DEF Finished
<1> HIDE DEF x
<1>3. QED
  BY <1>1, <1>2 DEF ExecBecomes

LEMMA FindFacts ==
  ASSUME JobTypes, Staffed, NEW e \in Requests, RowTypes, FindJob(e),
         rows[JobOfExec(e).version] # None
  PROVE  \E x \in Exec :
           /\ ExecBecomes(e, x) /\ x.job = exec[e].job
           /\ \/ JobOfExec(e).status = "cancelled" /\ x.at = "done"
              \/ /\ JobOfExec(e).status # "cancelled" /\ x.at = "start" /\ ~x.overtaken
                 /\ x.code = rows[JobOfExec(e).version].bundles[JobOfExec(e).entry]
<1>1. CASE JobOfExec(e).status = "cancelled"
  <2>1. Finished(e)
    BY <1>1 DEF FindJob
  <2>2. QED
    BY <1>1, <2>1, FinishedFacts
<1>2. CASE JobOfExec(e).status # "cancelled"
  <2> DEFINE n == rows[JobOfExec(e).version].bundles[JobOfExec(e).entry]
             x == [exec[e] EXCEPT !.at = "start", !.code = n, !.overtaken = FALSE]
  <2>1. JobOfExec(e) \in Job
    BY DEF FindJob, At, Staffed, JobTypes, JobOfExec
  <2>2. n \in Nat
    BY <2>1 DEF Job, RowTypes, Row
  <2>3. exec' = [exec EXCEPT ![e] = x]
    BY <1>2 DEF FindJob, JobTypes, Exec
  <2>4. x \in Exec /\ x.at = "start" /\ x.job = exec[e].job /\ x.code = n /\ ~x.overtaken
    BY <2>2 DEF JobTypes, Exec
  <2>5. n = rows[JobOfExec(e).version].bundles[JobOfExec(e).entry]
    OBVIOUS
  <2> HIDE DEF x, n
  <2>6. QED
    BY <1>2, <2>3, <2>4, <2>5 DEF ExecBecomes
<1>3. QED
  BY <1>1, <1>2

LEMMA AgainFacts ==
  ASSUME JobTypes, NEW e \in Requests, LogAttempt(e)
  PROVE  \E x \in Exec : /\ ExecBecomes(e, x) /\ x.job = exec[e].job
                         /\ \/ At(e, "again") /\ x.at = "find"
                            \/ At(e, "last") /\ x.at = "done"
<1>1. CASE At(e, "again") /\ exec' = [exec EXCEPT ![e].at = "find", ![e].nested = TRUE]
  <2> DEFINE x == [exec[e] EXCEPT !.at = "find", !.nested = TRUE]
  <2>1. exec' = [exec EXCEPT ![e] = x]
    BY <1>1 DEF JobTypes, Exec
  <2>2. x \in Exec /\ x.at = "find" /\ x.job = exec[e].job
    BY DEF JobTypes, Exec
  <2> HIDE DEF x
  <2>3. QED
    BY <1>1, <2>1, <2>2 DEF ExecBecomes
<1>2. CASE At(e, "last") /\ Finished(e)
  BY <1>2, FinishedFacts
<1>3. QED
  BY <1>1, <1>2 DEF LogAttempt

(* One step of an executor: from y to x, its job's row from old to row.    *)
Attempts(y, x, old, row) ==
  \/ y.at = "find" /\ row = old /\ old.status = "cancelled" /\ x.at = "done"
  \/ /\ y.at = "find" /\ row = old /\ old.status # "cancelled" /\ x.at = "start" /\ ~x.overtaken
     /\ x.code = rows[old.version].bundles[old.entry]
  \/ /\ y.at = "start" /\ row.status = "running" /\ row.attempt = old.attempt + 1
     /\ row.runNow = old.runNow /\ x.at = "run" /\ x.code = y.code /\ x.overtaken = y.overtaken
  \/ /\ y.at = "run" /\ row = old /\ x.at = (IF old.attempt < MaxAttempts THEN "requeue" ELSE "fail")
     /\ x.overtaken = y.overtaken
  \/ y.at = "again" /\ row = old /\ x.at = "find"
  \/ y.at = "last" /\ row = old /\ x.at = "done"
  \/ y.at \notin {"none", "mark", "done"} /\ row = old /\ x.at = "mark"
  \/ /\ row.attempt = old.attempt /\ row.runNow = old.runNow
     /\ \/ y.at = "run" /\ row.status = "succeeded" /\ x.at = "last"
        \/ y.at = "requeue" /\ row.status = "queued" /\ x.at = "again"
        \/ y.at = "fail" /\ row.status = "failed" /\ x.at = "last"
        \/ y.at = "mark" /\ row.status = "failed" /\ x.at = "done"

ExecMove(e, x, row) ==
  /\ exec[e].at \notin {"none", "done"} /\ exec[e].job \in Requests /\ JobOfExec(e) \in Job
  /\ ExecBecomes(e, x) /\ x.job = exec[e].job /\ x.at # "none"
  /\ job' = [job EXCEPT ![exec[e].job] = row] /\ row \in Job /\ SameBundle(row, JobOfExec(e))
  /\ \/ orphan' = orphan /\ Attempts(exec[e], x, JobOfExec(e), row)
     \/ /\ exec[e].at = "mark" /\ x.at = "done" /\ row = JobOfExec(e)
        /\ orphan' = orphan \cup {exec[e].job}

LEMMA ExecutorMoves ==
  ASSUME JobTypes, RowTypes, Staffed, JobKeepsItsBundle, NEW e \in Requests, ExecutorStep(e)
  PROVE  \E x \in Exec, row \in Job : ExecMove(e, x, row)
<1> DEFINE j == exec[e].job
           old == job[j]
<1>1. exec[e].at \notin {"none", "done"}
  BY DEF ExecutorStep, FindJob, StartAttempt, Succeed, FindLatest, Requeue, Fail, LogAttempt,
         Mark, ExecutorThrows, MarkFails, At
<1>2. j \in Requests /\ old \in Job /\ rows[old.version] # None /\ old = JobOfExec(e)
  BY <1>1 DEF Staffed, JobTypes, JobKeepsItsBundle, JobOfExec
<1>3. job = [job EXCEPT ![j] = old] /\ SameBundle(old, old)
  BY <1>2 DEF JobTypes, SameBundle
<1>4. ASSUME NEW x \in Exec, ExecBecomes(e, x), x.job = j, x.at # "none", NEW row \in Job,
             job' = [job EXCEPT ![j] = row], SameBundle(row, old),
             \/ orphan' = orphan /\ Attempts(exec[e], x, old, row)
             \/ /\ exec[e].at = "mark" /\ x.at = "done" /\ row = old
                /\ orphan' = orphan \cup {j}
      PROVE  ExecMove(e, x, row)
  BY <1>1, <1>2, <1>4 DEF ExecMove
<1>5. ASSUME NEW s \in {"queued"} \cup Settled, JobBecomes(e, s)
      PROVE  \E row \in Job : /\ job' = [job EXCEPT ![j] = row] /\ SameBundle(row, old)
                              /\ row.status = s /\ row.attempt = old.attempt
                              /\ row.runNow = old.runNow
  <2> DEFINE row == [old EXCEPT !.status = s]
  <2>1. job' = [job EXCEPT ![j] = row]
    BY <1>5 DEF JobBecomes
  <2>2. row \in Job /\ SameBundle(row, old) /\ row.status = s /\ row.attempt = old.attempt
        /\ row.runNow = old.runNow
    BY <1>2, StatusFacts
  <2> HIDE DEF row
  <2>3. QED
    BY <2>1, <2>2
<1> HIDE DEF j, old
<1>6. CASE FindJob(e)
  <2>1. PICK x \in Exec :
          /\ ExecBecomes(e, x) /\ x.job = exec[e].job
          /\ \/ JobOfExec(e).status = "cancelled" /\ x.at = "done"
             \/ /\ JobOfExec(e).status # "cancelled" /\ x.at = "start" /\ ~x.overtaken
                /\ x.code = rows[JobOfExec(e).version].bundles[JobOfExec(e).entry]
    BY <1>2, <1>6, FindFacts
  <2>2. exec[e].at = "find" /\ job' = job /\ orphan' = orphan
    BY <1>6 DEF FindJob, At, OnlyJobs
  <2>3. Attempts(exec[e], x, old, old)
    BY <1>2, <2>1, <2>2 DEF Attempts
  <2>4. ExecMove(e, x, old)
    BY <1>2, <1>3, <1>4, <2>1, <2>2, <2>3 DEF j
  <2>5. QED
    BY <1>2, <2>4
<1>7. CASE StartAttempt(e)
  <2> DEFINE row == [old EXCEPT !.status = "running", !.attempt = @ + 1]
  <2>1. exec[e].at = "start" /\ Step(e, "run") /\ orphan' = orphan
    BY <1>7 DEF StartAttempt, At, OnlyJobs
  <2>2. job' = [job EXCEPT ![j] = row]
    BY <1>2, <1>7 DEF StartAttempt, j, old, JobTypes
  <2>3. row \in Job /\ row.status = "running" /\ row.attempt = old.attempt + 1
        /\ row.runNow = old.runNow /\ SameBundle(row, old)
    BY <1>2, AttemptFacts
  <2>4. PICK x \in Exec : /\ ExecBecomes(e, x) /\ x.at = "run" /\ x.job = exec[e].job
                          /\ x.overtaken = exec[e].overtaken /\ x.code = exec[e].code
    BY <2>1, StepFacts DEF Leaves
  <2> HIDE DEF row
  <2>5. Attempts(exec[e], x, old, row)
    BY <2>1, <2>3, <2>4 DEF Attempts
  <2>6. ExecMove(e, x, row)
    BY <1>4, <2>1, <2>2, <2>3, <2>4, <2>5 DEF j
  <2>7. QED
    BY <2>3, <2>6
<1>8. CASE Succeed(e) \/ Requeue(e) \/ Fail(e)
  <2>1. orphan' = orphan /\ \/ At(e, "run") /\ JobBecomes(e, "succeeded") /\ Step(e, "last")
                            \/ At(e, "requeue") /\ JobBecomes(e, "queued") /\ Step(e, "again")
                            \/ At(e, "fail") /\ JobBecomes(e, "failed") /\ Step(e, "last")
    BY <1>8 DEF Succeed, Requeue, Fail, OnlyJobs
  <2>2. ASSUME NEW s \in {"queued"} \cup Settled, JobBecomes(e, s),
               NEW w \in {"last", "again"}, Step(e, w), NEW at, At(e, at),
               <<at, s, w>> \in {<<"run", "succeeded", "last">>, <<"requeue", "queued", "again">>,
                                 <<"fail", "failed", "last">>}
        PROVE  \E x \in Exec, row \in Job : ExecMove(e, x, row)
    <3>1. PICK x \in Exec : ExecBecomes(e, x) /\ x.at = w /\ x.job = exec[e].job
      BY <2>2, StepFacts DEF Leaves
    <3>2. PICK row \in Job : /\ job' = [job EXCEPT ![j] = row] /\ SameBundle(row, old)
                             /\ row.status = s /\ row.attempt = old.attempt
                             /\ row.runNow = old.runNow
      BY <1>5, <2>2
    <3>3. Attempts(exec[e], x, old, row)
      BY <2>2, <3>1, <3>2 DEF Attempts, At
    <3>4. ExecMove(e, x, row)
      BY <1>4, <2>1, <2>2, <3>1, <3>2, <3>3 DEF j
    <3>5. QED
      BY <3>4
  <2>3. QED
    BY <2>1, <2>2 DEF Settled
<1>9. CASE FindLatest(e)
  <2> DEFINE w == IF ShouldRetry(e) THEN "requeue" ELSE "fail"
  <2>1. At(e, "run") /\ Step(e, w) /\ w \in Leaves /\ job' = job /\ orphan' = orphan
    BY <1>9 DEF FindLatest, OnlyJobs, Leaves
  <2>2. w = IF old.attempt < MaxAttempts THEN "requeue" ELSE "fail"
    BY <1>2 DEF ShouldRetry
  <2> HIDE DEF w
  <2>3. PICK x \in Exec : /\ ExecBecomes(e, x) /\ x.at = w /\ x.job = exec[e].job
                          /\ x.overtaken = exec[e].overtaken
    BY <2>1, StepFacts
  <2>4. Attempts(exec[e], x, old, old)
    BY <2>1, <2>2, <2>3 DEF Attempts, At
  <2>5. x.at # "none"
    BY <2>2, <2>3
  <2>6. ExecMove(e, x, old)
    BY <1>2, <1>3, <1>4, <2>1, <2>3, <2>4, <2>5 DEF j
  <2>7. QED
    BY <1>2, <2>6
<1>10. CASE LogAttempt(e)
  <2>1. PICK x \in Exec : /\ ExecBecomes(e, x) /\ x.job = exec[e].job
                          /\ \/ At(e, "again") /\ x.at = "find"
                             \/ At(e, "last") /\ x.at = "done"
    BY <1>10, AgainFacts
  <2>2. Attempts(exec[e], x, old, old) /\ job' = job /\ orphan' = orphan
    BY <1>10, <2>1 DEF Attempts, At, LogAttempt, OnlyJobs
  <2>3. ExecMove(e, x, old)
    BY <1>2, <1>3, <1>4, <2>1, <2>2 DEF j
  <2>4. QED
    BY <1>2, <2>3
<1>11. CASE Mark(e)
  <2>1. PICK x \in Exec : ExecBecomes(e, x) /\ x.at = "done" /\ x.job = exec[e].job
    BY <1>11, FinishedFacts DEF Mark
  <2>2. PICK row \in Job : /\ job' = [job EXCEPT ![j] = row] /\ SameBundle(row, old)
                           /\ row.status = "failed" /\ row.attempt = old.attempt
                           /\ row.runNow = old.runNow
    BY <1>5, <1>11 DEF Mark, Settled
  <2>3. Attempts(exec[e], x, old, row) /\ orphan' = orphan
    BY <1>11, <2>1, <2>2 DEF Attempts, At, Mark, OnlyJobs
  <2>4. ExecMove(e, x, row)
    BY <1>4, <2>1, <2>2, <2>3 DEF j
  <2>5. QED
    BY <2>4
<1>12. CASE ExecutorThrows(e)
  <2>1. PICK x \in Exec : ExecBecomes(e, x) /\ x.at = "mark" /\ x.job = exec[e].job
    BY <1>12, StepFacts DEF ExecutorThrows, Leaves
  <2>2. Attempts(exec[e], x, old, old) /\ job' = job /\ orphan' = orphan
    BY <1>12, <2>1 DEF Attempts, ExecutorThrows
  <2>3. ExecMove(e, x, old)
    BY <1>2, <1>3, <1>4, <2>1, <2>2 DEF j
  <2>4. QED
    BY <1>2, <2>3
<1>13. CASE MarkFails(e)
  <2>1. PICK x \in Exec : ExecBecomes(e, x) /\ x.at = "done" /\ x.job = exec[e].job
    BY <1>13, FinishedFacts DEF MarkFails
  <2>2. exec[e].at = "mark" /\ job' = job /\ orphan' = orphan \cup {j}
    BY <1>13 DEF MarkFails, At, j
  <2>3. ExecMove(e, x, old)
    BY <1>2, <1>3, <1>4, <2>1, <2>2 DEF j
  <2>4. QED
    BY <1>2, <2>3
<1>14. QED
  BY <1>6, <1>7, <1>8, <1>9, <1>10, <1>11, <1>12, <1>13 DEF ExecutorStep

-----------------------------------------------------------------------------
(* The steps of requests, as far as jobs are concerned                     *)

(* Only r's next statement changes; r had not been answered.               *)
Alone(r) == /\ pc[r] \notin Ended
            /\ \A q \in Requests : q # r => pc'[q] = pc[q] /\ asked'[q] = asked[q]
JobBecomesRow(j, row) == job' = [job EXCEPT ![j] = row] /\ row \in Job

(* r is about to start an executor of j.                                   *)
AboutTo(r, j) == pc[r] = "log" /\ Executes(r) /\ JobOf(r) = j

Quiet(r) == /\ Alone(r) /\ pc'[r] # "log" /\ ~(pc[r] = "log" /\ Executes(r))
            /\ pc[r] = "log" => pc'[r] \in Ended
            /\ UNCHANGED <<job, orphan, exec>>
Inserts(r, row) ==
  /\ Alone(r) /\ pc[r] = "resolve" /\ pc'[r] = "log" /\ asked'[r] = asked[r] /\ asked[r] \in JobAsk
  /\ JobBecomesRow(r, row) /\ orphan' = orphan /\ exec' = exec
  /\ row.status = "queued" /\ row.attempt = 0 /\ row.runNow = asked[r].runNow
  /\ rows[row.version] # None
  /\ 1 <= row.code /\ row.code <= rows[row.version].bundles[row.entry] /\ rows' = rows
Starts(r) ==
  /\ Alone(r) /\ AboutTo(r, JobOf(r)) /\ pc'[r] = "ended"
  /\ exec' = [exec EXCEPT ![r] = Executor(JobOf(r))] /\ UNCHANGED <<job, orphan>>
Loses(r) ==
  /\ Alone(r) /\ AboutTo(r, JobOf(r)) /\ pc'[r] = "ended"
  /\ orphan' = orphan \cup {JobOf(r)} /\ UNCHANGED <<job, exec>>
(* What a cancel does to an executor of the job.                           *)
Overtaken(x) == [x EXCEPT !.overtaken = x.at \notin {"find", "done"}]
Controls(r, a) ==
  /\ Alone(r) /\ pc[r] = "new" /\ job[a.job] # None
  /\ JobBecomesRow(a.job, Controlled(job[a.job], a.route))
  /\ \/ a.route \in {"retry", "resume"} /\ pc'[r] = "log" /\ asked'[r] = a
        /\ orphan' = orphan \ {a.job} /\ exec' = exec
     \/ a.route = "pause" /\ pc'[r] = "ended" /\ orphan' = orphan /\ exec' = exec
     \/ /\ a.route = "cancel" /\ pc'[r] = "ended" /\ orphan' = orphan
        /\ exec' = [e \in Requests |->
                      IF exec[e].job = a.job THEN Overtaken(exec[e]) ELSE exec[e]]

JobMove ==
  \/ UNCHANGED <<reqvars, job, orphan, exec>>
  \/ \E r \in Requests : Quiet(r) \/ Starts(r) \/ Loses(r)
  \/ \E r \in Requests : \E row \in Job : Inserts(r, row)
  \/ \E r \in Requests : \E a \in ControlAsk : Controls(r, a)
  \/ UNCHANGED reqvars /\ \E e \in Requests : \E x \in Exec, row \in Job : ExecMove(e, x, row)
  \/ Crash

LEMMA GotoAlone ==
  ASSUME ReqTypes, NEW r \in Requests, NEW w \in Where, Goto(r, w), pc[r] \notin Ended
  PROVE  Alone(r) /\ pc'[r] = w /\ (w \notin Ended => asked'[r] = asked[r])
BY GotoFacts DEF Alone

LEMMA ArrivesAlone ==
  ASSUME ReqTypes, NEW r \in Requests, NEW a \in Asks, NEW w \in Where, Arrives(r, a, w)
  PROVE  Alone(r) /\ pc[r] = "new" /\ pc'[r] = w /\ (w \notin Ended => asked'[r] = a)
BY ArrivesFacts DEF Alone, Ended

LEMMA VersionsStepQuiet ==
  ASSUME ReqTypes, NEW r \in Requests, VersionsStep(r), UNCHANGED jobvars
  PROVE  Quiet(r)
<1>1. UNCHANGED <<job, orphan, exec>>
  BY DEF jobvars
<1>2. ASSUME NEW w \in Where, Goto(r, w), w # "log", pc[r] \notin Ended \cup {"log"}
      PROVE  Quiet(r)
  BY <1>1, <1>2, GotoAlone DEF Quiet
<1>3. ASSUME NEW a \in Asks, NEW w \in Where, Arrives(r, a, w), w # "log" PROVE Quiet(r)
  BY <1>1, <1>3, ArrivesAlone DEF Quiet
<1>4. CASE \/ CreateTransaction(r) \/ SaveCreates(r) \/ LookUpClient(r) \/ DraftTransaction(r)
           \/ PublishTransaction(r) \/ FindVersion(r) \/ Build(r) \/ PersistBundle(r)
  <2>1. pc[r] \in {"create", "lookup", "save", "version", "building", "persist"}
    BY <1>4 DEF CreateTransaction, SaveCreates, LookUpClient, DraftTransaction,
                PublishTransaction, FindVersion, Build, PersistBundle
  <2>2. \/ Goto(r, "ended") \/ Goto(r, "collision") \/ Goto(r, "save") \/ Goto(r, "lookup")
        \/ Goto(r, "building") \/ Goto(r, "persist")
    BY <1>4 DEF CreateTransaction, SaveCreates, LookUp, LookUpClient, DraftTransaction,
                PublishTransaction, FindVersion, Build, PersistBundle
  <2>3. QED
    BY <1>2, <2>1, <2>2 DEF Where, Ended
<1>5. ASSUME NEW a \in Ask, CreateWorkspace(r, a) \/ Save(r, a) \/ Bundle(r, a) PROVE Quiet(r)
  <2>1. \/ Arrives(r, a, "ended") \/ Arrives(r, a, "create") \/ Arrives(r, a, "save")
        \/ Arrives(r, a, "lookup") \/ Arrives(r, a, "persist") \/ Arrives(r, a, "version")
    BY <1>5 DEF CreateWorkspace, Save, LookUp, Bundle
  <2>2. QED
    BY <1>3, <2>1 DEF Where, Ended, Asks
<1>6. QED
  BY <1>4, <1>5 DEF VersionsStep, Ask

LEMMA ResolveFacts ==
  ASSUME NEW bundles \in [Entries -> Nat], NEW requested \in Entries,
         NEW e \in Resolve(bundles, requested)
  PROVE  e \in Entries /\ bundles[e] >= 1
BY DEF Resolve

LEMMA InsertJobMoves ==
  ASSUME ReqTypes, WellAsked, RowTypes, JobTypes, NEW r \in Requests, InsertJob(r)
  PROVE  Quiet(r) \/ \E row \in Job : Inserts(r, row)
<1> DEFINE a == asked[r]
           found == IF rows[a.version] = None THEN {} ELSE Resolve(rows[a.version].bundles, a.entry)
<1>1. /\ pc[r] = "resolve" /\ pc[r] \notin Ended /\ a \in JobAsk /\ a.version \in Versions
      /\ a.entry \in Entries /\ a.runNow \in BOOLEAN
  BY AskFields DEF InsertJob, WellAsked, Asked, Ended
<1>2. rows' = rows /\ orphan' = orphan /\ exec' = exec
  BY DEF InsertJob, rowvars
<1>3. CASE Goto(r, "ended") /\ UNCHANGED job
  BY <1>1, <1>2, <1>3, GotoAlone DEF Quiet, Where, Ended
<1>4. ASSUME NEW e \in found,
             job' = [job EXCEPT ![r] =
                   [status |-> "queued", attempt |-> 0, version |-> a.version, entry |-> e,
                    code |-> rows[a.version].bundles[e], runNow |-> a.runNow]],
             Goto(r, "log")
      PROVE  \E row \in Job : Inserts(r, row)
  <2> DEFINE n == rows[a.version].bundles[e]
             row == [status |-> "queued", attempt |-> 0, version |-> a.version, entry |-> e,
                     code |-> n, runNow |-> a.runNow]
  <2>1. rows[a.version] # None /\ e \in Resolve(rows[a.version].bundles, a.entry)
    BY <1>4
  <2>2. rows[a.version].bundles \in [Entries -> Nat]
    BY <1>1, <2>1 DEF RowTypes, Row
  <2>3. e \in Entries /\ n \in Nat /\ n >= 1
    BY <1>1, <2>1, <2>2, ResolveFacts
  <2>4. job' = [job EXCEPT ![r] = row]
    BY <1>4
  <2>5. Alone(r) /\ pc'[r] = "log" /\ asked'[r] = a
    BY <1>1, <1>4, GotoAlone DEF Where, Ended
  <2>6. n = rows[a.version].bundles[e]
    OBVIOUS
  <2>7. rows[a.version].bundles[e] >= n
    BY <2>3, <2>6
  <2> HIDE DEF n
  <2>8. /\ row \in Job /\ row.status = "queued" /\ row.attempt = 0 /\ row.runNow = a.runNow
        /\ row.version = a.version /\ row.entry = e /\ row.code = n
    BY <1>1, <2>3 DEF Job
  <2> HIDE DEF row, found
  <2>9. Inserts(r, row)
    BY <1>1, <1>2, <2>1, <2>3, <2>4, <2>5, <2>7, <2>6, <2>8 DEF Inserts, JobBecomesRow
  <2>10. QED
    BY <2>8, <2>9
<1>5. QED
  BY <1>3, <1>4 DEF InsertJob

LEMMA ControlMoves ==
  ASSUME ReqTypes, JobTypes, NEW r \in Requests, NEW a \in ControlAsk, Control(r, a)
  PROVE  Quiet(r) \/ Controls(r, a)
<1>1. a \in Asks /\ a.job \in Requests /\ a.route \in {"retry", "resume", "cancel", "pause"}
  BY AskFields DEF Asks
<1>2. CASE job[a.job] = None
  <2>1. Arrives(r, a, "ended") /\ UNCHANGED <<job, orphan, exec>>
    BY <1>2 DEF Control
  <2>2. QED
    BY <1>1, <2>1, ArrivesAlone DEF Quiet, Where, Ended
<1>3. CASE job[a.job] # None
  <2> DEFINE row == Controlled(job[a.job], a.route)
  <2>1. job[a.job] \in Job
    BY <1>1, <1>3 DEF JobTypes
  <2>2. row \in Job /\ job' = [job EXCEPT ![a.job] = row]
    BY <1>1, <1>3, <2>1, ControlledFacts DEF Control
  <2>3. JobBecomesRow(a.job, row)
    BY <2>2 DEF JobBecomesRow
  <2> HIDE DEF row
  <2>4. CASE a.route \in {"retry", "resume"}
    <3>1. Arrives(r, a, "log") /\ orphan' = orphan \ {a.job}
      BY <1>3, <2>4 DEF Control
    <3>2. exec' = [e \in Requests |-> exec[e]]
      BY <1>3, <2>4 DEF Control
    <3>3. exec' = exec
      BY <3>2 DEF JobTypes
    <3>4. Alone(r) /\ pc[r] = "new" /\ pc'[r] = "log" /\ asked'[r] = a
      BY <1>1, <3>1, ArrivesAlone DEF Where, Ended
    <3>5. QED
      BY <1>3, <2>3, <2>4, <3>1, <3>3, <3>4 DEF Controls, row
  <2>5. CASE a.route \in {"cancel", "pause"}
    <3>1. Arrives(r, a, "ended") /\ orphan' = orphan
      BY <1>3, <2>5 DEF Control
    <3>2. Alone(r) /\ pc[r] = "new" /\ pc'[r] = "ended"
      BY <1>1, <3>1, ArrivesAlone DEF Where, Ended
    <3>3. CASE a.route = "pause"
      <4>1. exec' = [e \in Requests |-> exec[e]]
        BY <1>3, <3>3 DEF Control
      <4>2. exec' = exec
        BY <4>1 DEF JobTypes
      <4>3. QED
        BY <1>3, <2>3, <3>1, <3>2, <3>3, <4>2 DEF Controls, row
    <3>4. CASE a.route = "cancel"
      <4>1. exec' = [e \in Requests |->
                      IF exec[e].job = a.job THEN Overtaken(exec[e]) ELSE exec[e]]
        BY <1>3, <3>4 DEF Control, Overtaken
      <4>2. QED
        BY <1>3, <2>3, <3>1, <3>2, <3>4, <4>1 DEF Controls, row
    <3>5. QED
      BY <2>5, <3>3, <3>4
  <2>6. QED
    BY <1>1, <2>4, <2>5
<1>4. QED
  BY <1>2, <1>3

LEMMA JobRequestStepMoves ==
  ASSUME ReqTypes, WellAsked, RowTypes, JobTypes, NEW r \in Requests, JobRequestStep(r)
  PROVE  JobMove
<1>1. ASSUME NEW a \in JobAsk \cup WorkersAsk, CreateJob(r, a) \/ ControlWorkers(r, a)
      PROVE  Quiet(r)
  <2>1. a \in Asks /\ (Arrives(r, a, "ended") \/ Arrives(r, a, "resolve"))
        /\ UNCHANGED <<job, orphan, exec>>
    BY <1>1 DEF Asks, CreateJob, ControlWorkers, jobvars
  <2>2. QED
    BY <2>1, ArrivesAlone DEF Quiet, Where, Ended
<1>2. CASE LogRequest(r) \/ RequestFails(r)
  <2>0. "ended" \in Ended
    BY DEF Ended
  <2>1. Goto(r, "ended") /\ pc[r] \notin Ended /\ "ended" \in Where
    BY <1>2 DEF LogRequest, RequestFails, Ended, Where
  <2>2. Alone(r) /\ pc'[r] = "ended"
    BY <2>1, GotoAlone
  <2>3. CASE pc[r] = "log" /\ Executes(r)
    <3>1. \/ exec' = [exec EXCEPT ![r] = Executor(JobOf(r))] /\ UNCHANGED <<job, orphan>>
          \/ orphan' = orphan \cup {JobOf(r)} /\ UNCHANGED <<job, exec>>
      BY <1>2, <2>3 DEF LogRequest, RequestFails
    <3>2. QED
      BY <2>2, <2>3, <3>1 DEF JobMove, Starts, Loses, AboutTo
  <2>4. CASE ~(pc[r] = "log" /\ Executes(r))
    <3>1. UNCHANGED <<job, orphan, exec>>
      BY <1>2, <2>4 DEF LogRequest, RequestFails
    <3>2. QED
      BY <2>0, <2>2, <2>4, <3>1 DEF JobMove, Quiet
  <2>5. QED
    BY <2>3, <2>4
<1>3. CASE InsertJob(r)
  BY <1>3, InsertJobMoves DEF JobMove
<1>4. ASSUME NEW a \in ControlAsk, Control(r, a) PROVE JobMove
  BY <1>4, ControlMoves DEF JobMove
<1>5. Quiet(r) => JobMove
  BY DEF JobMove
<1>6. QED
  BY <1>1, <1>2, <1>3, <1>4, <1>5 DEF JobRequestStep

LEMMA StepMovesJobs ==
  ASSUME ReqTypes, WellAsked, RowTypes, JobTypes, Staffed, JobKeepsItsBundle, [Next]_vars
  PROVE  JobMove
<1>1. ASSUME NEW r \in Requests, VersionsStep(r), UNCHANGED jobvars PROVE JobMove
  BY <1>1, VersionsStepQuiet DEF JobMove
<1>2. ASSUME NEW e \in Requests, ExecutorStep(e) PROVE JobMove
  <2>1. \E x \in Exec, row \in Job : ExecMove(e, x, row)
    BY <1>2, ExecutorMoves
  <2>2. UNCHANGED reqvars
    BY <1>2, ExecutorsAskNothing
  <2>3. QED
    BY <2>1, <2>2 DEF JobMove
<1>3. CASE UNCHANGED vars
  BY <1>3 DEF vars, jobvars, JobMove
<1>4. CASE Crash
  BY <1>4 DEF JobMove
<1>5. QED
  BY <1>1, <1>2, <1>3, <1>4, JobRequestStepMoves DEF Next

LEMMA JobBecomesFacts ==
  ASSUME JobTypes, NEW j \in Requests, NEW row, JobBecomesRow(j, row)
  PROVE  /\ job' \in [Requests -> Job \cup {None}]
         /\ job'[j] = row /\ row \in Job /\ row # None
         /\ \A i \in Requests : i # j => job'[i] = job[i]
BY NoJobAssumption DEF JobTypes, JobBecomesRow

(* A job that is there stays, with its bundle.                             *)
JobsStay == \A j \in Requests : job[j] # None => job'[j] # None /\ SameBundle(job'[j], job[j])
ExecutorsStay == \A e \in Requests : exec[e].at # "none" =>
                   exec'[e].at # "none" /\ exec'[e].job = exec[e].job

LEMMA OvertakenFacts ==
  ASSUME NEW x \in Exec
  PROVE  /\ Overtaken(x) \in Exec /\ Overtaken(x).at = x.at /\ Overtaken(x).job = x.job
         /\ Overtaken(x).code = x.code
         /\ Overtaken(x).overtaken = (x.at \notin {"find", "done"})
<1> DEFINE b == x.at \notin {"find", "done"}
           y == [x EXCEPT !.overtaken = b]
<1>1. b \in BOOLEAN
  OBVIOUS
<1> HIDE DEF b
<1>2. y \in Exec /\ y.at = x.at /\ y.job = x.job /\ y.code = x.code /\ y.overtaken = b
  BY <1>1 DEF Exec
<1>3. Overtaken(x) = y
  BY DEF Overtaken, b
<1> HIDE DEF y
<1>4. QED
  BY <1>2, <1>3 DEF b

LEMMA ControlsFacts ==
  ASSUME JobTypes, Staffed, NEW r \in Requests, NEW a \in ControlAsk, Controls(r, a)
  PROVE  /\ exec' \in [Requests -> Exec]
         /\ \A e \in Requests : /\ exec'[e].at = exec[e].at /\ exec'[e].job = exec[e].job
                                /\ exec'[e].code = exec[e].code
                                /\ exec[e] = Idle => exec'[e] = Idle
                                /\ exec[e].job # a.job \/ a.route # "cancel" => exec'[e] = exec[e]
                                /\ exec[e].job = a.job /\ a.route = "cancel" =>
                                     exec'[e].overtaken = (exec[e].at \notin {"find", "done"})
<1>1. a.job \in Requests
  BY AskFields
<1>2. CASE a.route # "cancel"
  BY <1>2 DEF Controls, JobTypes
<1>3. CASE a.route = "cancel"
  <2>1. exec' = [e \in Requests |->
                      IF exec[e].job = a.job THEN Overtaken(exec[e]) ELSE exec[e]]
    BY <1>3 DEF Controls
  <2>2. \A e \in Requests : /\ exec[e].job # a.job => exec'[e] = exec[e]
                            /\ exec[e].job = a.job => exec'[e] = Overtaken(exec[e])
    BY <2>1
  <2>3. \A e \in Requests : exec[e] \in Exec
    BY DEF JobTypes
  <2>4. \A e \in Requests : exec[e] = Idle => exec[e].job # a.job
    BY <1>1, IdleFacts, NoJobAssumption
  <2>5. \A e \in Requests : exec'[e] \in Exec
    BY <2>2, <2>3, OvertakenFacts
  <2>6. exec' \in [Requests -> Exec]
    BY <2>1, <2>5
  <2>7. \A e \in Requests : /\ exec'[e].at = exec[e].at /\ exec'[e].job = exec[e].job
                            /\ exec'[e].code = exec[e].code
    BY <2>2, <2>3, OvertakenFacts
  <2>8. \A e \in Requests : exec[e].job = a.job =>
          exec'[e].overtaken = (exec[e].at \notin {"find", "done"})
    BY <2>2, <2>3, OvertakenFacts
  <2>9. QED
    BY <1>3, <2>2, <2>4, <2>6, <2>7, <2>8
<1>4. QED
  BY <1>2, <1>3

LEMMA AloneFacts ==
  ASSUME NEW r \in Requests, NEW q \in Requests, Alone(r), q # r
  PROVE  /\ pc'[q] = pc[q] /\ JobOf(q)' = JobOf(q) /\ Executes(q)' = Executes(q)
BY DEF Alone, JobOf, Executes

LEMMA StartsFacts ==
  ASSUME JobTypes, Fresh, NEW r \in Requests, Starts(r)
  PROVE  /\ exec[r] = Idle /\ JobOf(r) \in Requests /\ job[JobOf(r)] # None
         /\ exec' \in [Requests -> Exec]
         /\ exec'[r] = Executor(JobOf(r)) /\ \A e \in Requests : e # r => exec'[e] = exec[e]
<1>1. pc[r] = "log" /\ exec' = [exec EXCEPT ![r] = Executor(JobOf(r))]
  BY DEF Starts, AboutTo
<1>2. exec[r] = Idle /\ JobOf(r) \in Requests /\ job[JobOf(r)] # None
  BY <1>1 DEF Fresh, Ended
<1>3. QED
  BY <1>1, <1>2, IdleFacts DEF JobTypes

LEMMA CrashFacts ==
  ASSUME JobTypes, Staffed, Crash
  PROVE  /\ exec' \in [Requests -> Exec]
         /\ \A e \in Requests : /\ exec'[e].job = exec[e].job
                                /\ exec[e].at = "none" => exec'[e] = exec[e]
                                /\ exec[e].at # "none" => exec'[e].at = "done"
         /\ job' = job
<1> DEFINE over(j) == [Idle EXCEPT !.at = "done", !.job = j]
<1>1. \A j \in Requests \cup {None} : over(j) \in Exec /\ over(j).at = "done" /\ over(j).job = j
  BY DEF Idle, Exec
<1>2. exec' = [e \in Requests |-> IF exec[e].at = "none" THEN exec[e] ELSE over(exec[e].job)]
  BY DEF Crash, At
<1>3. job' = job
  BY DEF Crash
<1> HIDE DEF over
<1>4. \A e \in Requests : exec'[e] = IF exec[e].at = "none" THEN exec[e] ELSE over(exec[e].job)
  BY <1>2
<1>5. \A e \in Requests : exec[e] \in Exec /\ exec[e].job \in Requests \cup {None}
  BY ExecFacts
<1>6. \A e \in Requests : exec'[e] \in Exec
  BY <1>1, <1>4, <1>5
<1>7. exec' \in [Requests -> Exec]
  BY <1>2, <1>6
<1>8. QED
  BY <1>1, <1>3, <1>4, <1>5, <1>7

LEMMA ExecMoveFacts ==
  ASSUME JobTypes, NEW e \in Requests, NEW x \in Exec, NEW row \in Job, ExecMove(e, x, row)
  PROVE  /\ exec' \in [Requests -> Exec] /\ job' \in [Requests -> Job \cup {None}]
         /\ exec[e].job \in Requests /\ exec[e].at \notin {"none", "done"}
         /\ exec'[e] = x /\ x.job = exec[e].job /\ x.at # "none"
         /\ \A d \in Requests : d # e => exec'[d] = exec[d]
         /\ job'[exec[e].job] = row /\ row # None /\ SameBundle(row, job[exec[e].job])
         /\ job[exec[e].job] \in Job
         /\ \A i \in Requests : i # exec[e].job => job'[i] = job[i]
<1>1. JobBecomesRow(exec[e].job, row) /\ exec[e].job \in Requests /\ ExecBecomes(e, x)
  BY DEF ExecMove, JobBecomesRow
<1>2. QED
  BY <1>1, JobBecomesFacts, ExecBecomesFacts DEF ExecMove, JobOfExec

LEMMA JobsStayStep ==
  ASSUME JobTypes, Staffed, Fresh, JobMove
  PROVE  /\ JobsStay /\ ExecutorsStay
         /\ job' \in [Requests -> Job \cup {None}] /\ orphan' \subseteq Requests
         /\ exec' \in [Requests -> Exec]
<1>1. CASE UNCHANGED <<job, exec>> /\ orphan' \subseteq Requests
  BY <1>1 DEF JobTypes, JobsStay, ExecutorsStay, SameBundle
<1>2. ASSUME NEW r \in Requests, Quiet(r) \/ Loses(r)
      PROVE  UNCHANGED <<job, exec>> /\ orphan' \subseteq Requests
  <2>1. pc[r] = "log" => JobOf(r) \in Requests
    BY DEF Fresh
  <2>2. QED
    BY <1>2, <2>1 DEF Quiet, Loses, AboutTo, JobTypes
<1>3. ASSUME NEW r \in Requests, Starts(r)
      PROVE  JobsStay /\ ExecutorsStay /\ UNCHANGED <<job, orphan>> /\ exec' \in [Requests -> Exec]
  <2>1. UNCHANGED <<job, orphan>>
    BY <1>3 DEF Starts
  <2>2. QED
    BY <1>3, <2>1, StartsFacts, IdleFacts DEF JobsStay, SameBundle, ExecutorsStay
<1>4. ASSUME NEW r \in Requests, NEW row \in Job, Inserts(r, row)
      PROVE  JobsStay /\ UNCHANGED <<exec, orphan>> /\ job' \in [Requests -> Job \cup {None}]
  <2>1. job[r] = None
    BY <1>4 DEF Fresh, Inserts, Ended
  <2>2. JobBecomesRow(r, row) /\ UNCHANGED <<exec, orphan>>
    BY <1>4 DEF Inserts
  <2>3. QED
    BY <2>1, <2>2, JobBecomesFacts DEF JobsStay, SameBundle
<1>5. ASSUME NEW r \in Requests, NEW a \in ControlAsk, Controls(r, a)
      PROVE  /\ JobsStay /\ ExecutorsStay /\ orphan' \subseteq Requests
             /\ job' \in [Requests -> Job \cup {None}] /\ exec' \in [Requests -> Exec]
  <2>1. a.job \in Requests /\ job[a.job] \in Job /\ JobBecomesRow(a.job, Controlled(job[a.job], a.route))
        /\ a.route \in {"retry", "resume", "cancel", "pause"}
    BY <1>5, AskFields DEF Controls, JobTypes
  <2>2. JobsStay
    BY <2>1, JobBecomesFacts, ControlledFacts DEF JobsStay, SameBundle
  <2>3. orphan' \subseteq Requests
    BY <1>5 DEF Controls, JobTypes
  <2>4. QED
    BY <1>5, <2>1, <2>2, <2>3, JobBecomesFacts, ControlsFacts DEF ExecutorsStay
<1>6. ASSUME NEW e \in Requests, NEW x \in Exec, NEW row \in Job, ExecMove(e, x, row)
      PROVE  /\ JobsStay /\ ExecutorsStay /\ orphan' \subseteq Requests
             /\ job' \in [Requests -> Job \cup {None}] /\ exec' \in [Requests -> Exec]
  <2>1. JobsStay /\ ExecutorsStay
    <3> DEFINE j == exec[e].job
    <3>1. /\ exec'[e].job = exec[e].job /\ exec'[e].at # "none"
          /\ \A d \in Requests : d # e => exec'[d] = exec[d]
      BY <1>6, ExecMoveFacts
    <3>2. /\ job'[j] # None /\ SameBundle(job'[j], job[j])
          /\ \A i \in Requests : i # j => job'[i] = job[i]
      BY <1>6, ExecMoveFacts
    <3> HIDE DEF j
    <3>3. JobsStay
      BY <3>2 DEF JobsStay, SameBundle
    <3>4. ExecutorsStay
      BY <3>1 DEF ExecutorsStay
    <3>5. QED
      BY <3>3, <3>4
  <2>2. orphan' \subseteq Requests
    BY <1>6, ExecMoveFacts DEF ExecMove, JobTypes
  <2>3. QED
    BY <1>6, <2>1, <2>2, ExecMoveFacts
<1>7. CASE Crash
  <2>1. orphan' \subseteq Requests
    BY <1>7 DEF Crash
  <2>2. QED
    BY <1>7, <2>1, CrashFacts DEF JobTypes, JobsStay, SameBundle, ExecutorsStay
<1>8. UNCHANGED <<exec, orphan>> => /\ ExecutorsStay /\ orphan' \subseteq Requests
                                    /\ exec' \in [Requests -> Exec]
  BY DEF JobTypes, ExecutorsStay
<1>9. QED
  BY <1>1, <1>2, <1>3, <1>4, <1>5, <1>6, <1>7, <1>8 DEF JobMove, JobTypes

LEMMA StaffedStep ==
  ASSUME JobTypes, Staffed, Fresh, JobMove
  PROVE  Staffed'
<1>0. JobsStay /\ ExecutorsStay
  BY JobsStayStep
<1>1. SUFFICES ASSUME NEW e \in Requests
               PROVE  /\ exec'[e].at = "none" => exec'[e] = Idle
                      /\ exec'[e].at # "none" => /\ exec'[e].job \in Requests
                                                 /\ job'[exec'[e].job] # None
  BY DEF Staffed
<1>2. exec[e].at # "none" => exec'[e].at # "none" /\ exec'[e].job \in Requests /\ job'[exec'[e].job] # None
  BY <1>0 DEF JobsStay, ExecutorsStay, Staffed
<1>3. SUFFICES ASSUME exec[e].at = "none", exec'[e] # exec[e]
               PROVE  /\ exec'[e].at # "none" /\ exec'[e].job \in Requests
                      /\ job'[exec'[e].job] # None
  BY <1>2 DEF Staffed
<1>4. ASSUME NEW r \in Requests, Starts(r)
      PROVE  /\ exec'[e].at # "none" /\ exec'[e].job \in Requests
             /\ job'[exec'[e].job] # None
  <2>1. e = r
    BY <1>3, <1>4, StartsFacts
  <2>2. exec'[e].at = "find" /\ exec'[e].job = JobOf(r) /\ JobOf(r) \in Requests /\ job[JobOf(r)] # None
    BY <1>4, <2>1, StartsFacts, IdleFacts
  <2>3. QED
    BY <1>0, <2>2 DEF JobsStay
<1>5. ASSUME NEW r \in Requests, NEW a \in ControlAsk, Controls(r, a) PROVE FALSE
  <2>1. exec[e] = Idle
    BY <1>3 DEF Staffed
  <2>2. QED
    BY <1>3, <1>5, <2>1, ControlsFacts
<1>6. ASSUME NEW d \in Requests, NEW x \in Exec, NEW row \in Job, ExecMove(d, x, row) PROVE FALSE
  BY <1>3, <1>6, ExecMoveFacts
<1>7. CASE Crash
  BY <1>3, <1>7, CrashFacts
<1>8. exec' # exec
  BY <1>3
<1>9. QED
  BY <1>4, <1>5, <1>6, <1>7, <1>8 DEF JobMove, Quiet, Loses, Inserts

LEMMA FreshStep ==
  ASSUME JobTypes, Staffed, Fresh, JobMove
  PROVE  Fresh'
<1>0. JobsStay
  BY JobsStayStep
<1>1. SUFFICES ASSUME NEW q \in Requests
               PROVE  /\ pc'[q] \notin Ended => exec'[q] = Idle
                      /\ pc'[q] \notin Ended \cup {"log"} => job'[q] = None
                      /\ pc'[q] = "log" => JobOf(q)' \in Requests /\ job'[JobOf(q)'] # None
  BY DEF Fresh, Ended
<1> DEFINE Goal == /\ pc'[q] \notin Ended => exec'[q] = Idle
                   /\ pc'[q] \notin Ended \cup {"log"} => job'[q] = None
                   /\ pc'[q] = "log" => JobOf(q)' \in Requests /\ job'[JobOf(q)'] # None
<1>2. /\ pc[q] \notin Ended => exec[q] = Idle
      /\ pc[q] \notin Ended \cup {"log"} => job[q] = None
      /\ pc[q] = "log" => JobOf(q) \in Requests /\ job'[JobOf(q)] # None
  BY <1>0 DEF Fresh, JobsStay
<1>3. ASSUME exec[q] = Idle => exec'[q] = Idle, job[q] = None => job'[q] = None,
             pc'[q] = pc[q], JobOf(q)' = JobOf(q)
      PROVE  Goal
  BY <1>2, <1>3
<1> HIDE DEF Goal
<1>4. ASSUME UNCHANGED <<reqvars, job, exec>> PROVE Goal
  BY <1>3, <1>4 DEF reqvars, JobOf
<1>5. ASSUME NEW r \in Requests, Quiet(r) \/ Loses(r) PROVE Goal
  <2>1. UNCHANGED <<job, exec>> /\ Alone(r)
    BY <1>5 DEF Quiet, Loses
  <2>2. CASE q # r
    BY <1>3, <2>1, <2>2, AloneFacts
  <2>3. CASE q = r
    <3>1. pc'[q] # "log" /\ pc[q] \notin Ended /\ (pc[q] = "log" => pc'[q] \in Ended)
      BY <1>5, <2>3 DEF Quiet, Loses, Alone, Ended
    <3>2. QED
      BY <1>2, <2>1, <3>1 DEF Goal
  <2>4. QED
    BY <2>2, <2>3
<1>6. ASSUME NEW r \in Requests, Starts(r) PROVE Goal
  <2>1. UNCHANGED job /\ Alone(r) /\ pc'[r] = "ended"
    BY <1>6 DEF Starts
  <2>2. CASE q # r
    BY <1>3, <1>6, <2>1, <2>2, AloneFacts, StartsFacts
  <2>3. CASE q = r
    BY <2>1, <2>3 DEF Ended, Goal
  <2>4. QED
    BY <2>2, <2>3
<1>7. ASSUME NEW r \in Requests, NEW row \in Job, Inserts(r, row) PROVE Goal
  <2>1. /\ UNCHANGED exec /\ Alone(r) /\ pc[r] \notin Ended /\ pc'[r] = "log"
        /\ JobBecomesRow(r, row) /\ asked'[r] = asked[r] /\ asked[r].route = "job"
    BY <1>7, AskFields DEF Inserts, Alone
  <2>2. CASE q # r
    BY <1>3, <2>1, <2>2, AloneFacts, JobBecomesFacts
  <2>3. CASE q = r
    <3>1. JobOf(q)' = q /\ exec'[q] = Idle /\ job'[q] # None
      BY <1>2, <2>1, <2>3, JobBecomesFacts DEF JobOf
    <3>2. QED
      BY <2>1, <2>3, <3>1 DEF Goal
  <2>4. QED
    BY <2>2, <2>3
<1>8. ASSUME NEW r \in Requests, NEW a \in ControlAsk, Controls(r, a) PROVE Goal
  <2>1. /\ Alone(r) /\ pc[r] = "new" /\ a.job \in Requests /\ job[a.job] # None
        /\ a.route \in {"retry", "resume", "cancel", "pause"}
        /\ JobBecomesRow(a.job, Controlled(job[a.job], a.route))
        /\ \/ pc'[r] = "log" /\ asked'[r] = a
           \/ pc'[r] = "ended"
    BY <1>8, AskFields DEF Controls
  <2>2. exec[q] = Idle => exec'[q] = Idle
    BY <1>8, ControlsFacts
  <2>3. job[q] = None => job'[q] = None
    BY <2>1, JobBecomesFacts
  <2>4. CASE q # r
    BY <1>3, <2>1, <2>2, <2>3, <2>4, AloneFacts
  <2>5. CASE q = r /\ pc'[r] = "ended"
    BY <2>5 DEF Ended, Goal
  <2>6. CASE q = r /\ pc'[r] = "log" /\ asked'[r] = a
    <3>1. JobOf(q)' = a.job
      BY <2>1, <2>6 DEF JobOf
    <3>2. QED
      BY <1>0, <1>2, <2>1, <2>2, <2>6, <3>1 DEF Goal, JobsStay, Ended
  <2>7. QED
    BY <2>1, <2>4, <2>5, <2>6
<1>9. ASSUME NEW e \in Requests, NEW x \in Exec, NEW row \in Job, ExecMove(e, x, row),
             UNCHANGED reqvars
      PROVE Goal
  <2>1. exec[q] = Idle => exec'[q] = Idle
    BY <1>9, ExecMoveFacts, IdleFacts
  <2>2. job[q] = None => job'[q] = None
    BY <1>9, ExecMoveFacts, NoJobAssumption
  <2>3. QED
    BY <1>3, <1>9, <2>1, <2>2 DEF reqvars, JobOf
<1>10. ASSUME Crash PROVE Goal
  <2>1. /\ pc'[q] = IF pc[q] \in {"new"} \cup Ended THEN pc[q] ELSE "ended"
        /\ job' = job
    BY <1>10 DEF Crash
  <2>2. pc'[q] \notin Ended => pc[q] = "new" /\ pc'[q] = "new"
    BY <2>1 DEF Ended
  <2>3. exec[q] = Idle => exec'[q] = Idle
    BY <1>10, CrashFacts, IdleFacts
  <2>4. QED
    BY <1>2, <2>1, <2>2, <2>3 DEF Goal, Ended
<1>11. Goal
  BY <1>4, <1>5, <1>6, <1>7, <1>8, <1>9, <1>10 DEF JobMove
<1>12. QED
  BY <1>11 DEF Goal

LEMMA NewJob ==
  ASSUME JobTypes, Staffed, NEW j \in Requests, JobMove, job[j] = None, job'[j] # None
  PROVE  \E row \in Job : Inserts(j, row) /\ job'[j] = row
<1>1. ASSUME NEW r \in Requests, NEW row \in Job, Inserts(r, row)
      PROVE  r = j /\ job'[j] = row
  <2>1. JobBecomesRow(r, row)
    BY <1>1 DEF Inserts
  <2>2. QED
    BY <2>1, JobBecomesFacts
<1>2. ASSUME NEW r \in Requests, NEW a \in ControlAsk, Controls(r, a) PROVE FALSE
  <2>1. a.job \in Requests /\ job[a.job] # None /\ JobBecomesRow(a.job, Controlled(job[a.job], a.route))
    BY <1>2, AskFields DEF Controls
  <2>2. QED
    BY <2>1, JobBecomesFacts
<1>3. ASSUME NEW e \in Requests, NEW x \in Exec, NEW row \in Job, ExecMove(e, x, row) PROVE FALSE
  BY <1>3, ExecMoveFacts, NoJobAssumption
<1>4. job' # job
  OBVIOUS
<1>5. QED
  BY <1>1, <1>2, <1>3, <1>4 DEF JobMove, Quiet, Loses, Starts, Crash

LEMMA CodeRead ==
  ASSUME JobTypes, Staffed, Fresh, NEW e \in Requests, JobMove, exec'[e].at \in {"start", "run"}
  PROVE  /\ exec[e].at # "none" /\ exec'[e].job = exec[e].job
         /\ \/ exec[e].at \in {"start", "run"} /\ exec'[e].code = exec[e].code
            \/ exec'[e].code = rows[JobOfExec(e).version].bundles[JobOfExec(e).entry]
<1> DEFINE Goal == /\ exec[e].at # "none" /\ exec'[e].job = exec[e].job
                   /\ \/ exec[e].at \in {"start", "run"} /\ exec'[e].code = exec[e].code
                      \/ exec'[e].code = rows[JobOfExec(e).version].bundles[JobOfExec(e).entry]
<1>1. exec'[e] = exec[e] => Goal
  OBVIOUS
<1>2. ASSUME NEW r \in Requests, Starts(r) PROVE exec'[e] = exec[e]
  BY <1>2, StartsFacts, IdleFacts
<1>3. ASSUME NEW r \in Requests, NEW a \in ControlAsk, Controls(r, a) PROVE Goal
  BY <1>3, ControlsFacts
<1>4. ASSUME NEW d \in Requests, NEW x \in Exec, NEW row \in Job, ExecMove(d, x, row) PROVE Goal
  <2>1. CASE d # e
    BY <1>1, <1>4, <2>1, ExecMoveFacts
  <2>2. CASE d = e
    <3>1. exec'[e] = x /\ x.job = exec[e].job /\ exec[e].at \notin {"none", "done"}
      BY <1>4, <2>2, ExecMoveFacts
    <3>2. Attempts(exec[e], x, JobOfExec(e), row)
      BY <1>4, <2>2, <3>1 DEF ExecMove
    <3>3. QED
      BY <3>1, <3>2 DEF Attempts
  <2>3. QED
    BY <2>1, <2>2
<1>5. ASSUME Crash PROVE exec'[e] = exec[e]
  BY <1>5, CrashFacts
<1>6. QED
  BY <1>1, <1>2, <1>3, <1>4, <1>5 DEF JobMove, Quiet, Loses, Inserts

(* No row of a job's version and no bundle goes away, and an attempt runs  *)
(* what there was when its executor read the job.                          *)
LEMMA KeepsStep ==
  ASSUME RowTypes, RowTypes', RowsGrow, JobTypes, Staffed, Fresh, JobKeepsItsBundle, JobMove
  PROVE  JobKeepsItsBundle'
<1>0. JobsStay /\ job' \in [Requests -> Job \cup {None}]
  BY JobsStayStep
<1>1. \A v \in Versions : \A f \in Entries :
        /\ rows[v] # None => rows[v].bundles[f] \in Nat
        /\ rows'[v] # None => rows'[v].bundles[f] \in Nat
  BY DEF RowTypes, Row, Versions
<1>2. ASSUME NEW j \in Requests, job'[j] # None
      PROVE  /\ rows'[job'[j].version] # None
             /\ 1 <= job'[j].code /\ job'[j].code <= rows'[job'[j].version].bundles[job'[j].entry]
  <2>1. CASE job[j] = None
    <3>1. PICK row \in Job : Inserts(j, row) /\ job'[j] = row
      BY <1>2, <2>1, NewJob
    <3>2. QED
      BY <3>1 DEF Inserts
  <2>2. CASE job[j] # None
    <3>1. SameBundle(job'[j], job[j]) /\ job[j] \in Job
      BY <1>0, <2>2 DEF JobsStay, JobTypes
    <3>2. /\ rows[job[j].version] # None /\ 1 <= job[j].code
          /\ job[j].code <= rows[job[j].version].bundles[job[j].entry]
      BY <2>2 DEF JobKeepsItsBundle
    <3>3. job[j].version \in Versions /\ job[j].entry \in Entries /\ job[j].code \in Nat
      BY <3>1 DEF Job
    <3>4. /\ rows'[job[j].version] # None
          /\ rows[job[j].version].bundles[job[j].entry] <= rows'[job[j].version].bundles[job[j].entry]
      BY <3>2, <3>3 DEF RowsGrow
    <3>5. job[j].code <= rows'[job[j].version].bundles[job[j].entry]
      BY <1>1, <3>2, <3>3, <3>4
    <3>6. QED
      BY <3>1, <3>2, <3>4, <3>5 DEF SameBundle
  <2>3. QED
    BY <2>1, <2>2
<1>3. ASSUME NEW e \in Requests, exec'[e].at \in {"start", "run"}
      PROVE  job'[exec'[e].job].code <= exec'[e].code
  <2>1. /\ exec[e].at # "none" /\ exec'[e].job = exec[e].job
        /\ \/ exec[e].at \in {"start", "run"} /\ exec'[e].code = exec[e].code
           \/ exec'[e].code = rows[JobOfExec(e).version].bundles[JobOfExec(e).entry]
    BY <1>3, CodeRead
  <2>2. exec[e].job \in Requests /\ JobOfExec(e) # None
    BY <2>1 DEF Staffed, JobOfExec
  <2>3. job'[exec[e].job].code = JobOfExec(e).code
    BY <1>0, <2>2 DEF JobsStay, SameBundle, JobOfExec
  <2>4. JobOfExec(e).code <= rows[JobOfExec(e).version].bundles[JobOfExec(e).entry]
    BY <2>2 DEF JobKeepsItsBundle, JobOfExec
  <2>5. exec[e].at \in {"start", "run"} => JobOfExec(e).code <= exec[e].code
    BY DEF JobKeepsItsBundle
  <2>6. QED
    BY <2>1, <2>3, <2>4, <2>5
<1>4. QED
  BY <1>2, <1>3 DEF JobKeepsItsBundle, JobOfExec

LEMMA WorkerStep ==
  ASSUME JobTypes, [Next]_vars
  PROVE  worker' \in {None, "idle", "paused", "offline"}
<1>1. ASSUME NEW r \in Requests, JobRequestStep(r) PROVE worker' \in {None, "idle", "paused", "offline"}
  <2>1. ASSUME NEW a \in WorkersAsk, ControlWorkers(r, a)
        PROVE  worker' \in {"idle", "paused", "offline"}
    BY <2>1 DEF ControlWorkers, WorkersAsk
  <2>2. QED
    BY <1>1, <2>1 DEF JobRequestStep, CreateJob, InsertJob, LogRequest, Control, RequestFails,
                      jobvars, JobTypes
<1>2. QED
  BY <1>1, ExecutorsAskNothing DEF Next, vars, jobvars, JobTypes, Crash

(* The invariant behind the theorems about jobs.                           *)
JInv == WInv /\ JobTypes /\ Staffed /\ Fresh /\ JobKeepsItsBundle

LEMMA JobsInit == Init => JInv
<1> SUFFICES ASSUME Init PROVE JInv
  OBVIOUS
<1>1. /\ job = [r \in Requests |-> None] /\ orphan = {} /\ worker = None
      /\ exec = [r \in Requests |-> Idle] /\ pc = [r \in Requests |-> "new"]
  BY DEF Init, InitVersions
<1>2. JobTypes
  BY <1>1, IdleFacts DEF JobTypes
<1>3. Staffed /\ Fresh /\ JobKeepsItsBundle
  BY <1>1, IdleFacts DEF Staffed, Fresh, JobKeepsItsBundle, Ended
<1>4. QED
  BY <1>2, <1>3, VersionsInit DEF JInv

LEMMA JobsStepInv == JInv /\ [Next]_vars => JInv' /\ JobMove
<1> SUFFICES ASSUME JInv, [Next]_vars PROVE JInv' /\ JobMove
  OBVIOUS
<1>1. WInv' /\ RowsGrow
  BY VersionsStepInv, RowsOnlyGrow DEF JInv, WInv
<1>2. JobMove
  BY StepMovesJobs DEF JInv, WInv
<1>3. JobTypes'
  BY <1>2, JobsStayStep, WorkerStep DEF JInv, JobTypes
<1>4. Staffed' /\ Fresh' /\ JobKeepsItsBundle'
  BY <1>1, <1>2, StaffedStep, FreshStep, KeepsStep DEF JInv, WInv
<1>5. QED
  BY <1>1, <1>2, <1>3, <1>4 DEF JInv

(* The workspace, its versions, its requests, jobs and executors have      *)
(* their types.                                                            *)
THEOREM TypeCorrect == Spec => []TypeOK
<1>1. JInv => TypeOK
  BY DEF JInv, WInv, ReqTypes, RowTypes, JobTypes, TypeOK, Where, Asks
<1>2. QED
  BY <1>1, JobsInit, JobsStepInv, PTL DEF Spec

(* A job keeps the bundle it was created for, and no attempt runs an older *)
(* one.  It rests on RowsGrow: no transaction removes a row or a bundle.   *)
THEOREM JobsKeepTheirBundles == Spec => []JobKeepsItsBundle
<1>1. JInv => JobKeepsItsBundle
  BY DEF JInv
<1>2. QED
  BY <1>1, JobsInit, JobsStepInv, PTL DEF Spec

-----------------------------------------------------------------------------
(* No job is left behind                                                   *)

Pending(row) == row.status = "running" \/ (row.status = "queued" /\ row.runNow)

(* Executor e will write a status of j again before it ends.               *)
Runs(e, j) == exec[e].job = j /\ exec[e].at \notin {"none", "last", "done"}
Served(j) == (\E e \in Requests : Runs(e, j)) \/ (\E r \in Requests : AboutTo(r, j))
PendingServed ==
  \A j \in Requests \ orphan : job[j] # None /\ Pending(job[j]) => Served(j)

LEMMA ServedStep ==
  ASSUME WellAsked, JobTypes, Staffed, Fresh, PendingServed, JobMove
  PROVE  PendingServed'
<1>1. SUFFICES ASSUME NEW j \in Requests, j \notin orphan', job'[j] # None, Pending(job'[j])
               PROVE  \/ \E e \in Requests : Runs(e, j)'
                      \/ \E r \in Requests : AboutTo(r, j)'
  BY DEF PendingServed, Served, Pending
<1> DEFINE Goal == \/ \E e \in Requests : Runs(e, j)'
                   \/ \E r \in Requests : AboutTo(r, j)'
(* A step that leaves the job and those who serve it alone.                *)
<1>2. ASSUME job'[j] = job[j], orphan' = orphan,
             \A e \in Requests : Runs(e, j) => Runs(e, j)',
             \A r \in Requests : AboutTo(r, j) => AboutTo(r, j)'
      PROVE  Goal
  <2>1. Served(j)
    BY <1>1, <1>2 DEF PendingServed
  <2>2. QED
    BY <1>2, <2>1 DEF Served
<1>3. ASSUME NEW r \in Requests, NEW q \in Requests, Alone(r), q # r, AboutTo(q, j)
      PROVE  AboutTo(q, j)'
  BY <1>3, AloneFacts DEF AboutTo
<1>4. ASSUME UNCHANGED <<reqvars, job, orphan, exec>> PROVE Goal
  BY <1>2, <1>4 DEF reqvars, Runs, AboutTo, Executes, JobOf
<1>5. ASSUME NEW r \in Requests, Quiet(r) PROVE Goal
  <2>1. Alone(r) /\ ~AboutTo(r, j) /\ UNCHANGED <<job, orphan, exec>>
    BY <1>5 DEF Quiet, AboutTo
  <2>2. QED
    BY <1>2, <1>3, <2>1 DEF Runs
<1>6. ASSUME NEW r \in Requests, Loses(r) PROVE Goal
  <2>1. Alone(r) /\ UNCHANGED <<job, exec>> /\ orphan' = orphan \cup {JobOf(r)}
    BY <1>6 DEF Loses
  <2>2. j \notin orphan /\ ~AboutTo(r, j)
    BY <1>1, <2>1 DEF AboutTo
  <2>3. Served(j)
    BY <1>1, <2>1, <2>2 DEF PendingServed
  <2>4. QED
    BY <1>3, <2>1, <2>2, <2>3 DEF Served, Runs
<1>7. ASSUME NEW r \in Requests, Starts(r) PROVE Goal
  <2>1. Alone(r) /\ UNCHANGED <<job, orphan>>
    BY <1>7 DEF Starts
  <2>2. /\ exec[r].at = "none" /\ exec'[r].at = "find" /\ exec'[r].job = JobOf(r)
        /\ \A e \in Requests : e # r => exec'[e] = exec[e]
    BY <1>7, StartsFacts, IdleFacts
  <2>3. CASE JobOf(r) = j
    BY <2>2, <2>3 DEF Runs
  <2>4. CASE JobOf(r) # j
    BY <1>2, <1>3, <2>1, <2>2, <2>4 DEF Runs, AboutTo
  <2>5. QED
    BY <2>3, <2>4
<1>8. ASSUME NEW r \in Requests, NEW row \in Job, Inserts(r, row) PROVE Goal
  <2>1. /\ Alone(r) /\ UNCHANGED <<orphan, exec>> /\ JobBecomesRow(r, row)
        /\ pc[r] = "resolve" /\ pc'[r] = "log" /\ asked'[r] = asked[r]
        /\ asked[r].route = "job" /\ row.status = "queued" /\ row.runNow = asked[r].runNow
    BY <1>8, AskFields DEF Inserts
  <2>2. CASE j = r
    <3>1. asked[r].runNow
      BY <1>1, <2>1, <2>2, JobBecomesFacts DEF Pending
    <3>2. AboutTo(r, j)'
      BY <2>1, <2>2, <3>1 DEF AboutTo, Executes, JobOf
    <3>3. QED
      BY <3>2
  <2>3. CASE j # r
    <3>1. job'[j] = job[j] /\ ~AboutTo(r, j)
      BY <2>1, <2>3, JobBecomesFacts DEF AboutTo
    <3>2. QED
      BY <1>2, <1>3, <2>1, <3>1 DEF Runs
  <2>4. QED
    BY <2>2, <2>3
<1>9. ASSUME NEW r \in Requests, NEW a \in ControlAsk, Controls(r, a) PROVE Goal
  <2>1. /\ Alone(r) /\ pc[r] = "new" /\ a.job \in Requests /\ job[a.job] \in Job
        /\ JobBecomesRow(a.job, Controlled(job[a.job], a.route))
        /\ a.route \in {"retry", "resume", "cancel", "pause"}
    BY <1>9, AskFields DEF Controls, JobTypes
  <2>2. \A e \in Requests : exec'[e].at = exec[e].at /\ exec'[e].job = exec[e].job
    BY <1>9, ControlsFacts
  <2>3. CASE j # a.job
    <3>1. job'[j] = job[j] /\ j \notin orphan /\ ~AboutTo(r, j)
      BY <1>1, <1>9, <2>1, <2>3, JobBecomesFacts DEF Controls, AboutTo
    <3>2. Served(j)
      BY <1>1, <3>1 DEF PendingServed
    <3>3. QED
      BY <1>3, <2>1, <2>2, <3>1, <3>2 DEF Served, Runs
  <2>4. CASE j = a.job /\ a.route \in {"retry", "resume"}
    <3>1. pc'[r] = "log" /\ asked'[r] = a
      BY <1>9, <2>4 DEF Controls
    <3>2. AboutTo(r, j)'
      BY <2>4, <3>1 DEF AboutTo, Executes, JobOf
    <3>3. QED
      BY <3>2
  <2>5. CASE j = a.job /\ a.route \in {"cancel", "pause"}
    <3>1. job'[j].status \in {"cancelled", "paused"}
      BY <2>1, <2>5, JobBecomesFacts, ControlledFacts
    <3>2. QED
      BY <1>1, <3>1 DEF Pending
  <2>6. QED
    BY <2>1, <2>3, <2>4, <2>5
<1>10. ASSUME NEW e \in Requests, NEW x \in Exec, NEW row \in Job, ExecMove(e, x, row),
              UNCHANGED reqvars
       PROVE  Goal
  <2>1. /\ exec'[e] = x /\ x.job = exec[e].job /\ exec[e].at \notin {"none", "done"}
        /\ job'[exec[e].job] = row /\ x.at # "none"
        /\ \A d \in Requests : d # e => exec'[d] = exec[d]
        /\ \A i \in Requests : i # exec[e].job => job'[i] = job[i]
    BY <1>10, ExecMoveFacts
  <2>2. \A r \in Requests : AboutTo(r, j) => AboutTo(r, j)'
    BY <1>10 DEF reqvars, AboutTo, Executes, JobOf
  <2>3. orphan \subseteq orphan'
    BY <1>10 DEF ExecMove
  <2>4. CASE exec[e].job # j
    <3>1. job'[j] = job[j] /\ j \notin orphan /\ \A d \in Requests : Runs(d, j) => Runs(d, j)'
      BY <1>1, <2>1, <2>3, <2>4 DEF Runs
    <3>2. Served(j)
      BY <1>1, <3>1 DEF PendingServed
    <3>3. QED
      BY <2>2, <3>1, <3>2 DEF Served
  <2>5. CASE exec[e].job = j /\ x.at \notin {"last", "done"}
    <3>1. Runs(e, j)'
      BY <2>1, <2>5 DEF Runs
    <3>2. QED
      BY <3>1
  <2>6. CASE exec[e].job = j /\ x.at \in {"last", "done"}
    <3>1. j \notin orphan' /\ Pending(row)
      BY <1>1, <2>1, <2>6
    <3>2. Attempts(exec[e], x, JobOfExec(e), row)
      BY <1>10, <2>6, <3>1 DEF ExecMove
    <3>3. exec[e].at = "last" /\ row = job[j]
      BY <2>6, <3>1, <3>2 DEF Attempts, Pending, JobOfExec
    <3>4. Served(j)
      BY <1>1, <2>1, <2>3, <2>6, <3>3 DEF PendingServed
    <3>5. \A d \in Requests : Runs(d, j) => Runs(d, j)'
      BY <2>1, <3>3 DEF Runs
    <3>6. QED
      BY <2>2, <3>4, <3>5 DEF Served
  <2>7. QED
    BY <2>4, <2>5, <2>6
<1>11. ASSUME Crash PROVE FALSE
  <2>1. job' = job /\ orphan' = {i \in Requests : job[i] # None /\ job[i].status \in {"queued", "running"}}
    BY <1>11 DEF Crash
  <2>2. QED
    BY <1>1, <2>1 DEF Pending
<1>12. QED
  BY <1>4, <1>5, <1>6, <1>7, <1>8, <1>9, <1>10, <1>11 DEF JobMove

(* A job that waits to be run or is running is left without an executor    *)
(* and without a request about to start one only by a fault.  NoOrphanJob  *)
(* alone is not inductive: an executor that has written its last status    *)
(* still counts for it, and ends.  PendingServed asks for one that will    *)
(* write again, or a request, so a retry that came in between has its own. *)
THEOREM NoJobLeftBehind == Spec => []NoOrphanJob
<1>1. Init => PendingServed
  BY DEF Init, PendingServed
<1>2. JInv /\ PendingServed /\ [Next]_vars => (JInv /\ PendingServed)'
  BY JobsStepInv, ServedStep DEF JInv, WInv
<1>3. PendingServed => NoOrphanJob
  BY DEF PendingServed, NoOrphanJob, Pending, Served, Runs, AboutTo
<1>4. QED
  BY <1>1, <1>2, <1>3, JobsInit, PTL DEF Spec

-----------------------------------------------------------------------------
(* The budget of attempts                                                  *)

Busy == {e \in Requests : exec[e].at # "none"}
ExecutorsOf(j) == {e \in Requests : exec[e].job = j}

(* The executors of j whose next attempt is no longer decided on.          *)
Ready == {"find", "start", "requeue", "again"}
ReadyFor(j) == {e \in Requests : exec[e].job = j /\ exec[e].at \in Ready}

Within(j) == IF ExecutorsOf(j) = {} THEN job[j].attempt = 0
             ELSE job[j].attempt + Cardinality(ReadyFor(j))
                  <= MaxAttempts + Cardinality(ExecutorsOf(j)) - 1
Budget == IsFiniteSet(Busy) /\ \A j \in Requests : job[j] # None => Within(j)

LEMMA CountFacts ==
  ASSUME IsFiniteSet(Busy), JobTypes, Staffed, NEW j \in Requests
  PROVE  /\ IsFiniteSet(ExecutorsOf(j)) /\ IsFiniteSet(ReadyFor(j))
         /\ Cardinality(ExecutorsOf(j)) \in Nat /\ Cardinality(ReadyFor(j)) \in Nat
         /\ Cardinality(ReadyFor(j)) <= Cardinality(ExecutorsOf(j))
         /\ ExecutorsOf(j) # {} => Cardinality(ExecutorsOf(j)) >= 1
<1>1. ExecutorsOf(j) \subseteq Busy
  BY IdleFacts, NoJobAssumption DEF ExecutorsOf, Busy, Staffed
<1>2. ReadyFor(j) \subseteq ExecutorsOf(j)
  BY DEF ReadyFor, ExecutorsOf
<1>3. IsFiniteSet(ExecutorsOf(j))
  BY <1>1, FS_Subset
<1>4. IsFiniteSet(ReadyFor(j)) /\ Cardinality(ReadyFor(j)) <= Cardinality(ExecutorsOf(j))
  BY <1>2, <1>3, FS_Subset
<1>5. Cardinality(ExecutorsOf(j)) \in Nat /\ Cardinality(ReadyFor(j)) \in Nat
  BY <1>3, <1>4, FS_CardinalityType
<1>6. ExecutorsOf(j) # {} => Cardinality(ExecutorsOf(j)) # 0
  BY <1>3, FS_EmptySet
<1>7. QED
  BY <1>3, <1>4, <1>5, <1>6

(* The count is kept by a step that starts no attempt of j and makes none  *)
(* of its executors ready.                                                 *)
LEMMA WithinStays ==
  ASSUME IsFiniteSet(Busy), JobTypes, Staffed, NEW j \in Requests, job[j] # None, Within(j),
         \A e \in Requests : exec'[e].job = exec[e].job,
         \A e \in Requests : exec[e].job = j /\ exec'[e].at \in Ready => exec[e].at \in Ready,
         job'[j].attempt = job[j].attempt \/ job'[j].attempt = 0
  PROVE  Within(j)'
<1>1. ExecutorsOf(j)' = ExecutorsOf(j) /\ ReadyFor(j)' \subseteq ReadyFor(j)
  BY DEF ExecutorsOf, ReadyFor, Ready
<1>2. Cardinality(ReadyFor(j)') <= Cardinality(ReadyFor(j)) /\ Cardinality(ReadyFor(j)') \in Nat
  BY <1>1, CountFacts, FS_Subset, FS_CardinalityType
<1>3. job[j].attempt \in Nat
  BY DEF JobTypes, Job
<1>4. CASE ExecutorsOf(j) = {}
  BY <1>1, <1>4 DEF Within
<1>5. CASE ExecutorsOf(j) # {}
  <2>1. job'[j].attempt + Cardinality(ReadyFor(j)')
        <= MaxAttempts + Cardinality(ExecutorsOf(j)) - 1
    BY <1>2, <1>3, <1>5, CountFacts, MaxAttemptsAssumption DEF Within
  <2>2. QED
    BY <1>1, <1>5, <2>1 DEF Within
<1>6. QED
  BY <1>4, <1>5

LEMMA BusyStep ==
  ASSUME JobTypes, Staffed, Fresh, IsFiniteSet(Busy), JobMove
  PROVE  IsFiniteSet(Busy')
<1>1. CASE exec' = exec
  BY <1>1 DEF Busy
<1>2. ASSUME \A e \in Requests : exec[e].at = "none" => exec'[e].at = "none"
      PROVE  IsFiniteSet(Busy')
  <2>1. Busy' \subseteq Busy
    BY <1>2 DEF Busy
  <2>2. QED
    BY <2>1, FS_Subset
<1>3. ASSUME NEW r \in Requests, Starts(r) PROVE IsFiniteSet(Busy')
  <2>1. Busy' \subseteq Busy \cup {r}
    BY <1>3, StartsFacts DEF Busy
  <2>2. IsFiniteSet(Busy \cup {r})
    BY FS_AddElement
  <2>3. QED
    BY <2>1, <2>2, FS_Subset
<1>4. ASSUME NEW r \in Requests, NEW a \in ControlAsk, Controls(r, a) PROVE IsFiniteSet(Busy')
  BY <1>2, <1>4, ControlsFacts
<1>5. ASSUME NEW e \in Requests, NEW x \in Exec, NEW row \in Job, ExecMove(e, x, row)
      PROVE  IsFiniteSet(Busy')
  BY <1>2, <1>5, ExecMoveFacts
<1>6. CASE Crash
  BY <1>2, <1>6, CrashFacts
<1>7. QED
  BY <1>1, <1>3, <1>4, <1>5, <1>6 DEF JobMove, Quiet, Loses, Inserts

(* A request starts an executor, which is ready.                           *)
LEMMA StartWithin ==
  ASSUME IsFiniteSet(Busy), JobTypes, Staffed, Fresh, NEW r \in Requests, Starts(r),
         NEW j \in Requests, job[j] # None, Within(j)
  PROVE  Within(j)'
<1>1. /\ exec[r].job = None /\ r \in Requests /\ exec'[r].at = "find" /\ exec'[r].job = JobOf(r)
      /\ \A e \in Requests : e # r => exec'[e] = exec[e]
  BY StartsFacts, IdleFacts
<1>2. job' = job /\ job[j].attempt \in Nat
  BY DEF Starts, JobTypes, Job
<1>3. r \notin ExecutorsOf(j) /\ r \notin ReadyFor(j)
  BY <1>1, NoJobAssumption DEF ExecutorsOf, ReadyFor
<1>4. CASE JobOf(r) = j
  <2>1. ExecutorsOf(j)' = ExecutorsOf(j) \cup {r} /\ ReadyFor(j)' = ReadyFor(j) \cup {r}
    BY <1>1, <1>3, <1>4 DEF ExecutorsOf, ReadyFor, Ready
  <2>2. /\ Cardinality(ExecutorsOf(j)') = Cardinality(ExecutorsOf(j)) + 1
        /\ Cardinality(ReadyFor(j)') = Cardinality(ReadyFor(j)) + 1
    BY <1>3, <2>1, CountFacts, FS_AddElement
  <2>3. ExecutorsOf(j) = {} => Cardinality(ReadyFor(j)) = 0 /\ Cardinality(ExecutorsOf(j)) = 0
    <3>1. ExecutorsOf(j) = {} => ReadyFor(j) = {}
      BY DEF ExecutorsOf, ReadyFor
    <3>2. QED
      BY <3>1, FS_EmptySet
  <2>4. job[j].attempt + Cardinality(ReadyFor(j)')
        <= MaxAttempts + Cardinality(ExecutorsOf(j)') - 1
    BY <1>2, <2>2, <2>3, CountFacts, MaxAttemptsAssumption DEF Within
  <2>5. ExecutorsOf(j)' # {}
    BY <2>1
  <2>6. QED
    BY <1>2, <2>4, <2>5 DEF Within
<1>5. CASE JobOf(r) # j
  <2>1. ExecutorsOf(j)' = ExecutorsOf(j) /\ ReadyFor(j)' = ReadyFor(j)
    BY <1>1, <1>3, <1>5 DEF ExecutorsOf, ReadyFor
  <2>2. QED
    BY <1>2, <2>1 DEF Within
<1>6. QED
  BY <1>4, <1>5

(* An executor leaves the ready ones with its attempt, and is ready again  *)
(* after it only if the row has attempts left.                             *)
LEMMA AttemptWithin ==
  ASSUME IsFiniteSet(Busy), JobTypes, Staffed, NEW e \in Requests, NEW x \in Exec,
         NEW row \in Job, ExecMove(e, x, row), NEW j \in Requests, exec[e].job = j,
         job[j] # None, Within(j)
  PROVE  Within(j)'
<1> DEFINE att == row.attempt + Cardinality(ReadyFor(j)')
                  <= MaxAttempts + Cardinality(ExecutorsOf(j)) - 1
<1>1. /\ exec'[e] = x /\ x.job = j /\ \A d \in Requests : d # e => exec'[d] = exec[d]
      /\ j \in Requests /\ job[j] \in Job /\ job'[j] = row
      /\ row.attempt \in Nat /\ job[j].attempt \in Nat
  BY ExecMoveFacts DEF Job
<1>2. exec[e].job = j
  OBVIOUS
<1>3. /\ ExecutorsOf(j)' = ExecutorsOf(j) /\ e \in ExecutorsOf(j)
      /\ \A d \in Requests : exec'[d].job = exec[d].job
  BY <1>1, <1>2 DEF ExecutorsOf
<1>4. /\ Cardinality(ReadyFor(j)) \in Nat /\ Cardinality(ExecutorsOf(j)) \in Nat
      /\ IsFiniteSet(ReadyFor(j)) /\ IsFiniteSet(ExecutorsOf(j))
      /\ job[j].attempt + Cardinality(ReadyFor(j)) <= MaxAttempts + Cardinality(ExecutorsOf(j)) - 1
  BY <1>1, <1>2, <1>3, CountFacts DEF Within
<1>5. att => Within(j)'
  BY <1>1, <1>3 DEF Within
<1>6. Attempts(exec[e], x, job[j], row) \/ (x.at = "done" /\ row = job[j])
  BY <1>1, <1>2 DEF ExecMove, JobOfExec
<1>7. CASE exec[e].at = "start" /\ x.at = "run" /\ row.attempt = job[j].attempt + 1
  <2>1. ReadyFor(j) = ReadyFor(j)' \cup {e} /\ e \notin ReadyFor(j)'
    <3>1. e \in ReadyFor(j) /\ e \notin ReadyFor(j)'
      BY <1>1, <1>2, <1>7 DEF ReadyFor, Ready
    <3>2. \A d \in Requests : d # e => (d \in ReadyFor(j)' <=> d \in ReadyFor(j))
      BY <1>1 DEF ReadyFor, Ready
    <3>3. ReadyFor(j)' \subseteq Requests /\ ReadyFor(j) \subseteq Requests
      BY DEF ReadyFor
    <3>4. QED
      BY <3>1, <3>2, <3>3
  <2>2. Cardinality(ReadyFor(j)') = Cardinality(ReadyFor(j)) - 1
    <3>1. ReadyFor(j)' \subseteq ReadyFor(j)
      BY <2>1
    <3>2. IsFiniteSet(ReadyFor(j)') /\ Cardinality(ReadyFor(j)') \in Nat
      BY <1>4, <3>1, FS_Subset, FS_CardinalityType
    <3>3. Cardinality(ReadyFor(j)' \cup {e}) = Cardinality(ReadyFor(j)') + 1
      BY <2>1, <3>2, FS_AddElement
    <3>4. Cardinality(ReadyFor(j)) = Cardinality(ReadyFor(j)') + 1
      BY <2>1, <3>3
    <3>5. QED
      BY <3>2, <3>4
  <2>3. QED
    BY <1>1, <1>2, <1>4, <1>5, <1>7, <2>2, MaxAttemptsAssumption
<1>8. CASE exec[e].at = "run" /\ x.at = "requeue" /\ row = job[j] /\ job[j].attempt < MaxAttempts
  <2>1. ReadyFor(j)' = ReadyFor(j) \cup {e} /\ e \notin ReadyFor(j)
    BY <1>1, <1>2, <1>8 DEF ReadyFor, Ready
  <2>2. Cardinality(ReadyFor(j)') = Cardinality(ReadyFor(j)) + 1
    BY <1>4, <2>1, FS_AddElement
  <2>3. Cardinality(ReadyFor(j)) + 1 <= Cardinality(ExecutorsOf(j))
    <3>1. IsFiniteSet(ExecutorsOf(j) \ {e}) /\ Cardinality(ExecutorsOf(j) \ {e}) = Cardinality(ExecutorsOf(j)) - 1
      BY <1>3, <1>4, FS_RemoveElement
    <3>2. ReadyFor(j) \subseteq ExecutorsOf(j) \ {e}
      BY <2>1 DEF ReadyFor, ExecutorsOf
    <3>3. Cardinality(ReadyFor(j)) <= Cardinality(ExecutorsOf(j) \ {e})
      BY <3>1, <3>2, FS_Subset
    <3>4. QED
      BY <1>4, <3>1, <3>3
  <2>4. QED
    BY <1>1, <1>2, <1>4, <1>5, <1>8, <2>2, <2>3, MaxAttemptsAssumption
<1>9. CASE row.attempt = job[j].attempt /\ (x.at \in Ready => exec[e].at \in Ready)
  <2>1. \A d \in Requests : exec[d].job = j /\ exec'[d].at \in Ready => exec[d].at \in Ready
    BY <1>1, <1>9
  <2>2. QED
    BY <1>1, <1>2, <1>3, <1>9, <2>1, WithinStays
<1>10. QED
  BY <1>6, <1>7, <1>8, <1>9 DEF Attempts, Ready

LEMMA BudgetStep ==
  ASSUME JobTypes, Staffed, Fresh, Budget, JobMove
  PROVE  Budget'
<1>0. IsFiniteSet(Busy) /\ IsFiniteSet(Busy')
  BY BusyStep DEF Budget
<1>1. SUFFICES ASSUME NEW j \in Requests, job'[j] # None PROVE Within(j)'
  BY <1>0 DEF Budget
<1>2. CASE job[j] = None
  <2>1. PICK row \in Job : Inserts(j, row) /\ job'[j] = row
    BY <1>1, <1>2, NewJob
  <2>2. exec' = exec /\ job'[j].attempt = 0
    BY <2>1 DEF Inserts
  <2>3. ExecutorsOf(j)' = {}
    BY <1>2, <2>2, IdleFacts, NoJobAssumption DEF ExecutorsOf, Staffed
  <2>4. QED
    BY <2>2, <2>3 DEF Within
<1>3. CASE job[j] # None
  <2>0. Within(j)
    BY <1>3 DEF Budget
  <2>1. ASSUME exec' = exec, job'[j] = job[j] PROVE Within(j)'
    BY <2>0, <2>1 DEF Within, ExecutorsOf, ReadyFor
  <2>2. ASSUME NEW r \in Requests, Quiet(r) \/ Loses(r) PROVE exec' = exec /\ job' = job
    BY <2>2 DEF Quiet, Loses
  <2>3. ASSUME NEW r \in Requests, Starts(r) PROVE Within(j)'
    BY <1>0, <1>3, <2>0, <2>3, StartWithin
  <2>4. ASSUME NEW r \in Requests, NEW row \in Job, Inserts(r, row)
        PROVE  exec' = exec /\ job'[j] = job[j]
    <3>1. job[r] = None /\ JobBecomesRow(r, row) /\ exec' = exec
      BY <2>4 DEF Inserts, Fresh, Ended
    <3>2. QED
      BY <1>3, <3>1, JobBecomesFacts
  <2>5. ASSUME NEW r \in Requests, NEW a \in ControlAsk, Controls(r, a) PROVE Within(j)'
    <3>1. \A e \in Requests : exec'[e].job = exec[e].job /\ exec'[e].at = exec[e].at
      BY <2>5, ControlsFacts
    <3>2. /\ a.job \in Requests /\ job[a.job] \in Job
          /\ JobBecomesRow(a.job, Controlled(job[a.job], a.route))
          /\ a.route \in {"retry", "resume", "cancel", "pause"}
      BY <2>5, AskFields DEF Controls, JobTypes
    <3>3. job'[j].attempt = job[j].attempt \/ job'[j].attempt = 0
      BY <3>2, JobBecomesFacts, ControlledFacts
    <3>4. QED
      BY <1>0, <1>3, <2>0, <3>1, <3>3, WithinStays
  <2>6. ASSUME NEW e \in Requests, NEW x \in Exec, NEW row \in Job, ExecMove(e, x, row)
        PROVE  Within(j)'
    <3>1. CASE exec[e].job = j
      BY <1>0, <1>3, <2>0, <2>6, <3>1, AttemptWithin
    <3>2. CASE exec[e].job # j
      <4>1. /\ job'[j] = job[j] /\ exec'[e].job = exec[e].job
            /\ \A d \in Requests : d # e => exec'[d] = exec[d]
        BY <2>6, <3>2, ExecMoveFacts
      <4>2. QED
        BY <1>0, <1>3, <2>0, <3>2, <4>1, WithinStays
    <3>3. QED
      BY <3>1, <3>2
  <2>7. ASSUME Crash PROVE Within(j)'
    <3>1. \A e \in Requests : exec'[e].job = exec[e].job /\ (exec'[e].at \in Ready => exec[e].at \in Ready)
      BY <2>7, CrashFacts DEF Ready
    <3>2. job' = job
      BY <2>7 DEF Crash
    <3>3. QED
      BY <1>0, <1>3, <2>0, <3>1, <3>2, WithinStays
  <2>8. QED
    BY <2>1, <2>2, <2>3, <2>4, <2>5, <2>6, <2>7 DEF JobMove
<1>4. QED
  BY <1>2, <1>3

(* Executors of one job, which do not know of each other, together go      *)
(* beyond maxAttempts by at most one attempt for every retry or resume.    *)
(* Budget also counts the executors whose next attempt is already decided  *)
(* on, for the check of the row and the attempt are apart.                 *)
THEOREM AttemptsBounded == Spec => []AttemptsWithinBudget
<1>1. Init => Budget
  <2>1. SUFFICES ASSUME Init PROVE Budget
    OBVIOUS
  <2>2. Busy = {} /\ \A j \in Requests : job[j] = None
    BY <2>1, IdleFacts DEF Init, Busy
  <2>3. QED
    BY <2>2, FS_EmptySet DEF Budget
<1>2. JInv /\ Budget /\ [Next]_vars => (JInv /\ Budget)'
  BY JobsStepInv, BudgetStep DEF JInv
<1>3. JInv /\ Budget => AttemptsWithinBudget
  <2>1. SUFFICES ASSUME JInv, Budget, NEW j \in Requests, job[j] # None
                 PROVE  job[j].attempt <= MaxAttempts + (IF Cardinality(ExecutorsOf(j)) = 0 THEN 0
                                                         ELSE Cardinality(ExecutorsOf(j)) - 1)
    BY DEF AttemptsWithinBudget, ExecutorsOf
  <2>2. /\ Cardinality(ExecutorsOf(j)) \in Nat /\ Cardinality(ReadyFor(j)) \in Nat
        /\ ExecutorsOf(j) # {} => Cardinality(ExecutorsOf(j)) >= 1
    BY <2>1, CountFacts DEF Budget, JInv
  <2>3. job[j].attempt \in Nat /\ Within(j)
    BY <2>1 DEF Budget, JInv, JobTypes, Job
  <2>4. QED
    BY <2>2, <2>3, FS_EmptySet, MaxAttemptsAssumption DEF Within
<1>4. QED
  BY <1>1, <1>2, <1>3, JobsInit, PTL DEF Spec

-----------------------------------------------------------------------------
(* What a cancel stops                                                     *)

(* The history is right: an executor within an attempt of a job that is    *)
(* cancelled by now was within that attempt at the cancel.                 *)
OvertakenKnown == \A e \in Requests :
  exec[e].at \in {"start", "run", "requeue", "fail"} /\ JobOfExec(e).status = "cancelled"
    => exec[e].overtaken

(* The steps that take a job out of cancelled.                             *)
ByRequest == \E r \in Requests : pc[r] = "new" /\ pc'[r] # "new"
ByOvertaken(j) == \E e \in Requests : /\ exec[e].job = j /\ exec'[e] # exec[e]
                                      /\ exec[e].overtaken \/ At(e, "mark")

LEMMA UncancelStep ==
  ASSUME JobTypes, Staffed, Fresh, OvertakenKnown, JobMove, NEW j \in Requests,
         job[j] # None, job[j].status = "cancelled", job'[j].status # "cancelled"
  PROVE  ByRequest \/ ByOvertaken(j)
<1>1. job'[j] # job[j] /\ job' # job
  OBVIOUS
<1>2. ASSUME NEW r \in Requests, NEW row \in Job, Inserts(r, row) PROVE FALSE
  <2>1. job[r] = None /\ JobBecomesRow(r, row)
    BY <1>2 DEF Inserts, Fresh, Ended
  <2>2. QED
    BY <1>1, <2>1, JobBecomesFacts
<1>3. ASSUME NEW r \in Requests, NEW a \in ControlAsk, Controls(r, a) PROVE ByRequest
  BY <1>3 DEF Controls, ByRequest
<1>4. ASSUME NEW e \in Requests, NEW x \in Exec, NEW row \in Job, ExecMove(e, x, row)
      PROVE  ByOvertaken(j)
  <2>1. /\ exec[e].job = j /\ job'[j] = row /\ exec'[e] = x
    BY <1>1, <1>4, ExecMoveFacts
  <2>2. Attempts(exec[e], x, job[j], row)
    BY <1>1, <1>4, <2>1 DEF ExecMove, JobOfExec
  <2>3. /\ exec[e].at \in {"start", "run", "requeue", "fail", "mark"} /\ x.at # exec[e].at
    BY <1>1, <2>1, <2>2 DEF Attempts
  <2>4. exec[e].overtaken \/ At(e, "mark")
    BY <2>1, <2>3 DEF OvertakenKnown, JobOfExec, At
  <2>5. QED
    BY <2>1, <2>3, <2>4 DEF ByOvertaken
<1>5. QED
  BY <1>1, <1>2, <1>3, <1>4 DEF JobMove, Quiet, Loses, Starts, Crash

LEMMA OvertakenStep ==
  ASSUME JobTypes, Staffed, Fresh, OvertakenKnown, JobMove
  PROVE  OvertakenKnown'
<1>1. SUFFICES ASSUME NEW e \in Requests, exec'[e].at \in {"start", "run", "requeue", "fail"},
                      job'[exec'[e].job].status = "cancelled"
               PROVE  exec'[e].overtaken
  BY DEF OvertakenKnown, JobOfExec
(* The executor and its job are as before.                                 *)
<1>2. ASSUME exec'[e] = exec[e], job'[exec[e].job] = job[exec[e].job]
      PROVE  exec'[e].overtaken
  BY <1>1, <1>2 DEF OvertakenKnown, JobOfExec
<1>3. ASSUME NEW r \in Requests, Quiet(r) \/ Loses(r) PROVE UNCHANGED <<job, exec>>
  BY <1>3 DEF Quiet, Loses
<1>4. ASSUME NEW r \in Requests, Starts(r) PROVE exec'[e].overtaken
  <2>1. e # r
    BY <1>1, <1>4, StartsFacts, IdleFacts
  <2>2. exec'[e] = exec[e] /\ job' = job
    BY <1>4, <2>1, StartsFacts DEF Starts
  <2>3. QED
    BY <1>2, <2>2
<1>5. ASSUME NEW r \in Requests, NEW row \in Job, Inserts(r, row) PROVE exec'[e].overtaken
  <2>1. job[r] = None /\ JobBecomesRow(r, row) /\ exec' = exec
    BY <1>5 DEF Inserts, Fresh, Ended
  <2>2. exec[e].job \in Requests /\ job[exec[e].job] # None
    BY <1>1, <2>1 DEF Staffed
  <2>3. QED
    BY <1>2, <2>1, <2>2, JobBecomesFacts
<1>6. ASSUME NEW r \in Requests, NEW a \in ControlAsk, Controls(r, a) PROVE exec'[e].overtaken
  <2>1. /\ exec'[e].at = exec[e].at /\ exec'[e].job = exec[e].job
        /\ exec[e].job # a.job \/ a.route # "cancel" => exec'[e] = exec[e]
        /\ exec[e].job = a.job /\ a.route = "cancel" =>
             exec'[e].overtaken = (exec[e].at \notin {"find", "done"})
    BY <1>6, ControlsFacts
  <2>2. /\ a.job \in Requests /\ job[a.job] \in Job
        /\ a.route \in {"retry", "resume", "cancel", "pause"}
        /\ JobBecomesRow(a.job, Controlled(job[a.job], a.route))
    BY <1>6, AskFields DEF Controls, JobTypes
  <2>3. exec[e].job \in Requests
    BY <1>1, <2>1 DEF Staffed
  <2>4. CASE exec[e].job # a.job
    BY <1>2, <2>1, <2>2, <2>3, <2>4, JobBecomesFacts
  <2>5. CASE exec[e].job = a.job
    <3>1. a.route = "cancel"
      BY <1>1, <2>1, <2>2, <2>5, JobBecomesFacts, ControlledFacts
    <3>2. QED
      BY <1>1, <2>1, <2>5, <3>1
  <2>6. QED
    BY <2>4, <2>5
<1>7. ASSUME NEW d \in Requests, NEW x \in Exec, NEW row \in Job, ExecMove(d, x, row)
      PROVE  exec'[e].overtaken
  <2>1. /\ exec'[d] = x /\ x.job = exec[d].job /\ job'[exec[d].job] = row
        /\ exec[d].job \in Requests
        /\ \A c \in Requests : c # d => exec'[c] = exec[c]
        /\ \A i \in Requests : i # exec[d].job => job'[i] = job[i]
    BY <1>7, ExecMoveFacts
  <2>2. /\ row = JobOfExec(d) \/ row.status # "cancelled"
    BY <1>7, <2>1 DEF ExecMove, Attempts
  <2>3. CASE d # e
    <3>1. exec'[e] = exec[e]
      BY <2>1, <2>3
    <3>2. exec[e].job \in Requests
      BY <1>1, <3>1 DEF Staffed
    <3>3. job'[exec[e].job] = job[exec[e].job]
      BY <1>1, <2>1, <2>2, <3>1, <3>2 DEF JobOfExec
    <3>4. QED
      BY <1>2, <3>1, <3>3
  <2>4. CASE d = e
    <3>1. x.at \in {"start", "run", "requeue", "fail"} /\ row.status = "cancelled"
      BY <1>1, <2>1, <2>4
    <3>2. Attempts(exec[e], x, JobOfExec(e), row) /\ row = JobOfExec(e)
      BY <1>7, <2>2, <2>4, <3>1 DEF ExecMove
    <3>3. exec[e].at = "run" /\ x.overtaken = exec[e].overtaken
      BY <3>1, <3>2 DEF Attempts
    <3>4. exec[e].overtaken
      BY <3>1, <3>2, <3>3 DEF OvertakenKnown
    <3>5. QED
      BY <2>1, <2>4, <3>3, <3>4
  <2>5. QED
    BY <2>3, <2>4
<1>8. ASSUME Crash PROVE FALSE
  BY <1>1, <1>8, CrashFacts
<1>9. QED
  BY <1>2, <1>3, <1>4, <1>5, <1>6, <1>7, <1>8 DEF JobMove

(* A job leaves cancelled only by a request, or by an executor that the    *)
(* cancel overtook within an attempt, or that threw.                       *)
THEOREM CancelledStaysCancelled == Spec => CancelHolds
<1>1. Init => OvertakenKnown
  BY IdleFacts DEF Init, OvertakenKnown
<1>2. JInv /\ OvertakenKnown /\ [Next]_vars => (JInv /\ OvertakenKnown)'
  BY JobsStepInv, OvertakenStep DEF JInv
<1>3. JInv /\ OvertakenKnown /\ [Next]_vars =>
        [\A j \in Requests :
           job[j] # None /\ job[j].status = "cancelled" /\ job'[j].status # "cancelled"
           => \/ \E r \in Requests : pc[r] = "new" /\ pc'[r] # "new"
              \/ \E e \in Requests : /\ exec[e].job = j /\ exec'[e] # exec[e]
                                     /\ exec[e].overtaken \/ At(e, "mark")]_vars
  BY JobsStepInv, UncancelStep DEF JInv, ByRequest, ByOvertaken
<1>4. QED
  BY <1>1, <1>2, <1>3, JobsInit, PTL DEF Spec, CancelHolds

=============================================================================

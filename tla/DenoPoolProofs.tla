---------------------------- MODULE DenoPoolProofs ----------------------------
(***************************************************************************)
(* Proofs about DenoPool, for every pool size and every set of jobs:       *)
(* type correctness, the accounting of jobs, that a closing pool starts    *)
(* nothing, that every step is a step of PoolContract, that no call        *)
(* returns another job's answer, that nobody waits next to an idle runner, *)
(* that calls start in the order they came, that no runner is lost track   *)
(* of or held twice before its first restart, and that a child executes    *)
(* what its parent believes it does.                                       *)
(***************************************************************************)
EXTENDS DenoPool, TLAPS, SequenceTheorems, WellFoundedInduction

-----------------------------------------------------------------------------
(* The operators                                                           *)

(* findIdleRunner finds a runner whenever there is one to find.            *)
LEMMA FirstIsMember ==
  ASSUME NEW S \in SUBSET Runners, S # {}
  PROVE  First(S) \in S
<1>1. IsWellFoundedOn(OpToRel(<, Nat), Nat)
  BY NatLessThanWellFounded
<1>2. S \subseteq Nat
  BY PoolSizeAssumption DEF Runners
<1>3. PICK x \in S : \A y \in S : ~(<<y, x>> \in OpToRel(<, Nat))
  BY <1>1, <1>2, WFMin
<1>4. \A y \in S : x <= y
  <2>1. TAKE y \in S
  <2>2. x \in Nat /\ y \in Nat
    BY <1>2, <1>3
  <2>3. ~(y < x)
    BY <1>3, <2>2 DEF OpToRel
  <2>4. QED
    BY <2>2, <2>3
<1>5. QED
  BY <1>3, <1>4 DEF First

(* removePending takes out the entry it found and keeps the others' order. *)
LEMMA WithoutProperties ==
  ASSUME NEW s \in Seq(Jobs), NEW i \in 1..Len(s)
  PROVE  /\ Without(s, i) \in Seq(Jobs)
         /\ Len(Without(s, i)) = Len(s) - 1
         /\ \A k \in 1..(Len(s) - 1) : Without(s, i)[k] = IF k < i THEN s[k] ELSE s[k + 1]
<1>0. Len(s) \in Nat /\ i \in Int
  BY LenProperties
<1> DEFINE a == SubSeq(s, 1, i - 1)
           b == SubSeq(s, i + 1, Len(s))
<1>1. /\ a \in Seq(Jobs)
      /\ Len(a) = i - 1
      /\ \A k \in 1..(i - 1) : a[k] = s[k]
  <2>1. \A k \in 1..(i - 1) : s[k] \in Jobs
    BY <1>0, ElementOfSeq
  <2>2. /\ a \in Seq(Jobs)
        /\ Len(a) = IF 1 <= i - 1 THEN (i - 1) - 1 + 1 ELSE 0
        /\ \A k \in 1..((i - 1) - 1 + 1) : a[k] = s[1 + k - 1]
    BY <1>0, <2>1, SubSeqProperties
  <2>3. QED
    BY <1>0, <2>2
<1>2. /\ b \in Seq(Jobs)
      /\ Len(b) = Len(s) - i
      /\ \A k \in 1..(Len(s) - i) : b[k] = s[i + k]
  <2>1. \A k \in (i + 1)..Len(s) : s[k] \in Jobs
    BY <1>0, ElementOfSeq
  <2>2. /\ b \in Seq(Jobs)
        /\ Len(b) = IF i + 1 <= Len(s) THEN Len(s) - (i + 1) + 1 ELSE 0
        /\ \A k \in 1..(Len(s) - (i + 1) + 1) : b[k] = s[(i + 1) + k - 1]
    BY <1>0, <2>1, SubSeqProperties
  <2>3. QED
    BY <1>0, <2>2
<1> HIDE DEF a, b
<1>3. /\ a \o b \in Seq(Jobs)
      /\ Len(a \o b) = Len(a) + Len(b)
      /\ \A k \in 1..(Len(a) + Len(b)) :
           (a \o b)[k] = IF k <= Len(a) THEN a[k] ELSE b[k - Len(a)]
  BY <1>1, <1>2, ConcatProperties
<1>4. Without(s, i) = a \o b
  BY DEF Without, a, b
<1>5. ASSUME NEW k \in 1..(Len(s) - 1)
      PROVE  (a \o b)[k] = IF k < i THEN s[k] ELSE s[k + 1]
  <2>1. CASE k < i
    <3>1. k <= Len(a) /\ k \in 1..(i - 1) /\ k \in 1..(Len(a) + Len(b))
      BY <1>0, <1>1, <1>2, <2>1
    <3>2. QED
      BY <1>1, <1>3, <2>1, <3>1
  <2>2. CASE ~(k < i)
    <3>1. /\ k \in 1..(Len(a) + Len(b)) /\ ~(k <= Len(a))
          /\ k - Len(a) \in 1..(Len(s) - i)
          /\ i + (k - Len(a)) = k + 1
      BY <1>0, <1>1, <1>2, <2>2
    <3>2. (a \o b)[k] = b[k - Len(a)]
      BY <1>3, <3>1
    <3>3. b[k - Len(a)] = s[i + (k - Len(a))]
      BY <1>2, <3>1
    <3>4. QED
      BY <2>2, <3>1, <3>2, <3>3
  <2>3. QED
    BY <2>1, <2>2
<1>6. Len(a \o b) = Len(s) - 1
  BY <1>0, <1>1, <1>2, <1>3
<1>7. QED
  BY <1>3, <1>4, <1>5, <1>6

(* IdleIn names runners, so does the choice drain and run() make.          *)
LEMMA IdleIsRunner ==
  ASSUME NEW ch, NEW id, IdleIn(ch, id) # {}
  PROVE  First(IdleIn(ch, id)) \in Runners
BY FirstIsMember DEF IdleIn

(* What drain does, given that the queue holds a job once: it starts the   *)
(* first n of the queue, each on a runner of its own, and stops when the   *)
(* queue is empty or no runner is left.                                    *)
Drained(n, s, ch, id, jb, o) ==
  /\ \A i \in 1..n : s[i] \in IdleIn(ch, id)
  /\ \A i, k \in 1..n : s[i] = s[k] => i = k
  /\ closing => n = 0
  /\ ~closing => n = Len(pending) \/ \A q \in IdleIn(ch, id) : \E i \in 1..n : s[i] = q
  /\ pending' \in Seq(Jobs)
  /\ Len(pending') = Len(pending) - n
  /\ \A k \in 1..(Len(pending) - n) : pending'[k] = pending[k + n]
  /\ \A i \in 1..n : /\ pending[i] \in Jobs
                     /\ job'[pending[i]] = "starting"
                     /\ on'[pending[i]] = s[i]
  /\ \A j \in Jobs : (\A i \in 1..n : pending[i] # j) => job'[j] = jb[j] /\ on'[j] = o[j]
  /\ \A q \in Runners : idle'[q] <=> id[q] /\ \A i \in 1..n : s[i] # q

(* Every job is in the queue once.                                         *)
Distinct(p) == \A i, k \in DOMAIN p : p[i] = p[k] => i = k

(* The n entries that a suffix leaves behind.                              *)
LEMMA SuffixProperties ==
  ASSUME NEW p \in Seq(Jobs), NEW n \in 0..Len(p)
  PROVE  /\ SubSeq(p, n + 1, Len(p)) \in Seq(Jobs)
         /\ Len(SubSeq(p, n + 1, Len(p))) = Len(p) - n
         /\ \A k \in 1..(Len(p) - n) : SubSeq(p, n + 1, Len(p))[k] = p[k + n]
<1>0. Len(p) \in Nat /\ n \in Int
  BY LenProperties
<1>1. \A k \in (n + 1)..Len(p) : p[k] \in Jobs
  BY <1>0, ElementOfSeq
<1> DEFINE t == SubSeq(p, n + 1, Len(p))
<1>2. /\ t \in Seq(Jobs)
      /\ Len(t) = IF n + 1 <= Len(p) THEN Len(p) - (n + 1) + 1 ELSE 0
      /\ \A k \in 1..(Len(p) - (n + 1) + 1) : t[k] = p[(n + 1) + k - 1]
  BY <1>0, <1>1, SubSeqProperties
<1> HIDE DEF t
<1>3. Len(t) = Len(p) - n
  BY <1>0, <1>2
<1>4. \A k \in 1..(Len(p) - n) : t[k] = p[k + n]
  <2>1. TAKE k \in 1..(Len(p) - n)
  <2>2. k \in 1..(Len(p) - (n + 1) + 1) /\ (n + 1) + k - 1 = k + n
    BY <1>0
  <2>3. QED
    BY <1>2, <2>2
<1>5. QED
  BY <1>2, <1>3, <1>4 DEF t

(* findIdleRunner never finds a runner twice in one drain.                 *)
LEMMA FoundDiffer ==
  ASSUME NEW free \in SUBSET Runners, NEW n \in Nat, NEW s \in Found(free, n),
         NEW i \in 1..n, NEW k \in 1..n, s[i] = s[k]
  PROVE  i = k
<1>1. ASSUME NEW a \in 1..n, NEW b \in 1..n, a < b, s[a] = s[b] PROVE FALSE
  <2>1. s[b] \in free \ {s[c] : c \in 1..(b - 1)}
    BY <1>1 DEF Found
  <2>2. a \in 1..(b - 1)
    BY <1>1
  <2>3. QED
    BY <1>1, <2>1, <2>2
<1>2. ~(i < k)
  BY <1>1
<1>3. ~(k < i)
  BY <1>1
<1>4. QED
  BY <1>2, <1>3

LEMMA DrainEffect ==
  ASSUME NEW ch, NEW id, NEW jb, NEW o, pending \in Seq(Jobs), Distinct(pending),
         Drain(ch, id, jb, o)
  PROVE  \E n \in 0..Len(pending) : \E s : Drained(n, s, ch, id, jb, o)
<1> DEFINE free == IdleIn(ch, id)
           first(n) == {pending[i] : i \in 1..n}
           taken(s, n) == {s[i] : i \in 1..n}
<1> DEFINE Round(n, s) ==
             /\ IF closing THEN n = 0 ELSE n = Len(pending) \/ taken(s, n) = free
             /\ pending' = SubSeq(pending, n + 1, Len(pending))
             /\ idle' = [r \in Runners |-> id[r] /\ r \notin taken(s, n)]
             /\ job' = [j \in Jobs |-> IF j \in first(n) THEN "starting" ELSE jb[j]]
             /\ on' = [j \in Jobs |-> IF j \in first(n)
                                      THEN s[CHOOSE i \in 1..n : pending[i] = j]
                                      ELSE o[j]]
<1>a. PICK n \in 0..Len(pending) : \E s \in Found(free, n) : Round(n, s)
  BY DEF Drain
<1>b. PICK s \in Found(free, n) : Round(n, s)
  BY <1>a
<1>1. Round(n, s)
  BY <1>b
<1>2. Len(pending) \in Nat /\ DOMAIN pending = 1..Len(pending) /\ n \in Nat
  BY LenProperties
<1>3. \A i \in 1..n : s[i] \in free
  BY DEF Found
<1>4. free \subseteq Runners
  BY DEF IdleIn
<1>5. \A i, k \in 1..n : s[i] = s[k] => i = k
  BY <1>2, <1>4, FoundDiffer
<1>6. \A i \in 1..n : pending[i] \in Jobs /\ i \in DOMAIN pending
  <2>1. TAKE i \in 1..n
  <2>2. i \in 1..Len(pending)
    BY <1>2
  <2>3. QED
    BY <1>2, <2>2, ElementOfSeq
<1>7. ~closing => n = Len(pending) \/ \A q \in free : \E i \in 1..n : s[i] = q
  BY <1>1
<1>8. \A q \in Runners : idle'[q] <=> id[q] /\ \A i \in 1..n : s[i] # q
  BY <1>1
<1>9. \A i \in 1..n : job'[pending[i]] = "starting" /\ on'[pending[i]] = s[i]
  <2>1. TAKE i \in 1..n
  <2>2. pending[i] \in first(n) /\ pending[i] \in Jobs
    BY <1>6
  <2>3. (CHOOSE k \in 1..n : pending[k] = pending[i]) = i
    <3>1. \A k \in 1..n : pending[k] = pending[i] => k = i
      BY <1>6 DEF Distinct
    <3>2. QED
      BY <3>1
  <2> HIDE DEF first
  <2>4. QED
    BY <1>1, <2>2, <2>3
<1>10. \A j \in Jobs : (\A i \in 1..n : pending[i] # j) => job'[j] = jb[j] /\ on'[j] = o[j]
  <2>1. TAKE j \in Jobs
  <2>2. HAVE \A i \in 1..n : pending[i] # j
  <2>3. j \notin first(n)
    BY <2>2
  <2> HIDE DEF first
  <2>4. QED
    BY <1>1, <2>3
<1>11. /\ pending' \in Seq(Jobs)
       /\ Len(pending') = Len(pending) - n
       /\ \A k \in 1..(Len(pending) - n) : pending'[k] = pending[k + n]
  BY <1>1, SuffixProperties
<1>12. closing => n = 0
  BY <1>1
<1>13. Drained(n, s, ch, id, jb, o)
  BY <1>3, <1>5, <1>6, <1>7, <1>8, <1>9, <1>10, <1>11, <1>12 DEF Drained
<1>14. QED
  BY <1>13

(* drain keeps the types of what it changes.                               *)
LEMMA DrainType ==
  ASSUME NEW ch, NEW id \in [Runners -> BOOLEAN], NEW jb \in [Jobs -> JobState],
         NEW o \in [Jobs -> Runners \cup {NoRunner}],
         pending \in Seq(Jobs), Drain(ch, id, jb, o)
  PROVE  /\ pending' \in Seq(Jobs)
         /\ idle' \in [Runners -> BOOLEAN]
         /\ job' \in [Jobs -> JobState]
         /\ on' \in [Jobs -> Runners \cup {NoRunner}]
<1> DEFINE free == IdleIn(ch, id)
           first(n) == {pending[i] : i \in 1..n}
           Round(n, s) ==
             /\ pending' = SubSeq(pending, n + 1, Len(pending))
             /\ idle' = [r \in Runners |-> id[r] /\ r \notin {s[i] : i \in 1..n}]
             /\ job' = [j \in Jobs |-> IF j \in first(n) THEN "starting" ELSE jb[j]]
             /\ on' = [j \in Jobs |-> IF j \in first(n)
                                      THEN s[CHOOSE i \in 1..n : pending[i] = j]
                                      ELSE o[j]]
<1>a. PICK n \in 0..Len(pending) : \E s \in Found(free, n) : Round(n, s)
  BY DEF Drain
<1>b. PICK s \in Found(free, n) : Round(n, s)
  BY <1>a
<1>1. Round(n, s)
  BY <1>b
<1>2. \A j \in first(n) : s[CHOOSE i \in 1..n : pending[i] = j] \in Runners
  <2>1. TAKE j \in first(n)
  <2>2. (CHOOSE i \in 1..n : pending[i] = j) \in 1..n
    OBVIOUS
  <2>3. \A i \in 1..n : s[i] \in Runners
    BY DEF Found, IdleIn
  <2>4. QED
    BY <2>2, <2>3
<1>3. pending' \in Seq(Jobs)
  BY <1>1, SuffixProperties
<1>4. \A r \in Runners : (id[r] /\ r \notin {s[i] : i \in 1..n}) \in BOOLEAN
  OBVIOUS
<1>5. idle' \in [Runners -> BOOLEAN]
  BY <1>1, <1>4
<1> HIDE DEF first
<1>6. job' \in [Jobs -> JobState]
  BY <1>1 DEF JobState, Started
<1>7. on' \in [Jobs -> Runners \cup {NoRunner}]
  BY <1>1, <1>2
<1>8. QED
  BY <1>3, <1>5, <1>6, <1>7

(* So does failCurrent.                                                    *)
LEMMA FailCurrentType ==
  ASSUME TypeOK, NEW r \in Runners, NEW ch, NEW id \in [Runners -> BOOLEAN],
         current[r] # None, FailCurrent(r, ch, id)
  PROVE  /\ current' \in [Runners -> Jobs \cup {None}]
         /\ pending' \in Seq(Jobs)
         /\ idle' \in [Runners -> BOOLEAN]
         /\ job' \in [Jobs -> JobState]
         /\ on' \in [Jobs -> Runners \cup {NoRunner}]
<1> DEFINE j == current[r]
           id2 == [id EXCEPT ![r] = FALSE]
           jb == [job EXCEPT ![j] = "crashed"]
           o == [on EXCEPT ![j] = NoRunner]
<1>1. j \in Jobs
  BY DEF TypeOK
<1>2. /\ id2 \in [Runners -> BOOLEAN]
      /\ jb \in [Jobs -> JobState]
      /\ o \in [Jobs -> Runners \cup {NoRunner}]
  BY <1>1 DEF TypeOK, JobState, Settled
<1>3. current' = [current EXCEPT ![r] = None] /\ Drain(ch, id2, jb, o)
  BY DEF FailCurrent
<1> HIDE DEF j, id2, jb, o
<1>4. current' \in [Runners -> Jobs \cup {None}]
  BY <1>3 DEF TypeOK
<1>5. QED
  BY <1>2, <1>3, <1>4, DrainType DEF TypeOK

LEMMA FailAndKillType ==
  ASSUME TypeOK, NEW r \in Runners, FailAndKill(r)
  PROVE  /\ child' \in [Runners -> ChildState]
         /\ current' \in [Runners -> Jobs \cup {None}]
         /\ pending' \in Seq(Jobs)
         /\ idle' \in [Runners -> BOOLEAN]
         /\ job' \in [Jobs -> JobState]
         /\ on' \in [Jobs -> Runners \cup {NoRunner}]
         /\ answer' = answer
<1> DEFINE ch == [child EXCEPT ![r] = Kill(child[r])]
<1>1. child' = ch /\ answer' = answer
  BY DEF FailAndKill
<1>2. child' \in [Runners -> ChildState]
  BY <1>1 DEF TypeOK, Kill, ChildState
<1>3. CASE current[r] = None
  BY <1>1, <1>2, <1>3 DEF FailAndKill, TypeOK
<1>4. CASE current[r] # None
  <2>1. FailCurrent(r, ch, idle)
    BY <1>4 DEF FailAndKill
  <2> HIDE DEF ch
  <2>2. QED
    BY <1>1, <1>2, <1>4, <2>1, FailCurrentType DEF TypeOK
<1>5. QED
  BY <1>3, <1>4

LEMMA DropCallType ==
  ASSUME TypeOK, NEW r \in Runners, current[r] # None, DropCall(r)
  PROVE  /\ child' \in [Runners -> ChildState]
         /\ current' \in [Runners -> Jobs \cup {None}]
         /\ idle' \in [Runners -> BOOLEAN]
         /\ job' \in [Jobs -> JobState]
         /\ UNCHANGED <<pending, on, answer>>
<1>1. current[r] \in Jobs
  BY DEF TypeOK
<1>2. QED
  BY <1>1 DEF DropCall, TypeOK, Kill, ChildState, JobState

LEMMA ReadAnswerType ==
  ASSUME TypeOK, NEW r \in Runners, NEW w \in Jobs, ReadAnswer(r, w)
  PROVE  /\ child' \in [Runners -> ChildState]
         /\ current' \in [Runners -> Jobs \cup {None}]
         /\ pending' \in Seq(Jobs)
         /\ idle' \in [Runners -> BOOLEAN]
         /\ job' \in [Jobs -> JobState]
         /\ on' \in [Jobs -> Runners \cup {NoRunner}]
         /\ answer' \in [Jobs -> Jobs \cup {None}]
<1> DEFINE j == current[r]
           id == [idle EXCEPT ![r] = TRUE]
           jb == [job EXCEPT ![j] = "result"]
           o == [on EXCEPT ![j] = NoRunner]
<1>1. CASE j = None /\ UNCHANGED <<child, idle, current, pending, jvars>>
  BY <1>1 DEF TypeOK, jvars
<1>2. CASE /\ j # None /\ w = j
           /\ current' = [current EXCEPT ![r] = None]
           /\ answer' = [answer EXCEPT ![j] = w]
           /\ Drain(child, id, jb, o)
           /\ UNCHANGED child
  <2>1. j \in Jobs
    BY <1>2
  <2>2. /\ id \in [Runners -> BOOLEAN]
        /\ jb \in [Jobs -> JobState]
        /\ o \in [Jobs -> Runners \cup {NoRunner}]
    BY <2>1 DEF TypeOK, JobState, Settled
  <2>3. /\ current' \in [Runners -> Jobs \cup {None}]
        /\ answer' \in [Jobs -> Jobs \cup {None}]
        /\ child' \in [Runners -> ChildState]
    BY <1>2, <2>1 DEF TypeOK
  <2> HIDE DEF j, id, jb, o
  <2>4. QED
    BY <1>2, <2>2, <2>3, DrainType DEF TypeOK
<1>3. CASE j # None /\ w # j /\ FailAndKill(r)
  BY <1>3, FailAndKillType DEF TypeOK
<1>4. CASE j # None /\ DropCall(r)
  BY <1>4, DropCallType DEF TypeOK
<1>5. QED
  BY <1>1, <1>2, <1>3, <1>4 DEF ReadAnswer

-----------------------------------------------------------------------------
(* Type correctness                                                        *)

LEMMA TypeInit == Init => TypeOK
<1> SUFFICES ASSUME Init PROVE TypeOK
  OBVIOUS
<1>1. pending \in Seq(Jobs)
  BY DEF Init
<1>2. child \in [Runners -> ChildState]
  BY DEF Init, ChildState
<1>3. QED
  BY <1>1, <1>2 DEF Init, TypeOK, JobState

LEMMA TypeCallStep ==
  ASSUME TypeOK, NEW j \in Jobs, CallStep(j)
  PROVE  TypeOK'
<1> USE DEF TypeOK
<1>1. CASE RunRefused(j)
  BY <1>1 DEF RunRefused, rvars, pvars, JobState, Settled
<1>2. CASE RunStarted(j)
  <2>1. First(IdleIn(child, idle)) \in Runners
    BY <1>2, IdleIsRunner DEF RunStarted
  <2>2. QED
    BY <1>2, <2>1 DEF RunStarted, pvars, JobState, Started
<1>3. CASE RunQueued(j)
  <2>1. Append(pending, j) \in Seq(Jobs)
    OBVIOUS
  <2>2. QED
    BY <1>3, <2>1 DEF RunQueued, rvars, JobState
<1>4. CASE QueueTimeout(j)
  <2>1. PICK i \in DOMAIN pending : pending' = Without(pending, i)
    BY <1>4 DEF QueueTimeout
  <2>2. pending' \in Seq(Jobs)
    BY <2>1, WithoutProperties, LenProperties
  <2>3. QED
    BY <1>4, <2>2 DEF QueueTimeout, rvars, JobState, Settled
<1>5. CASE StartResolved(j)
  <2>1. on[j] \in Runners \cup {NoRunner}
    OBVIOUS
  <2>2. UNCHANGED <<child, restart, stopping, respawned, late, close, answer>>
    BY <1>5 DEF StartResolved
  <2>3. CASE ~Alive(on[j]) \/ current[on[j]] # None
    <3> DEFINE jb == [job EXCEPT ![j] = "crashed"]
               o == [on EXCEPT ![j] = NoRunner]
    <3>1. jb \in [Jobs -> JobState] /\ o \in [Jobs -> Runners \cup {NoRunner}]
      BY DEF JobState, Settled
    <3>2. Drain(child, idle, jb, o) /\ UNCHANGED <<current, exec>>
      BY <1>5, <2>3 DEF StartResolved
    <3> HIDE DEF jb, o
    <3>3. QED
      BY <2>2, <3>1, <3>2, DrainType
  <2>4. CASE ~(~Alive(on[j]) \/ current[on[j]] # None)
    <3>1. /\ current' = [current EXCEPT ![on[j]] = j]
          /\ idle' = [idle EXCEPT ![on[j]] = FALSE]
          /\ job' = [job EXCEPT ![j] = "running"]
          /\ exec' = IF child[on[j]] = "up" THEN [exec EXCEPT ![on[j]] = j] ELSE exec
          /\ UNCHANGED <<pending, on>>
      BY <1>5, <2>4 DEF StartResolved
    <3>2. QED
      BY <2>2, <3>1 DEF JobState, Started
  <2>5. QED
    BY <2>3, <2>4
<1>6. CASE StartRejected(j)
  <2> DEFINE id == IF current[on[j]] = None THEN [idle EXCEPT ![on[j]] = TRUE] ELSE idle
             jb == [job EXCEPT ![j] = "rejected"]
             o == [on EXCEPT ![j] = NoRunner]
  <2>1. /\ id \in [Runners -> BOOLEAN]
        /\ jb \in [Jobs -> JobState]
        /\ o \in [Jobs -> Runners \cup {NoRunner}]
    BY DEF JobState, Settled
  <2>2. /\ Drain(child, id, jb, o)
        /\ UNCHANGED <<child, current, restart, stopping, respawned, exec, late, close, answer>>
    BY <1>6 DEF StartRejected
  <2> HIDE DEF id, jb, o
  <2>3. QED
    BY <2>1, <2>2, DrainType
<1>7. QED
  BY <1>1, <1>2, <1>3, <1>4, <1>5, <1>6 DEF CallStep

LEMMA TypeRunnerStep ==
  ASSUME TypeOK, NEW r \in Runners, RunnerStep(r)
  PROVE  TypeOK'
<1>1. CASE Answer(r)
  <2>1. exec[r] \in Jobs /\ ReadAnswer(r, exec[r])
    BY <1>1 DEF Answer, TypeOK
  <2>2. /\ exec' = [exec EXCEPT ![r] = None]
        /\ UNCHANGED <<restart, stopping, respawned, late, close>>
    BY <1>1 DEF Answer
  <2>3. QED
    BY <2>1, <2>2, ReadAnswerType DEF TypeOK
<1>2. CASE LateAnswer(r)
  <2>1. late[r] \in Jobs /\ ReadAnswer(r, late[r])
    BY <1>2 DEF LateAnswer, TypeOK
  <2>2. /\ late' = [late EXCEPT ![r] = None]
        /\ UNCHANGED <<restart, stopping, respawned, exec, close>>
    BY <1>2 DEF LateAnswer
  <2>3. QED
    BY <2>1, <2>2, ReadAnswerType DEF TypeOK
<1>3. CASE ParentTimeout(r) \/ StreamBroken(r)
  <2>1. FailAndKill(r) /\ UNCHANGED <<restart, stopping, respawned, exec, late, close>>
    BY <1>3 DEF ParentTimeout, StreamBroken
  <2>2. QED
    BY <2>1, FailAndKillType DEF TypeOK
<1>4. CASE Exit(r)
  <2> DEFINE ch == [child EXCEPT ![r] = "exited"]
             id == [idle EXCEPT ![r] = FALSE]
  <2>1. /\ child' = ch
        /\ restart' = [restart EXCEPT ![r] = ~stopping[r]]
        /\ exec' = [exec EXCEPT ![r] = None]
        /\ late' = late \/ late' = [late EXCEPT ![r] = exec[r]]
        /\ UNCHANGED <<stopping, respawned, close, answer>>
    BY <1>4 DEF Exit
  <2>2. id \in [Runners -> BOOLEAN] /\ ch \in [Runners -> ChildState]
    BY DEF TypeOK, ChildState
  <2>3. /\ restart' \in [Runners -> BOOLEAN]
        /\ exec' \in [Runners -> Jobs \cup {None}]
        /\ late' \in [Runners -> Jobs \cup {None}]
    BY <2>1 DEF TypeOK
  <2>4. CASE current[r] = None
    <3>1. Drain(ch, id, job, on) /\ current' = current
      BY <1>4, <2>4 DEF Exit
    <3> HIDE DEF ch, id
    <3>2. QED
      BY <2>1, <2>2, <2>3, <3>1, DrainType DEF TypeOK
  <2>5. CASE current[r] # None
    <3>1. FailCurrent(r, ch, idle)
      BY <1>4, <2>5 DEF Exit
    <3> HIDE DEF ch, id
    <3>2. QED
      BY <2>1, <2>2, <2>3, <2>5, <3>1, FailCurrentType DEF TypeOK
  <2>6. QED
    BY <2>4, <2>5
<1>5. CASE Restart(r)
  <2> DEFINE ch == [child EXCEPT ![r] = "up"]
             id == [idle EXCEPT ![r] = TRUE]
  <2>1. /\ restart' = [restart EXCEPT ![r] = FALSE]
        /\ respawned' = respawned \cup {r}
        /\ Drain(ch, id, job, on)
        /\ \E c \in {"up", "lost"} : child' = [child EXCEPT ![r] = c]
        /\ UNCHANGED <<current, stopping, exec, late, close, answer>>
    BY <1>5 DEF Restart
  <2>2. id \in [Runners -> BOOLEAN]
    BY DEF TypeOK
  <2>3. /\ child' \in [Runners -> ChildState]
        /\ restart' \in [Runners -> BOOLEAN]
        /\ respawned' \subseteq Runners
    BY <2>1 DEF TypeOK, ChildState
  <2> HIDE DEF ch, id
  <2>4. QED
    BY <2>1, <2>2, <2>3, DrainType DEF TypeOK
<1>6. QED
  BY <1>1, <1>2, <1>3, <1>4, <1>5 DEF RunnerStep

LEMMA TypeShutdown ==
  ASSUME TypeOK, Close \/ CloseEnds
  PROVE  TypeOK'
<1>1. CASE Close
  <2>1. <<>> \in Seq(Jobs)
    OBVIOUS
  <2>2. QED
    BY <1>1, <2>1 DEF Close, TypeOK, rvars, JobState, Settled
<1>2. CASE CloseEnds
  BY <1>2 DEF CloseEnds, StopRunners, TypeOK, jvars, Kill, ChildState
<1>3. QED
  BY <1>1, <1>2

LEMMA TypeStep == TypeOK /\ [Next]_vars => TypeOK'
<1> SUFFICES ASSUME TypeOK, [Next]_vars PROVE TypeOK'
  OBVIOUS
<1>1. CASE Next
  BY <1>1, TypeCallStep, TypeRunnerStep, TypeShutdown DEF Next
<1>2. CASE UNCHANGED vars
  BY <1>2 DEF vars, TypeOK
<1>3. QED
  BY <1>1, <1>2

(* Every variable of the pool keeps its type.                              *)
THEOREM TypeCorrect == Spec => []TypeOK
  BY TypeInit, TypeStep, PTL DEF Spec

-----------------------------------------------------------------------------
(* The accounting of jobs                                                  *)

(* JobsAccounted of a queue, calls, reservations and current jobs that     *)
(* need not be those of one state: drain comes in the middle of a handler. *)
Accounted(p, jb, o, cur) ==
  /\ \A j \in Jobs : jb[j] = "queued" <=> \E i \in DOMAIN p : p[i] = j
  /\ Distinct(p)
  /\ \A j \in Jobs : jb[j] \in Started \cup {"dropped"} <=> o[j] # NoRunner
  /\ \A r \in Runners : \A j \in Jobs : cur[r] = j <=> jb[j] = "running" /\ o[j] = r

(* drain takes the first entries out of the queue and starts exactly them. *)
LEMMA DrainAccounts ==
  ASSUME NEW ch, NEW id, NEW jb \in [Jobs -> JobState],
         NEW o \in [Jobs -> Runners \cup {NoRunner}], NEW cur,
         pending \in Seq(Jobs), Accounted(pending, jb, o, cur), Drain(ch, id, jb, o)
  PROVE  Accounted(pending', job', on', cur)
<1>0. PICK n \in 0..Len(pending) : \E s : Drained(n, s, ch, id, jb, o)
  BY DrainEffect DEF Accounted
<1>1. PICK s : Drained(n, s, ch, id, jb, o)
  BY <1>0
<1>2. /\ Len(pending) \in Nat /\ n \in Nat
      /\ DOMAIN pending = 1..Len(pending)
      /\ DOMAIN pending' = 1..(Len(pending) - n)
      /\ \A k \in 1..(Len(pending) - n) : pending'[k] = pending[k + n]
      /\ \A k \in 1..(Len(pending) - n) : k + n \in DOMAIN pending
  BY <1>1, LenProperties DEF Drained
<1>3. \A i \in 1..n : i \in DOMAIN pending
  BY <1>2
<1>4. \A i \in 1..n : jb[pending[i]] = "queued" /\ pending[i] \in Jobs
  BY <1>1, <1>3 DEF Accounted, Drained
<1>5. \A i \in 1..n : \A k \in DOMAIN pending' : pending'[k] # pending[i]
  <2>1. TAKE i \in 1..n
  <2>2. TAKE k \in DOMAIN pending'
  <2>3. k + n \in DOMAIN pending /\ k + n # i /\ pending'[k] = pending[k + n]
    BY <1>2
  <2>4. QED
    BY <1>3, <2>3 DEF Accounted, Distinct
<1>6. ASSUME NEW j \in Jobs, NEW m \in 1..n, pending[m] = j
      PROVE  /\ job'[j] = "starting" /\ on'[j] # NoRunner /\ jb[j] = "queued"
             /\ \A k \in DOMAIN pending' : pending'[k] # j
  <2>1. s[m] \in Runners
    BY <1>1 DEF Drained, IdleIn
  <2>2. QED
    BY <1>1, <1>4, <1>5, <1>6, <2>1 DEF Drained, Runners, NoRunner
<1>7. ASSUME NEW j \in Jobs, \A i \in 1..n : pending[i] # j
      PROVE  /\ job'[j] = jb[j] /\ on'[j] = o[j]
             /\ (\E i \in DOMAIN pending : pending[i] = j)
                  <=> \E k \in DOMAIN pending' : pending'[k] = j
  <2>1. job'[j] = jb[j] /\ on'[j] = o[j]
    BY <1>1, <1>7 DEF Drained
  <2>2. ASSUME NEW i \in DOMAIN pending, pending[i] = j
        PROVE  \E k \in DOMAIN pending' : pending'[k] = j
    <3>1. i \notin 1..n
      BY <1>7, <2>2
    <3>2. i - n \in 1..(Len(pending) - n) /\ (i - n) + n = i
      BY <1>2, <3>1
    <3>3. QED
      BY <1>2, <2>2, <3>2
  <2>3. ASSUME NEW k \in DOMAIN pending', pending'[k] = j
        PROVE  \E i \in DOMAIN pending : pending[i] = j
    BY <1>2, <2>3
  <2>4. QED
    BY <2>1, <2>2, <2>3
<1>8. \A j \in Jobs : job'[j] = "queued" <=> \E i \in DOMAIN pending' : pending'[i] = j
  <2>1. TAKE j \in Jobs
  <2>2. CASE \E m \in 1..n : pending[m] = j
    BY <1>6, <2>2
  <2>3. CASE \A m \in 1..n : pending[m] # j
    BY <1>7, <2>3 DEF Accounted
  <2>4. QED
    BY <2>2, <2>3
<1>9. Distinct(pending')
  <2>1. SUFFICES ASSUME NEW i \in DOMAIN pending', NEW k \in DOMAIN pending',
                        pending'[i] = pending'[k]
                 PROVE  i = k
    BY DEF Distinct
  <2>2. i + n \in DOMAIN pending /\ k + n \in DOMAIN pending /\ i \in Int /\ k \in Int
    BY <1>2
  <2>3. pending[i + n] = pending[k + n]
    BY <1>2, <2>1
  <2>4. i + n = k + n
    BY <2>2, <2>3 DEF Accounted, Distinct
  <2>5. QED
    BY <1>2, <2>2, <2>4
<1>10. \A j \in Jobs : job'[j] \in Started \cup {"dropped"} <=> on'[j] # NoRunner
  <2>1. TAKE j \in Jobs
  <2>2. CASE \E m \in 1..n : pending[m] = j
    BY <1>6, <2>2 DEF Started
  <2>3. CASE \A m \in 1..n : pending[m] # j
    BY <1>7, <2>3 DEF Accounted
  <2>4. QED
    BY <2>2, <2>3
<1>11. \A r \in Runners : \A j \in Jobs : cur[r] = j <=> job'[j] = "running" /\ on'[j] = r
  <2>1. TAKE r \in Runners
  <2>2. TAKE j \in Jobs
  <2>3. CASE \E m \in 1..n : pending[m] = j
    <3>1. job'[j] = "starting" /\ jb[j] = "queued"
      BY <1>6, <2>3
    <3>2. QED
      BY <3>1 DEF Accounted
  <2>4. CASE \A m \in 1..n : pending[m] # j
    BY <1>7, <2>4 DEF Accounted
  <2>5. QED
    BY <2>3, <2>4
<1>12. QED
  BY <1>8, <1>9, <1>10, <1>11 DEF Accounted

LEMMA AccountedNow == JobsAccounted <=> Accounted(pending, job, on, current)
BY DEF JobsAccounted, Accounted, Distinct

(* A call that had started and settles gives its runner back.              *)
LEMMA SettleAccounts ==
  ASSUME TypeOK, JobsAccounted, NEW j \in Jobs, job[j] \in Started, NEW s \in Settled, NEW cur,
         \/ job[j] = "starting" /\ cur = current
         \/ job[j] = "running" /\ cur = [current EXCEPT ![on[j]] = None]
  PROVE  /\ Accounted(pending, [job EXCEPT ![j] = s], [on EXCEPT ![j] = NoRunner], cur)
         /\ [job EXCEPT ![j] = s] \in [Jobs -> JobState]
         /\ [on EXCEPT ![j] = NoRunner] \in [Jobs -> Runners \cup {NoRunner}]
<1> DEFINE jb == [job EXCEPT ![j] = s]
           o == [on EXCEPT ![j] = NoRunner]
<1>1. /\ jb \in [Jobs -> JobState]
      /\ o \in [Jobs -> Runners \cup {NoRunner}]
  BY DEF TypeOK, JobState
<1>2. s \notin Started \cup {"dropped"} /\ s # "queued" /\ s # "running" /\ job[j] # "queued"
  BY DEF Started, Settled
<1>3. \A k \in Jobs : /\ jb[k] = IF k = j THEN s ELSE job[k]
                      /\ o[k] = IF k = j THEN NoRunner ELSE on[k]
  BY DEF TypeOK
<1> HIDE DEF jb, o
<1>4. \A k \in Jobs : jb[k] = "queued" <=> \E i \in DOMAIN pending : pending[i] = k
  BY <1>2, <1>3 DEF JobsAccounted
<1>5. \A k \in Jobs : jb[k] \in Started \cup {"dropped"} <=> o[k] # NoRunner
  BY <1>2, <1>3 DEF JobsAccounted
<1>6. \A r \in Runners : \A k \in Jobs : cur[r] = k <=> jb[k] = "running" /\ o[k] = r
  <2>1. TAKE r \in Runners
  <2>2. TAKE k \in Jobs
  <2>3. CASE job[j] = "starting"
    BY <1>2, <1>3, <2>3 DEF JobsAccounted
  <2>4. CASE job[j] = "running"
    <3>1. on[j] \in Runners /\ current[on[j]] = j
      BY <2>4 DEF JobsAccounted, TypeOK, Started, NoRunner
    <3>2. cur[r] = IF r = on[j] THEN None ELSE current[r]
      BY <2>4, <3>1 DEF TypeOK
    <3>3. CASE r = on[j]
      <4>1. cur[r] # k
        BY <3>2, <3>3, NoneAssumption
      <4>2. CASE k = j
        BY <1>2, <1>3, <4>1, <4>2
      <4>3. CASE k # j
        <5>1. ~(job[k] = "running" /\ on[k] = r)
          BY <3>1, <3>3, <4>3 DEF JobsAccounted
        <5>2. QED
          BY <1>3, <4>1, <4>3, <5>1
      <4>4. QED
        BY <4>2, <4>3
    <3>4. CASE r # on[j]
      BY <1>2, <1>3, <3>2, <3>4 DEF JobsAccounted
    <3>5. QED
      BY <3>3, <3>4
  <2>5. QED
    BY <2>3, <2>4 DEF Started
<1>7. Accounted(pending, jb, o, cur)
  BY <1>4, <1>5, <1>6 DEF Accounted, JobsAccounted, Distinct
<1>8. QED
  BY <1>1, <1>7 DEF jb, o

(* failCurrent settles the current job of its runner.                      *)
LEMMA FailCurrentAccounts ==
  ASSUME TypeOK, JobsAccounted, NEW r \in Runners, NEW ch, NEW id,
         current[r] # None, FailCurrent(r, ch, id)
  PROVE  JobsAccounted'
<1> DEFINE j == current[r]
           jb == [job EXCEPT ![j] = "crashed"]
           o == [on EXCEPT ![j] = NoRunner]
<1>1. j \in Jobs
  BY DEF TypeOK
<1>2. job[j] = "running" /\ on[j] = r
  BY <1>1 DEF JobsAccounted
<1>3. /\ current' = [current EXCEPT ![r] = None]
      /\ Drain(ch, [id EXCEPT ![r] = FALSE], jb, o)
  BY DEF FailCurrent
<1>4. /\ Accounted(pending, jb, o, current')
      /\ jb \in [Jobs -> JobState]
      /\ o \in [Jobs -> Runners \cup {NoRunner}]
  BY <1>1, <1>2, <1>3, SettleAccounts DEF Started, Settled
<1> HIDE DEF j, jb, o
<1>5. Accounted(pending', job', on', current')
  BY <1>3, <1>4, DrainAccounts DEF TypeOK
<1>6. QED
  BY <1>5 DEF JobsAccounted, Accounted, Distinct

LEMMA FailAndKillAccounts ==
  ASSUME TypeOK, JobsAccounted, NEW r \in Runners, FailAndKill(r)
  PROVE  JobsAccounted'
<1>1. CASE current[r] = None
  BY <1>1 DEF FailAndKill, JobsAccounted
<1>2. CASE current[r] # None
  BY <1>2, FailCurrentAccounts DEF FailAndKill
<1>3. QED
  BY <1>1, <1>2

(* A dropped call keeps its runner and is nobody's current job.            *)
LEMMA DropAccounts ==
  ASSUME TypeOK, JobsAccounted, NEW r \in Runners, current[r] # None, DropCall(r)
  PROVE  JobsAccounted'
<1> DEFINE j == current[r]
<1>1. j \in Jobs
  BY DEF TypeOK
<1>2. job[j] = "running" /\ on[j] = r
  BY <1>1 DEF JobsAccounted
<1>3. UNCHANGED <<pending, on>>
  BY DEF DropCall
<1>4. \A k \in Jobs : job'[k] = IF k = j THEN "dropped" ELSE job[k]
  BY DEF DropCall, TypeOK
<1>5. \A q \in Runners : current'[q] = IF q = r THEN None ELSE current[q]
  BY DEF DropCall, TypeOK
<1> HIDE DEF j
<1>6. \A k \in Jobs : k # j => ~(job[k] = "running" /\ on[k] = r)
  BY <1>1, <1>2 DEF JobsAccounted
<1>7. \A q \in Runners : \A k \in Jobs : current'[q] = k <=> job'[k] = "running" /\ on'[k] = q
  <2>1. TAKE q \in Runners
  <2>2. TAKE k \in Jobs
  <2>3. CASE q = r
    BY <1>3, <1>4, <1>5, <1>6, <2>3, NoneAssumption
  <2>4. CASE q # r /\ k = j
    BY <1>2, <1>4, <1>5, <2>4 DEF JobsAccounted
  <2>5. CASE q # r /\ k # j
    BY <1>3, <1>4, <1>5, <2>5 DEF JobsAccounted
  <2>6. QED
    BY <2>3, <2>4, <2>5
<1>8. \A k \in Jobs : job'[k] = "queued" <=> \E i \in DOMAIN pending' : pending'[i] = k
  BY <1>2, <1>3, <1>4 DEF JobsAccounted
<1>9. \A k \in Jobs : job'[k] \in Started \cup {"dropped"} <=> on'[k] # NoRunner
  BY <1>2, <1>3, <1>4 DEF JobsAccounted, Started
<1>10. QED
  BY <1>3, <1>7, <1>8, <1>9 DEF JobsAccounted

LEMMA ReadAnswerAccounts ==
  ASSUME TypeOK, JobsAccounted, NEW r \in Runners, NEW w \in Jobs, ReadAnswer(r, w)
  PROVE  JobsAccounted'
<1> DEFINE j == current[r]
           id == [idle EXCEPT ![r] = TRUE]
           jb == [job EXCEPT ![j] = "result"]
           o == [on EXCEPT ![j] = NoRunner]
<1>1. CASE j = None /\ UNCHANGED <<child, idle, current, pending, jvars>>
  BY <1>1 DEF JobsAccounted, jvars
<1>2. CASE /\ j # None /\ w = j
           /\ current' = [current EXCEPT ![r] = None]
           /\ Drain(child, id, jb, o)
  <2>1. j \in Jobs /\ job[j] = "running" /\ on[j] = r
    BY <1>2 DEF JobsAccounted
  <2>2. /\ Accounted(pending, jb, o, current')
        /\ jb \in [Jobs -> JobState]
        /\ o \in [Jobs -> Runners \cup {NoRunner}]
    BY <1>2, <2>1, SettleAccounts DEF Started, Settled
  <2> HIDE DEF j, id, jb, o
  <2>3. Accounted(pending', job', on', current')
    BY <1>2, <2>2, DrainAccounts DEF TypeOK
  <2>4. QED
    BY <2>3 DEF JobsAccounted, Accounted, Distinct
<1>3. CASE j # None /\ w # j /\ FailAndKill(r)
  BY <1>3, FailAndKillAccounts
<1>4. CASE j # None /\ DropCall(r)
  BY <1>4, DropAccounts
<1>5. QED
  BY <1>1, <1>2, <1>3, <1>4 DEF ReadAnswer

LEMMA AccountedInit == Init => JobsAccounted
<1> SUFFICES ASSUME Init PROVE JobsAccounted
  OBVIOUS
<1>1. DOMAIN pending = {}
  BY DEF Init
<1>2. QED
  BY <1>1, NoneAssumption DEF Init, JobsAccounted, Started, NoRunner

(* A job joins the queue as its last entry.                                *)
LEMMA QueuedAccounts ==
  ASSUME TypeOK, JobsAccounted, NEW j \in Jobs, RunQueued(j)
  PROVE  JobsAccounted'
<1>1. /\ job[j] = "new" /\ job' = [job EXCEPT ![j] = "queued"]
      /\ pending' = Append(pending, j)
      /\ UNCHANGED <<current, on>>
  BY DEF RunQueued, rvars
<1>2. /\ Len(pending) \in Nat /\ DOMAIN pending = 1..Len(pending)
      /\ DOMAIN pending' = 1..(Len(pending) + 1)
      /\ \A i \in 1..Len(pending) : pending'[i] = pending[i]
      /\ pending'[Len(pending) + 1] = j
  BY <1>1, LenProperties, AppendProperties DEF TypeOK
<1>3. \A i \in DOMAIN pending : pending[i] # j
  BY <1>1 DEF JobsAccounted
<1>4. \A k \in Jobs : job'[k] = IF k = j THEN "queued" ELSE job[k]
  BY <1>1 DEF TypeOK
<1>5. \A k \in Jobs : job'[k] = "queued" <=> \E i \in DOMAIN pending' : pending'[i] = k
  <2>1. TAKE k \in Jobs
  <2>2. CASE k = j
    BY <1>2, <1>4, <2>2
  <2>3. CASE k # j
    <3>1. \A i \in DOMAIN pending' : pending'[i] = k => i \in DOMAIN pending /\ pending[i] = k
      BY <1>2, <2>3
    <3>2. \A i \in DOMAIN pending : i \in DOMAIN pending' /\ pending'[i] = pending[i]
      BY <1>2
    <3>3. QED
      BY <1>4, <2>3, <3>1, <3>2 DEF JobsAccounted
  <2>4. QED
    BY <2>2, <2>3
<1>6. \A i, k \in DOMAIN pending' : pending'[i] = pending'[k] => i = k
  BY <1>2, <1>3 DEF JobsAccounted
<1>7. QED
  BY <1>1, <1>4, <1>5, <1>6 DEF JobsAccounted, Started

(* A job whose queue timer fires leaves the queue, and nobody else does.   *)
LEMMA QueueTimeoutAccounts ==
  ASSUME TypeOK, JobsAccounted, NEW j \in Jobs, QueueTimeout(j)
  PROVE  JobsAccounted'
<1>1. /\ job[j] = "queued" /\ job' = [job EXCEPT ![j] = "busy"]
      /\ UNCHANGED <<current, on>>
  BY DEF QueueTimeout, rvars
<1>2. PICK i \in DOMAIN pending : pending[i] = j /\ pending' = Without(pending, i)
  BY DEF QueueTimeout
<1>3. /\ Len(pending) \in Nat /\ DOMAIN pending = 1..Len(pending) /\ i \in 1..Len(pending)
      /\ DOMAIN pending' = 1..(Len(pending) - 1)
      /\ \A k \in 1..(Len(pending) - 1) :
           pending'[k] = IF k < i THEN pending[k] ELSE pending[k + 1]
  <2>1. pending \in Seq(Jobs) /\ Len(pending) \in Nat /\ DOMAIN pending = 1..Len(pending)
    BY LenProperties DEF TypeOK
  <2>2. i \in 1..Len(pending)
    BY <1>2, <2>1
  <2>3. /\ Without(pending, i) \in Seq(Jobs)
        /\ Len(Without(pending, i)) = Len(pending) - 1
        /\ \A k \in 1..(Len(pending) - 1) :
             Without(pending, i)[k] = IF k < i THEN pending[k] ELSE pending[k + 1]
    BY <2>1, <2>2, WithoutProperties
  <2>4. DOMAIN Without(pending, i) = 1..(Len(pending) - 1)
    BY <2>3, LenProperties
  <2>5. QED
    BY <1>2, <2>1, <2>2, <2>3, <2>4
<1>4. \A k \in DOMAIN pending : pending[k] = j => k = i
  BY <1>2 DEF JobsAccounted
<1>5. \A p \in Jobs : job'[p] = IF p = j THEN "busy" ELSE job[p]
  BY <1>1 DEF TypeOK
<1>6. ASSUME NEW k \in DOMAIN pending'
      PROVE  \E a \in DOMAIN pending : a # i /\ pending'[k] = pending[a]
  <2>1. CASE k < i
    BY <1>3, <2>1
  <2>2. CASE ~(k < i)
    <3>1. k + 1 \in DOMAIN pending /\ k + 1 # i /\ pending'[k] = pending[k + 1]
      BY <1>3, <2>2
    <3>2. QED
      BY <3>1
  <2>3. QED
    BY <2>1, <2>2
<1>7. ASSUME NEW a \in DOMAIN pending, a # i
      PROVE  \E k \in DOMAIN pending' : pending'[k] = pending[a]
  <2>1. CASE a < i
    BY <1>3, <2>1
  <2>2. CASE ~(a < i)
    <3>1. a - 1 \in DOMAIN pending' /\ ~(a - 1 < i) /\ (a - 1) + 1 = a
      BY <1>3, <1>7, <2>2
    <3>2. QED
      BY <1>3, <3>1
  <2>3. QED
    BY <2>1, <2>2
<1>8. \A p \in Jobs : job'[p] = "queued" <=> \E k \in DOMAIN pending' : pending'[k] = p
  <2>1. TAKE p \in Jobs
  <2>2. CASE p = j
    BY <1>4, <1>5, <1>6, <2>2
  <2>3. CASE p # j
    BY <1>2, <1>5, <1>6, <1>7, <2>3 DEF JobsAccounted
  <2>4. QED
    BY <2>2, <2>3
<1>9. \A a, b \in DOMAIN pending' : pending'[a] = pending'[b] => a = b
  <2>1. TAKE a, b \in DOMAIN pending'
  <2>2. HAVE pending'[a] = pending'[b]
  <2> DEFINE at(k) == IF k < i THEN k ELSE k + 1
  <2>3. \A k \in DOMAIN pending' : at(k) \in DOMAIN pending /\ pending'[k] = pending[at(k)]
    BY <1>3
  <2>4. at(a) = at(b)
    BY <2>2, <2>3 DEF JobsAccounted
  <2>5. QED
    BY <1>3, <2>4
<1>10. QED
  BY <1>1, <1>5, <1>8, <1>9 DEF JobsAccounted, Started

LEMMA CallStepAccounts ==
  ASSUME TypeOK, JobsAccounted, NEW j \in Jobs, CallStep(j)
  PROVE  JobsAccounted'
<1>1. CASE RunRefused(j)
  BY <1>1 DEF RunRefused, rvars, pvars, TypeOK, JobsAccounted, Started
<1>2. CASE RunStarted(j)
  <2>1. First(IdleIn(child, idle)) \in Runners /\ First(IdleIn(child, idle)) # NoRunner
    BY <1>2, IdleIsRunner DEF RunStarted, Runners, NoRunner
  <2>2. \A i \in DOMAIN pending : pending[i] # j
    BY <1>2 DEF RunStarted, JobsAccounted
  <2>3. QED
    BY <1>2, <2>1, <2>2 DEF RunStarted, pvars, TypeOK, JobsAccounted, Started
<1>3. CASE StartResolved(j)
  <2>1. job[j] = "starting" /\ on[j] \in Runners
    BY <1>3 DEF StartResolved, JobsAccounted, TypeOK, Started
  <2>2. CASE ~Alive(on[j]) \/ current[on[j]] # None
    <3> DEFINE jb == [job EXCEPT ![j] = "crashed"]
               o == [on EXCEPT ![j] = NoRunner]
    <3>1. Drain(child, idle, jb, o) /\ current' = current
      BY <1>3, <2>2 DEF StartResolved
    <3>2. /\ Accounted(pending, jb, o, current)
          /\ jb \in [Jobs -> JobState]
          /\ o \in [Jobs -> Runners \cup {NoRunner}]
      BY <2>1, SettleAccounts DEF Started, Settled
    <3> HIDE DEF jb, o
    <3>3. Accounted(pending', job', on', current)
      BY <3>1, <3>2, DrainAccounts DEF TypeOK
    <3>4. QED
      BY <3>1, <3>3 DEF JobsAccounted, Accounted, Distinct
  <2>3. CASE ~(~Alive(on[j]) \/ current[on[j]] # None)
    <3>1. /\ current[on[j]] = None
          /\ current' = [current EXCEPT ![on[j]] = j]
          /\ job' = [job EXCEPT ![j] = "running"]
          /\ UNCHANGED <<pending, on>>
      BY <1>3, <2>3 DEF StartResolved
    <3>2. \A k \in Jobs : job'[k] = IF k = j THEN "running" ELSE job[k]
      BY <3>1 DEF TypeOK
    <3>3. \A r \in Runners : current'[r] = IF r = on[j] THEN j ELSE current[r]
      BY <3>1 DEF TypeOK
    <3>4. \A k \in Jobs : ~(job[k] = "running" /\ on[k] = on[j])
      BY <2>1, <3>1, NoneAssumption DEF JobsAccounted
    <3>5. \A r \in Runners : \A k \in Jobs : current'[r] = k <=> job'[k] = "running" /\ on'[k] = r
      <4>1. TAKE r \in Runners
      <4>2. TAKE k \in Jobs
      <4>3. CASE k = j
        <5>1. current[r] # j
          BY <2>1 DEF JobsAccounted
        <5>2. QED
          BY <3>1, <3>2, <3>3, <4>3, <5>1
      <4>4. CASE k # j
        BY <3>1, <3>2, <3>3, <3>4, <4>4 DEF JobsAccounted
      <4>5. QED
        BY <4>3, <4>4
    <3>6. QED
      BY <2>1, <3>1, <3>2, <3>5 DEF JobsAccounted, Started
  <2>4. QED
    BY <2>2, <2>3
<1>4. CASE StartRejected(j)
  <2> DEFINE id == IF current[on[j]] = None THEN [idle EXCEPT ![on[j]] = TRUE] ELSE idle
             jb == [job EXCEPT ![j] = "rejected"]
             o == [on EXCEPT ![j] = NoRunner]
  <2>1. /\ job[j] = "starting"
        /\ Drain(child, id, jb, o)
        /\ current' = current
    BY <1>4 DEF StartRejected
  <2>2. /\ Accounted(pending, jb, o, current)
        /\ jb \in [Jobs -> JobState]
        /\ o \in [Jobs -> Runners \cup {NoRunner}]
    BY <2>1, SettleAccounts DEF Started, Settled
  <2> HIDE DEF id, jb, o
  <2>3. Accounted(pending', job', on', current)
    BY <2>1, <2>2, DrainAccounts DEF TypeOK
  <2>4. QED
    BY <2>1, <2>3 DEF JobsAccounted, Accounted, Distinct
<1>5. QED
  BY <1>1, <1>2, <1>3, <1>4, QueuedAccounts, QueueTimeoutAccounts DEF CallStep

LEMMA RunnerStepAccounts ==
  ASSUME TypeOK, JobsAccounted, NEW r \in Runners, RunnerStep(r)
  PROVE  JobsAccounted'
<1>1. CASE Answer(r)
  BY <1>1, ReadAnswerAccounts DEF Answer, TypeOK
<1>2. CASE LateAnswer(r)
  BY <1>2, ReadAnswerAccounts DEF LateAnswer, TypeOK
<1>3. CASE ParentTimeout(r) \/ StreamBroken(r)
  BY <1>3, FailAndKillAccounts DEF ParentTimeout, StreamBroken
<1>4. CASE Exit(r)
  <2> DEFINE ch == [child EXCEPT ![r] = "exited"]
             id == [idle EXCEPT ![r] = FALSE]
  <2>1. CASE current[r] = None
    <3>1. Drain(ch, id, job, on) /\ current' = current
      BY <1>4, <2>1 DEF Exit
    <3> HIDE DEF ch, id
    <3>2. Accounted(pending', job', on', current)
      BY <3>1, AccountedNow, DrainAccounts DEF TypeOK
    <3>3. QED
      BY <3>1, <3>2 DEF JobsAccounted, Accounted, Distinct
  <2>2. CASE current[r] # None
    BY <1>4, <2>2, FailCurrentAccounts DEF Exit
  <2>3. QED
    BY <2>1, <2>2
<1>5. CASE Restart(r)
  <2>1. /\ Drain([child EXCEPT ![r] = "up"], [idle EXCEPT ![r] = TRUE], job, on)
        /\ current' = current
    BY <1>5 DEF Restart
  <2>2. Accounted(pending, job, on, current)
    BY DEF JobsAccounted, Accounted, Distinct
  <2>3. Accounted(pending', job', on', current)
    BY <2>1, <2>2, DrainAccounts DEF TypeOK
  <2>4. QED
    BY <2>1, <2>3 DEF JobsAccounted, Accounted, Distinct
<1>6. QED
  BY <1>1, <1>2, <1>3, <1>4, <1>5 DEF RunnerStep

LEMMA AccountedStep == TypeOK /\ JobsAccounted /\ [Next]_vars => JobsAccounted'
<1> SUFFICES ASSUME TypeOK, JobsAccounted, [Next]_vars PROVE JobsAccounted'
  OBVIOUS
<1>1. CASE Close
  <2>1. /\ pending' = <<>> /\ DOMAIN pending' = {}
        /\ \A j \in Jobs : job'[j] = IF job[j] = "queued" THEN "shutdown" ELSE job[j]
        /\ UNCHANGED <<current, on>>
    BY <1>1 DEF Close, rvars
  <2>2. QED
    BY <2>1 DEF JobsAccounted, Started
<1>2. CASE CloseEnds
  BY <1>2 DEF CloseEnds, jvars, JobsAccounted
<1>3. CASE UNCHANGED vars
  BY <1>3 DEF vars, JobsAccounted
<1>4. QED
  BY <1>1, <1>2, <1>3, CallStepAccounts, RunnerStepAccounts DEF Next

(* The queue holds exactly the waiting calls, a job runs on at most one    *)
(* runner, and no runner works for a settled call: it is inductive         *)
(* together with the types.                                                *)
THEOREM JobsAlwaysAccounted == Spec => []JobsAccounted
<1>1. Init => TypeOK /\ JobsAccounted
  BY TypeInit, AccountedInit
<1>2. TypeOK /\ JobsAccounted /\ [Next]_vars => (TypeOK /\ JobsAccounted)'
  BY TypeStep, AccountedStep
<1>3. QED
  BY <1>1, <1>2, PTL DEF Spec

-----------------------------------------------------------------------------
(* The moves of a call                                                     *)

JobAdmit == {<<"new", "queued">>, <<"new", "starting">>, <<"queued", "starting">>}
JobAdvance == {<<"new", "shutdown">>, <<"queued", "busy">>, <<"queued", "shutdown">>,
               <<"starting", "running">>, <<"starting", "crashed">>,
               <<"starting", "rejected">>, <<"running", "crashed">>,
               <<"running", "result">>, <<"running", "dropped">>}
JobMove(j, s) ==
  \/ s = job[j]
  \/ <<job[j], s>> \in JobAdvance
  \/ ~closing /\ <<job[j], s>> \in JobAdmit

(* What drain does to a call: nothing, or it starts one that waits.        *)
LEMMA DrainCall ==
  ASSUME TypeOK, JobsAccounted, NEW ch, NEW id, NEW jb, NEW o, Drain(ch, id, jb, o),
         NEW j \in Jobs
  PROVE  \/ job'[j] = jb[j] /\ on'[j] = o[j]
         \/ ~closing /\ job[j] = "queued" /\ job'[j] = "starting"
<1>0. PICK n \in 0..Len(pending) : \E s : Drained(n, s, ch, id, jb, o)
  BY DrainEffect DEF TypeOK, JobsAccounted, Distinct
<1>1. PICK s : Drained(n, s, ch, id, jb, o)
  BY <1>0
<1>2. CASE \A i \in 1..n : pending[i] # j
  BY <1>1, <1>2 DEF Drained
<1>3. ASSUME NEW m \in 1..n, pending[m] = j
      PROVE  ~closing /\ job[j] = "queued" /\ job'[j] = "starting"
  <2>1. Len(pending) \in Nat /\ DOMAIN pending = 1..Len(pending)
    BY LenProperties DEF TypeOK
  <2>2. n # 0 /\ m \in DOMAIN pending
    BY <2>1
  <2>3. QED
    BY <1>1, <1>3, <2>2 DEF Drained, JobsAccounted
<1>4. QED
  BY <1>2, <1>3

(* drain adds to a handler's moves those of the head of the queue.         *)
LEMMA DrainMoves ==
  ASSUME TypeOK, JobsAccounted, NEW ch, NEW id, NEW jb \in [Jobs -> JobState], NEW o,
         \A j \in Jobs : JobMove(j, jb[j]), Drain(ch, id, jb, o)
  PROVE  \A j \in Jobs : JobMove(j, job'[j])
<1>1. TAKE j \in Jobs
<1>2. CASE job'[j] = jb[j]
  BY <1>2
<1>3. CASE ~closing /\ job[j] = "queued" /\ job'[j] = "starting"
  BY <1>3 DEF JobMove, JobAdmit
<1>4. QED
  BY <1>2, <1>3, DrainCall

(* A handler that settles one started call, and drains.                    *)
LEMMA SettleMoves ==
  ASSUME TypeOK, JobsAccounted, NEW j \in Jobs, NEW s \in Settled,
         <<job[j], s>> \in JobAdvance, NEW ch, NEW id, NEW o,
         Drain(ch, id, [job EXCEPT ![j] = s], o)
  PROVE  \A k \in Jobs : JobMove(k, job'[k])
<1> DEFINE jb == [job EXCEPT ![j] = s]
<1>1. jb \in [Jobs -> JobState]
  BY DEF TypeOK, JobState
<1>2. \A k \in Jobs : JobMove(k, jb[k])
  BY DEF TypeOK, JobMove
<1> HIDE DEF jb
<1>3. Drain(ch, id, jb, o)
  BY DEF jb
<1>4. QED
  BY <1>1, <1>2, <1>3, DrainMoves

LEMMA FailCurrentMoves ==
  ASSUME TypeOK, JobsAccounted, NEW r \in Runners, NEW ch, NEW id,
         current[r] # None, FailCurrent(r, ch, id)
  PROVE  \A j \in Jobs : JobMove(j, job'[j])
<1>1. current[r] \in Jobs /\ job[current[r]] = "running"
  BY DEF TypeOK, JobsAccounted
<1>2. Drain(ch, [id EXCEPT ![r] = FALSE], [job EXCEPT ![current[r]] = "crashed"],
            [on EXCEPT ![current[r]] = NoRunner])
  BY DEF FailCurrent
<1>3. QED
  BY <1>1, <1>2, SettleMoves DEF JobAdvance, Settled

LEMMA FailAndKillMoves ==
  ASSUME TypeOK, JobsAccounted, NEW r \in Runners, FailAndKill(r)
  PROVE  \A j \in Jobs : JobMove(j, job'[j])
<1>1. CASE current[r] = None
  BY <1>1 DEF FailAndKill, JobMove
<1>2. CASE current[r] # None
  BY <1>2, FailCurrentMoves DEF FailAndKill
<1>3. QED
  BY <1>1, <1>2

LEMMA DropMoves ==
  ASSUME TypeOK, JobsAccounted, NEW r \in Runners, current[r] # None, DropCall(r)
  PROVE  \A j \in Jobs : JobMove(j, job'[j])
<1>1. current[r] \in Jobs /\ job[current[r]] = "running"
  BY DEF TypeOK, JobsAccounted
<1>2. job' = [job EXCEPT ![current[r]] = "dropped"]
  BY DEF DropCall
<1>3. QED
  BY <1>1, <1>2 DEF TypeOK, JobMove, JobAdvance

LEMMA ReadAnswerMoves ==
  ASSUME TypeOK, JobsAccounted, NEW r \in Runners, NEW w \in Jobs, ReadAnswer(r, w)
  PROVE  \A j \in Jobs : JobMove(j, job'[j])
<1>1. CASE UNCHANGED jvars
  BY <1>1 DEF JobMove, jvars
<1>2. CASE /\ current[r] # None /\ w = current[r]
           /\ Drain(child, [idle EXCEPT ![r] = TRUE], [job EXCEPT ![current[r]] = "result"],
                    [on EXCEPT ![current[r]] = NoRunner])
  <2>1. current[r] \in Jobs /\ job[current[r]] = "running"
    BY <1>2 DEF JobsAccounted
  <2>2. QED
    BY <1>2, <2>1, SettleMoves DEF JobAdvance, Settled
<1>3. CASE FailAndKill(r)
  BY <1>3, FailAndKillMoves
<1>4. CASE current[r] # None /\ DropCall(r)
  BY <1>4, DropMoves
<1>5. QED
  BY <1>1, <1>2, <1>3, <1>4 DEF ReadAnswer

LEMMA CallStepMoves ==
  ASSUME TypeOK, JobsAccounted, NEW j \in Jobs, CallStep(j)
  PROVE  \A k \in Jobs : JobMove(k, job'[k])
<1>1. CASE RunRefused(j)
  BY <1>1 DEF RunRefused, TypeOK, JobMove, JobAdvance
<1>2. CASE RunStarted(j)
  BY <1>2 DEF RunStarted, TypeOK, JobMove, JobAdmit
<1>3. CASE RunQueued(j)
  BY <1>3 DEF RunQueued, TypeOK, JobMove, JobAdmit
<1>4. CASE QueueTimeout(j)
  BY <1>4 DEF QueueTimeout, TypeOK, JobMove, JobAdvance
<1>5. CASE StartResolved(j)
  <2>1. job[j] = "starting"
    BY <1>5 DEF StartResolved
  <2>2. CASE ~Alive(on[j]) \/ current[on[j]] # None
    <3>1. Drain(child, idle, [job EXCEPT ![j] = "crashed"], [on EXCEPT ![j] = NoRunner])
      BY <1>5, <2>2 DEF StartResolved
    <3>2. QED
      BY <2>1, <3>1, SettleMoves DEF JobAdvance, Settled
  <2>3. CASE ~(~Alive(on[j]) \/ current[on[j]] # None)
    <3>1. job' = [job EXCEPT ![j] = "running"]
      BY <1>5, <2>3 DEF StartResolved
    <3>2. QED
      BY <2>1, <3>1 DEF TypeOK, JobMove, JobAdvance
  <2>4. QED
    BY <2>2, <2>3
<1>6. CASE StartRejected(j)
  <2> DEFINE id == IF current[on[j]] = None THEN [idle EXCEPT ![on[j]] = TRUE] ELSE idle
  <2>1. /\ job[j] = "starting"
        /\ Drain(child, id, [job EXCEPT ![j] = "rejected"], [on EXCEPT ![j] = NoRunner])
    BY <1>6 DEF StartRejected
  <2> HIDE DEF id
  <2>2. QED
    BY <2>1, SettleMoves DEF JobAdvance, Settled
<1>7. QED
  BY <1>1, <1>2, <1>3, <1>4, <1>5, <1>6 DEF CallStep

LEMMA RunnerStepMoves ==
  ASSUME TypeOK, JobsAccounted, NEW r \in Runners, RunnerStep(r)
  PROVE  \A k \in Jobs : JobMove(k, job'[k])
<1>1. CASE Answer(r) \/ LateAnswer(r)
  BY <1>1, ReadAnswerMoves DEF Answer, LateAnswer, TypeOK
<1>2. CASE ParentTimeout(r) \/ StreamBroken(r)
  BY <1>2, FailAndKillMoves DEF ParentTimeout, StreamBroken
<1>3. CASE Exit(r)
  <2>1. CASE current[r] = None
    <3>1. /\ Drain([child EXCEPT ![r] = "exited"], [idle EXCEPT ![r] = FALSE], job, on)
          /\ \A j \in Jobs : JobMove(j, job[j])
      BY <1>3, <2>1 DEF Exit, JobMove
    <3>2. QED
      BY <3>1, DrainMoves DEF TypeOK
  <2>2. CASE current[r] # None
    BY <1>3, <2>2, FailCurrentMoves DEF Exit
  <2>3. QED
    BY <2>1, <2>2
<1>4. CASE Restart(r)
  <2>1. /\ Drain([child EXCEPT ![r] = "up"], [idle EXCEPT ![r] = TRUE], job, on)
        /\ \A j \in Jobs : JobMove(j, job[j])
    BY <1>4 DEF Restart, JobMove
  <2>2. QED
    BY <2>1, DrainMoves DEF TypeOK
<1>5. QED
  BY <1>1, <1>2, <1>3, <1>4 DEF RunnerStep

(* Every step moves every call along these edges; close() is the one step  *)
(* that changes closing.                                                   *)
LEMMA StepMoves ==
  ASSUME TypeOK, JobsAccounted, [Next]_vars
  PROVE  /\ \A k \in Jobs : JobMove(k, job'[k])
         /\ closing' = closing \/ Close
<1>1. CASE \E j \in Jobs : CallStep(j)
  <2>1. close' = close
    BY <1>1 DEF CallStep, RunRefused, RunStarted, RunQueued, QueueTimeout, StartResolved,
                StartRejected, pvars
  <2>2. QED
    BY <1>1, <2>1, CallStepMoves DEF closing
<1>2. CASE \E r \in Runners : RunnerStep(r)
  <2>1. close' = close
    BY <1>2 DEF RunnerStep, Answer, LateAnswer, ParentTimeout, StreamBroken, Exit, Restart
  <2>2. QED
    BY <1>2, <2>1, RunnerStepMoves DEF closing
<1>3. CASE Close
  <2>1. \A k \in Jobs : job'[k] = IF job[k] = "queued" THEN "shutdown" ELSE job[k]
    BY <1>3 DEF Close
  <2>2. QED
    BY <1>3, <2>1 DEF JobMove, JobAdvance
<1>4. CASE CloseEnds \/ UNCHANGED vars
  BY <1>4 DEF CloseEnds, vars, jvars, closing, JobMove
<1>5. QED
  BY <1>1, <1>2, <1>3, <1>4 DEF Next

(* Once close() was called nothing starts and nothing is queued, whichever *)
(* runner comes back or finishes during the grace period.                  *)
THEOREM ClosingStarts == Spec => ClosingStartsNothing
<1>1. Init => TypeOK /\ JobsAccounted
  BY TypeInit, AccountedInit
<1>2. TypeOK /\ JobsAccounted /\ [Next]_vars => (TypeOK /\ JobsAccounted)'
  BY TypeStep, AccountedStep
<1>3. TypeOK /\ JobsAccounted /\ [Next]_vars =>
        [closing => \A j \in Jobs : job'[j] # job[j] => job'[j] \notin {"queued", "starting"}]_vars
  <2>1. SUFFICES ASSUME TypeOK, JobsAccounted, [Next]_vars, closing,
                        NEW j \in Jobs, job'[j] # job[j]
                 PROVE  job'[j] \notin {"queued", "starting"}
    OBVIOUS
  <2>2. <<job[j], job'[j]>> \in JobAdvance
    BY <2>1, StepMoves DEF JobMove
  <2>3. QED
    BY <2>2 DEF JobAdvance
<1>4. QED
  BY <1>1, <1>2, <1>3, PTL DEF Spec, ClosingStartsNothing

-----------------------------------------------------------------------------
(* The contract                                                            *)

LEMMA ViewOfMove ==
  ASSUME NEW j \in Jobs, NEW s, JobMove(j, s)
  PROVE  \/ CallView(s) = CallView(job[j])
         \/ <<CallView(job[j]), CallView(s)>> \in Contract!Advance
         \/ ~closing /\ <<CallView(job[j]), CallView(s)>> \in Contract!Admit
BY DEF JobMove, JobAdmit, JobAdvance, CallView, Contract!Advance, Contract!Admit

LEMMA ViewType == TypeOK => Contract!TypeOK
BY DEF TypeOK, Contract!TypeOK, Contract!CallState, Contract!Settled, CallView, closing,
       JobState, Started, Settled

LEMMA ContractInit == Init => Contract!Init
BY DEF Init, Contract!Init, CallView, closing

LEMMA ContractStep ==
  ASSUME TypeOK, JobsAccounted, TypeOK', [Next]_vars
  PROVE  Contract!Next
<1>1. CASE Close
  <2>1. /\ close = "open" /\ close' = "grace"
        /\ job' = [j \in Jobs |-> IF job[j] = "queued" THEN "shutdown" ELSE job[j]]
    BY <1>1 DEF Close
  <2>2. \A j \in Jobs : CallView(job'[j]) = IF CallView(job[j]) = "waiting" THEN "refused"
                                                                        ELSE CallView(job[j])
    BY <2>1 DEF CallView, TypeOK, JobState, Started, Settled
  <2>3. Contract!Close
    BY <2>1, <2>2 DEF Contract!Close, closing
  <2>4. QED
    BY <2>3 DEF Contract!Next
<1>2. CASE closing' = closing
  <2>1. [j \in Jobs |-> CallView(job'[j])] \in [Jobs -> Contract!CallState]
    BY ViewType DEF TypeOK, Contract!CallState, Contract!Settled, CallView, JobState, Started, Settled
  <2>2. \A j \in Jobs :
          \/ CallView(job'[j]) = CallView(job[j])
          \/ <<CallView(job[j]), CallView(job'[j])>> \in Contract!Advance
          \/ ~closing /\ <<CallView(job[j]), CallView(job'[j])>> \in Contract!Admit
    BY StepMoves, ViewOfMove
  <2>3. CASE closing
    <3>1. Contract!Moves(Contract!Advance)
      BY <2>1, <2>2, <2>3 DEF Contract!Moves
    <3>2. QED
      BY <1>2, <2>3, <3>1 DEF Contract!Next, Contract!WindDown
  <2>4. CASE ~closing
    <3>1. Contract!Moves(Contract!Admit \cup Contract!Advance)
      BY <2>1, <2>2, <2>4 DEF Contract!Moves
    <3>2. QED
      BY <1>2, <2>4, <3>1 DEF Contract!Next, Contract!Work
  <2>5. QED
    BY <2>3, <2>4
<1>3. QED
  BY <1>1, <1>2, StepMoves

(* What RunService sees of the pool is PoolContract: a call waits, starts  *)
(* at most once and ends once, refused only if it never started.           *)
THEOREM PoolKeepsContract == Spec => KeepsContract
<1>1. Init => TypeOK /\ JobsAccounted
  BY TypeInit, AccountedInit
<1>2. TypeOK /\ JobsAccounted /\ [Next]_vars => (TypeOK /\ JobsAccounted)'
  BY TypeStep, AccountedStep
<1>3. TypeOK /\ JobsAccounted /\ TypeOK' /\ [Next]_vars => [Contract!Next]_Contract!cvars
  BY ContractStep
<1>4. QED
  BY <1>1, <1>2, <1>3, ContractInit, PTL DEF Spec, KeepsContract, Contract!Spec

-----------------------------------------------------------------------------
(* Results                                                                 *)

(* drain makes no result.                                                  *)
LEMMA DrainResult ==
  ASSUME TypeOK, JobsAccounted, NEW ch, NEW id, NEW jb, NEW o,
         Drain(ch, id, jb, o), NEW j \in Jobs, job'[j] = "result"
  PROVE  jb[j] = "result"
BY DrainCall

LEMMA FailCurrentResult ==
  ASSUME TypeOK, JobsAccounted, NEW r \in Runners, NEW ch, NEW id,
         current[r] # None, FailCurrent(r, ch, id), NEW j \in Jobs, job'[j] = "result"
  PROVE  job[j] = "result"
<1> DEFINE jb == [job EXCEPT ![current[r]] = "crashed"]
<1>1. jb[j] = "result" => job[j] = "result"
  BY DEF TypeOK
<1>2. Drain(ch, [id EXCEPT ![r] = FALSE], jb, [on EXCEPT ![current[r]] = NoRunner])
  BY DEF FailCurrent
<1> HIDE DEF jb
<1>3. jb[j] = "result"
  BY <1>2, DrainResult
<1>4. QED
  BY <1>1, <1>3

LEMMA FailAndKillResult ==
  ASSUME TypeOK, JobsAccounted, ResultIsOwn, NEW r \in Runners, FailAndKill(r)
  PROVE  ResultIsOwn'
<1>1. SUFFICES ASSUME NEW j \in Jobs, job'[j] = "result" PROVE answer'[j] = j
  BY DEF ResultIsOwn
<1>2. answer' = answer
  BY DEF FailAndKill
<1>3. job[j] = "result"
  <2>1. CASE current[r] = None
    BY <1>1, <2>1 DEF FailAndKill
  <2>2. CASE current[r] # None
    BY <1>1, <2>2, FailCurrentResult DEF FailAndKill
  <2>3. QED
    BY <2>1, <2>2
<1>4. QED
  BY <1>2, <1>3 DEF ResultIsOwn

(* An answer becomes the result of the job it is the answer to, or of none *)
LEMMA ReadAnswerResult ==
  ASSUME TypeOK, JobsAccounted, ResultIsOwn, NEW r \in Runners, NEW w \in Jobs, ReadAnswer(r, w)
  PROVE  ResultIsOwn'
<1> SUFFICES ASSUME NEW j \in Jobs, job'[j] = "result" PROVE answer'[j] = j
  BY DEF ResultIsOwn
<1>1. CASE UNCHANGED jvars
  BY <1>1 DEF ResultIsOwn, jvars
<1>2. CASE /\ current[r] # None /\ w = current[r]
           /\ answer' = [answer EXCEPT ![current[r]] = w]
           /\ Drain(child, [idle EXCEPT ![r] = TRUE], [job EXCEPT ![current[r]] = "result"],
                    [on EXCEPT ![current[r]] = NoRunner])
  <2> DEFINE jb == [job EXCEPT ![current[r]] = "result"]
  <2>1. jb \in [Jobs -> JobState] /\ (jb[j] = "result" => job[j] = "result" \/ j = w)
    BY <1>2 DEF TypeOK, JobState, Settled
  <2>2. Drain(child, [idle EXCEPT ![r] = TRUE], jb, [on EXCEPT ![current[r]] = NoRunner])
    BY <1>2
  <2> HIDE DEF jb
  <2>3. jb[j] = "result"
    BY <2>1, <2>2, DrainResult
  <2>4. QED
    BY <1>2, <2>1, <2>3 DEF ResultIsOwn, TypeOK
<1>3. CASE FailAndKill(r)
  BY <1>3, FailAndKillResult DEF ResultIsOwn
<1>4. CASE DropCall(r)
  BY <1>4 DEF DropCall, TypeOK, ResultIsOwn
<1>5. QED
  BY <1>1, <1>2, <1>3, <1>4 DEF ReadAnswer

LEMMA CallStepResult ==
  ASSUME TypeOK, JobsAccounted, ResultIsOwn, NEW k \in Jobs, CallStep(k)
  PROVE  ResultIsOwn'
<1> SUFFICES ASSUME NEW j \in Jobs, job'[j] = "result"
             PROVE  job[j] = "result" /\ answer' = answer
  BY DEF ResultIsOwn
<1>1. CASE RunRefused(k) \/ RunStarted(k) \/ RunQueued(k) \/ QueueTimeout(k)
  BY <1>1 DEF RunRefused, RunStarted, RunQueued, QueueTimeout, TypeOK
<1>2. CASE StartResolved(k)
  <2>1. CASE ~Alive(on[k]) \/ current[on[k]] # None
    <3> DEFINE jb == [job EXCEPT ![k] = "crashed"]
    <3>1. jb \in [Jobs -> JobState] /\ (jb[j] = "result" => job[j] = "result")
      BY DEF TypeOK, JobState, Settled
    <3>2. Drain(child, idle, jb, [on EXCEPT ![k] = NoRunner]) /\ answer' = answer
      BY <1>2, <2>1 DEF StartResolved
    <3> HIDE DEF jb
    <3>3. QED
      BY <3>1, <3>2, DrainResult
  <2>2. CASE ~(~Alive(on[k]) \/ current[on[k]] # None)
    BY <1>2, <2>2 DEF StartResolved, TypeOK
  <2>3. QED
    BY <2>1, <2>2
<1>3. CASE StartRejected(k)
  <2> DEFINE id == IF current[on[k]] = None THEN [idle EXCEPT ![on[k]] = TRUE] ELSE idle
             jb == [job EXCEPT ![k] = "rejected"]
  <2>1. jb \in [Jobs -> JobState] /\ (jb[j] = "result" => job[j] = "result")
    BY DEF TypeOK, JobState, Settled
  <2>2. Drain(child, id, jb, [on EXCEPT ![k] = NoRunner]) /\ answer' = answer
    BY <1>3 DEF StartRejected
  <2> HIDE DEF id, jb
  <2>3. QED
    BY <2>1, <2>2, DrainResult
<1>4. QED
  BY <1>1, <1>2, <1>3 DEF CallStep

LEMMA RunnerStepResult ==
  ASSUME TypeOK, JobsAccounted, ResultIsOwn, NEW r \in Runners, RunnerStep(r)
  PROVE  ResultIsOwn'
<1>1. CASE Answer(r) \/ LateAnswer(r)
  BY <1>1, ReadAnswerResult DEF Answer, LateAnswer, TypeOK
<1>2. CASE ParentTimeout(r) \/ StreamBroken(r)
  BY <1>2, FailAndKillResult DEF ParentTimeout, StreamBroken
<1>3. CASE Exit(r) /\ current[r] = None
  <2>1. /\ Drain([child EXCEPT ![r] = "exited"], [idle EXCEPT ![r] = FALSE], job, on)
        /\ answer' = answer
    BY <1>3 DEF Exit
  <2>2. QED
    BY <2>1, DrainResult DEF ResultIsOwn
<1>4. CASE Exit(r) /\ current[r] # None
  <2>1. FailCurrent(r, [child EXCEPT ![r] = "exited"], idle) /\ answer' = answer
    BY <1>4 DEF Exit
  <2>2. QED
    BY <1>4, <2>1, FailCurrentResult DEF ResultIsOwn
<1>5. CASE Restart(r)
  BY <1>5, DrainResult DEF Restart, ResultIsOwn
<1>6. QED
  BY <1>1, <1>2, <1>3, <1>4, <1>5 DEF RunnerStep

LEMMA ResultStep == TypeOK /\ JobsAccounted /\ ResultIsOwn /\ [Next]_vars => ResultIsOwn'
<1> SUFFICES ASSUME TypeOK, JobsAccounted, ResultIsOwn, [Next]_vars PROVE ResultIsOwn'
  OBVIOUS
<1>1. CASE Close \/ CloseEnds \/ UNCHANGED vars
  BY <1>1 DEF Close, CloseEnds, vars, jvars, ResultIsOwn, TypeOK
<1>2. QED
  BY <1>1, CallStepResult, RunnerStepResult DEF Next

(* No call returns the answer of another job, not even when an earlier     *)
(* child's output is read while the next job runs on the runner.           *)
THEOREM ResultsAreOwn == Spec => []ResultIsOwn
<1>1. Init => TypeOK /\ JobsAccounted /\ ResultIsOwn
  BY TypeInit, AccountedInit DEF Init, ResultIsOwn
<1>2. TypeOK /\ JobsAccounted /\ ResultIsOwn /\ [Next]_vars
        => (TypeOK /\ JobsAccounted /\ ResultIsOwn)'
  BY TypeStep, AccountedStep, ResultStep
<1>3. QED
  BY <1>1, <1>2, PTL DEF Spec

-----------------------------------------------------------------------------
(* Runners and their children                                              *)

(* How calls tend runners, of children, idle flags, calls, reservations    *)
(* and current jobs that need not be those of one state: a runner that     *)
(* works is alive and not idle, one that neither works nor is idle is      *)
(* reserved, and of the runners that were never restarted each is held at  *)
(* most once, an idle one by nobody.  Dropped calls hold theirs besides.   *)
Working(ch, id, cur) == \A r \in Runners : cur[r] # None => AliveChild(ch[r]) /\ ~id[r]
Held(ch, id, jb, o, cur) ==
  \A r \in Runners : ch[r] = "up" /\ ~id[r] =>
    cur[r] # None \/ \E j \in Jobs : jb[j] = "starting" /\ o[j] = r
Exclusive(jb, o, rs) ==
  \A j, k \in Jobs : j # k /\ o[j] = o[k] /\ o[j] # NoRunner =>
    o[j] \in rs \/ "dropped" \in {jb[j], jb[k]}
FreeUnheld(id, jb, o, rs) ==
  \A r \in Runners \ rs : id[r] => \A j \in Jobs : o[j] = r => jb[j] = "dropped"
Tended(ch, id, jb, o, cur, rs) ==
  /\ Working(ch, id, cur)
  /\ Held(ch, id, jb, o, cur)
  /\ Exclusive(jb, o, rs)
  /\ FreeUnheld(id, jb, o, rs)

(* reserve: an idle runner goes to a call that held none.                  *)
LEMMA ReserveTends ==
  ASSUME NEW ch, NEW id \in [Runners -> BOOLEAN], NEW jb, NEW o, NEW cur, NEW rs,
         Tended(ch, id, jb, o, cur, rs),
         NEW h \in Jobs, jb[h] # "starting", NEW q \in Runners, id[q],
         NEW id2, ~id2[q], \A r \in Runners : r # q => id2[r] = id[r],
         NEW jb2, jb2[h] = "starting", \A k \in Jobs : k # h => jb2[k] = jb[k],
         NEW o2, o2[h] = q, \A k \in Jobs : k # h => o2[k] = o[k]
  PROVE  Tended(ch, id2, jb2, o2, cur, rs)
<1>1. Working(ch, id2, cur)
  <2>1. SUFFICES ASSUME NEW r \in Runners, cur[r] # None PROVE AliveChild(ch[r]) /\ ~id2[r]
    BY DEF Working
  <2>3. AliveChild(ch[r]) /\ ~id[r]
    BY <2>1 DEF Tended, Working
  <2>4. CASE r = q
    BY <2>3, <2>4
  <2>5. CASE r # q
    BY <2>3, <2>5
  <2>6. QED
    BY <2>4, <2>5
<1>2. Held(ch, id2, jb2, o2, cur)
  <2>2. SUFFICES ASSUME NEW r \in Runners, ch[r] = "up", ~id2[r]
                 PROVE  cur[r] # None \/ \E j \in Jobs : jb2[j] = "starting" /\ o2[j] = r
    BY DEF Held
  <2>3. CASE r = q
    BY <2>3
  <2>4. CASE r # q
    <3>1. cur[r] # None \/ \E j \in Jobs : jb[j] = "starting" /\ o[j] = r
      BY <2>2, <2>4 DEF Tended, Held
    <3>2. QED
      BY <3>1
  <2>5. QED
    BY <2>3, <2>4
<1>3. Exclusive(jb2, o2, rs)
  <2>1. SUFFICES ASSUME NEW j \in Jobs, NEW k \in Jobs, j # k, o2[j] = o2[k],
                        o2[j] # NoRunner, o2[j] \notin rs
                 PROVE  jb2[j] = "dropped" \/ jb2[k] = "dropped"
    BY DEF Exclusive
  <2>2. q \notin rs => \A m \in Jobs : o[m] = q => jb[m] = "dropped"
    BY DEF Tended, FreeUnheld
  <2>3. CASE j = h \/ k = h
    BY <2>1, <2>2, <2>3
  <2>4. CASE j # h /\ k # h
    BY <2>1, <2>4 DEF Tended, Exclusive
  <2>5. QED
    BY <2>3, <2>4
<1>4. FreeUnheld(id2, jb2, o2, rs)
  <2>1. SUFFICES ASSUME NEW r \in Runners \ rs, id2[r], NEW j \in Jobs, o2[j] = r
                 PROVE  jb2[j] = "dropped"
    BY DEF FreeUnheld
  <2>2. r # q /\ id[r] /\ j # h
    BY <2>1
  <2>3. QED
    BY <2>1, <2>2 DEF Tended, FreeUnheld
<1>5. QED
  BY <1>1, <1>2, <1>3, <1>4 DEF Tended

(* drain reserves idle runners, each for one call of the queue.            *)
LEMMA DrainTends ==
  ASSUME NEW ch, NEW id \in [Runners -> BOOLEAN], NEW jb \in [Jobs -> JobState],
         NEW o \in [Jobs -> Runners \cup {NoRunner}], NEW cur, NEW rs,
         pending \in Seq(Jobs), Accounted(pending, jb, o, cur),
         Tended(ch, id, jb, o, cur, rs), Drain(ch, id, jb, o)
  PROVE  Tended(ch, idle', job', on', cur, rs)
<1>0. PICK n \in 0..Len(pending) : \E s : Drained(n, s, ch, id, jb, o)
  BY DrainEffect DEF Accounted
<1>1. PICK s : Drained(n, s, ch, id, jb, o)
  BY <1>0
<1>2. \A i \in 1..n : s[i] \in Runners /\ id[s[i]]
  BY <1>1 DEF Drained, IdleIn
<1>3. \A i \in 1..n : pending[i] \in Jobs /\ job'[pending[i]] = "starting"
                      /\ on'[pending[i]] = s[i] /\ jb[pending[i]] = "queued"
  <2>1. TAKE i \in 1..n
  <2>2. i \in DOMAIN pending
    BY LenProperties
  <2>3. QED
    BY <1>1, <2>2 DEF Drained, Accounted
<1>4. \A j \in Jobs : (\A i \in 1..n : pending[i] # j) => job'[j] = jb[j] /\ on'[j] = o[j]
  BY <1>1 DEF Drained
<1>5. \A q \in Runners : idle'[q] <=> id[q] /\ \A i \in 1..n : s[i] # q
  BY <1>1 DEF Drained
<1>6. Working(ch, idle', cur)
  BY <1>5 DEF Tended, Working
<1>7. Held(ch, idle', job', on', cur)
  <2>1. SUFFICES ASSUME NEW r \in Runners, ch[r] = "up", ~idle'[r], cur[r] = None
                 PROVE  \E j \in Jobs : job'[j] = "starting" /\ on'[j] = r
    BY DEF Held
  <2>2. CASE \E i \in 1..n : s[i] = r
    BY <1>3, <2>2
  <2>3. CASE \A i \in 1..n : s[i] # r
    <3>1. ~id[r]
      BY <1>5, <2>1, <2>3
    <3>2. PICK j \in Jobs : jb[j] = "starting" /\ o[j] = r
      BY <2>1, <3>1 DEF Tended, Held
    <3>3. job'[j] = jb[j] /\ on'[j] = o[j]
      BY <1>3, <1>4, <3>2
    <3>4. QED
      BY <3>2, <3>3
  <2>4. QED
    BY <2>2, <2>3
<1>8. ASSUME NEW i \in 1..n, NEW k \in Jobs, k # pending[i], on'[k] = s[i],
             s[i] \notin rs
      PROVE  job'[k] = "dropped"
  <2>1. CASE \E m \in 1..n : pending[m] = k
    <3>1. PICK m \in 1..n : pending[m] = k
      BY <2>1
    <3>2. s[m] = s[i]
      BY <1>3, <1>8, <3>1
    <3>3. m = i
      BY <1>1, <3>2 DEF Drained
    <3>4. QED
      BY <1>8, <3>1, <3>3
  <2>2. CASE \A m \in 1..n : pending[m] # k
    <3>1. job'[k] = jb[k] /\ o[k] = s[i]
      BY <1>4, <1>8, <2>2
    <3>2. s[i] \in Runners \ rs /\ id[s[i]]
      BY <1>2, <1>8
    <3>3. QED
      BY <3>1, <3>2 DEF Tended, FreeUnheld
  <2>3. QED
    BY <2>1, <2>2
<1>9. Exclusive(job', on', rs)
  <2>1. SUFFICES ASSUME NEW j \in Jobs, NEW k \in Jobs, j # k, on'[j] = on'[k],
                        on'[j] # NoRunner, on'[j] \notin rs
                 PROVE  job'[j] = "dropped" \/ job'[k] = "dropped"
    BY DEF Exclusive
  <2>2. ASSUME NEW i \in 1..n, pending[i] = j PROVE job'[k] = "dropped"
    BY <1>3, <1>8, <2>1, <2>2
  <2>3. ASSUME NEW i \in 1..n, pending[i] = k PROVE job'[j] = "dropped"
    BY <1>3, <1>8, <2>1, <2>3
  <2>4. CASE \A i \in 1..n : pending[i] # j /\ pending[i] # k
    <3>1. job'[j] = jb[j] /\ on'[j] = o[j] /\ job'[k] = jb[k] /\ on'[k] = o[k]
      BY <1>4, <2>4
    <3>2. QED
      BY <2>1, <3>1 DEF Tended, Exclusive
  <2>5. QED
    BY <2>2, <2>3, <2>4
<1>10. FreeUnheld(idle', job', on', rs)
  <2>1. SUFFICES ASSUME NEW r \in Runners \ rs, idle'[r], NEW j \in Jobs, on'[j] = r
                 PROVE  job'[j] = "dropped"
    BY DEF FreeUnheld
  <2>2. id[r] /\ \A i \in 1..n : s[i] # r
    BY <1>5, <2>1
  <2>3. \A i \in 1..n : pending[i] # j
    BY <1>3, <2>1, <2>2
  <2>4. job'[j] = jb[j] /\ o[j] = r
    BY <1>4, <2>1, <2>3
  <2>5. QED
    BY <2>2, <2>4 DEF Tended, FreeUnheld
<1>11. QED
  BY <1>6, <1>7, <1>9, <1>10 DEF Tended

(* A call settles and gives its runner up.  The runner is not left without *)
(* anyone who tends it when its child is not up, when it is idle now or    *)
(* when it runs a job; and it is made idle only where that call was the    *)
(* one that held it.                                                       *)
LEMMA SettleTends ==
  ASSUME TypeOK, Tended(child, idle, job, on, current, respawned),
         NEW j \in Jobs, job[j] # "dropped", NEW s, s # "starting",
         NEW r \in Runners, on[j] = r,
         NEW ch, \A q \in Runners : q # r => ch[q] = child[q],
         NEW id, \A q \in Runners : q # r => id[q] = idle[q],
         NEW cur, \A q \in Runners : q # r => cur[q] = current[q],
         cur[r] # None => AliveChild(ch[r]) /\ ~id[r],
         ch[r] # "up" \/ id[r] \/ cur[r] # None
  PROVE  Tended(ch, id, [job EXCEPT ![j] = s], [on EXCEPT ![j] = NoRunner], cur, respawned)
<1> DEFINE jb == [job EXCEPT ![j] = s]
           o == [on EXCEPT ![j] = NoRunner]
<1>1. jb[j] = s /\ \A k \in Jobs : k # j => jb[k] = job[k]
  BY DEF TypeOK
<1>2. o[j] = NoRunner /\ \A k \in Jobs : k # j => o[k] = on[k]
  BY DEF TypeOK
<1>3. NoRunner \notin Runners
  BY DEF Runners, NoRunner
<1> HIDE DEF jb, o
<1>4. Working(ch, id, cur)
  <2>2. SUFFICES ASSUME NEW q \in Runners, cur[q] # None PROVE AliveChild(ch[q]) /\ ~id[q]
    BY DEF Working
  <2>3. CASE q = r
    BY <2>2, <2>3
  <2>4. CASE q # r
    <3>1. AliveChild(child[q]) /\ ~idle[q]
      BY <2>2, <2>4 DEF Tended, Working
    <3>2. QED
      BY <2>4, <3>1
  <2>5. QED
    BY <2>3, <2>4
<1>5. Held(ch, id, jb, o, cur)
  <2>2. SUFFICES ASSUME NEW q \in Runners, ch[q] = "up", ~id[q]
                 PROVE  cur[q] # None \/ \E k \in Jobs : jb[k] = "starting" /\ o[k] = q
    BY DEF Held
  <2>3. CASE q = r
    BY <2>2, <2>3
  <2>4. CASE q # r
    <3>1. current[q] # None \/ \E k \in Jobs : job[k] = "starting" /\ on[k] = q
      BY <2>2, <2>4 DEF Tended, Held
    <3>2. QED
      BY <1>1, <1>2, <2>4, <3>1
  <2>5. QED
    BY <2>3, <2>4
<1>6. Exclusive(jb, o, respawned)
  BY <1>1, <1>2, <1>3 DEF Tended, Exclusive
<1>7. FreeUnheld(id, jb, o, respawned)
  <2>2. SUFFICES ASSUME NEW q \in Runners \ respawned, id[q], NEW k \in Jobs, o[k] = q
                 PROVE  jb[k] = "dropped"
    BY DEF FreeUnheld
  <2>4. k # j /\ on[k] = q /\ jb[k] = job[k]
    BY <1>1, <1>2, <1>3, <2>2
  <2>5. CASE q = r
    BY <1>3, <2>4, <2>5 DEF Tended, Exclusive
  <2>6. CASE q # r
    <3>1. idle[q]
      BY <2>2, <2>6
    <3>2. QED
      BY <2>4, <3>1 DEF Tended, FreeUnheld
  <2>7. QED
    BY <2>4, <2>5, <2>6
<1>8. Tended(ch, id, jb, o, cur, respawned)
  BY <1>4, <1>5, <1>6, <1>7 DEF Tended
<1>9. QED
  BY <1>8 DEF jb, o

(* A child that is not up any more (killed or gone) leaves its runner to   *)
(* nobody, when it has no job                                              *)
LEMMA NoJobTends ==
  ASSUME TypeOK, Tended(child, idle, job, on, current, respawned),
         NEW r \in Runners, current[r] = None,
         NEW ch, ch[r] # "up", \A q \in Runners : q # r => ch[q] = child[q],
         NEW id \in [Runners -> BOOLEAN], id[r] => idle[r],
         \A q \in Runners : q # r => id[q] = idle[q]
  PROVE  Tended(ch, id, job, on, current, respawned)
<1>1. Working(ch, id, current)
  <2>1. SUFFICES ASSUME NEW q \in Runners, current[q] # None
                 PROVE  AliveChild(ch[q]) /\ ~id[q]
    BY DEF Working
  <2>2. q # r /\ AliveChild(child[q]) /\ ~idle[q]
    BY <2>1 DEF Tended, Working
  <2>3. QED
    BY <2>2
<1>2. Held(ch, id, job, on, current)
  <2>1. SUFFICES ASSUME NEW q \in Runners, ch[q] = "up", ~id[q]
                 PROVE  current[q] # None \/ \E k \in Jobs : job[k] = "starting" /\ on[k] = q
    BY DEF Held
  <2>2. q # r /\ child[q] = "up" /\ ~idle[q]
    BY <2>1
  <2>3. QED
    BY <2>2 DEF Tended, Held
<1>3. FreeUnheld(id, job, on, respawned)
  <2>1. SUFFICES ASSUME NEW q \in Runners \ respawned, id[q], NEW k \in Jobs, on[k] = q
                 PROVE  job[k] = "dropped"
    BY DEF FreeUnheld
  <2>2. idle[q]
    BY <2>1
  <2>3. QED
    BY <2>1, <2>2 DEF Tended, FreeUnheld
<1>4. QED
  BY <1>1, <1>2, <1>3 DEF Tended

(* and when it has one, which fails.                                       *)
LEMMA FailCurrentTends ==
  ASSUME TypeOK, JobsAccounted, Tended(child, idle, job, on, current, respawned),
         NEW r \in Runners,
         NEW ch, ch[r] # "up", \A q \in Runners : q # r => ch[q] = child[q],
         current[r] # None, FailCurrent(r, ch, idle)
  PROVE  Tended(ch, idle', job', on', current', respawned)
<1> DEFINE j == current[r]
           id2 == [idle EXCEPT ![r] = FALSE]
           jb == [job EXCEPT ![j] = "crashed"]
           o == [on EXCEPT ![j] = NoRunner]
<1>1. j \in Jobs /\ job[j] = "running" /\ on[j] = r
  BY DEF TypeOK, JobsAccounted
<1>2. current' = [current EXCEPT ![r] = None] /\ Drain(ch, id2, jb, o)
  BY DEF FailCurrent
<1>3. /\ Accounted(pending, jb, o, current')
      /\ jb \in [Jobs -> JobState]
      /\ o \in [Jobs -> Runners \cup {NoRunner}]
  BY <1>1, <1>2, SettleAccounts DEF Started, Settled
<1>4. id2 \in [Runners -> BOOLEAN] /\ \A q \in Runners : q # r => id2[q] = idle[q]
  BY DEF TypeOK
<1>5. current'[r] = None /\ \A q \in Runners : q # r => current'[q] = current[q]
  BY <1>2 DEF TypeOK
<1> HIDE DEF j, id2
<1>6. Tended(ch, id2, jb, o, current', respawned)
  BY <1>1, <1>4, <1>5, SettleTends
<1> HIDE DEF jb, o
<1>7. QED
  BY <1>2, <1>3, <1>4, <1>6, DrainTends DEF TypeOK

LEMMA FailAndKillTends ==
  ASSUME TypeOK, JobsAccounted, Tended(child, idle, job, on, current, respawned),
         NEW r \in Runners, FailAndKill(r)
  PROVE  Tended(child', idle', job', on', current', respawned)
<1> DEFINE ch == [child EXCEPT ![r] = Kill(child[r])]
<1>1. child' = ch
  BY DEF FailAndKill
<1>2. ch[r] # "up" /\ \A q \in Runners : q # r => ch[q] = child[q]
  BY DEF TypeOK, Kill
<1>3. CASE current[r] = None
  <2>1. UNCHANGED <<idle, current, pending, job, on>>
    BY <1>3 DEF FailAndKill
  <2> HIDE DEF ch
  <2>2. Tended(ch, idle, job, on, current, respawned)
    BY <1>2, <1>3, NoJobTends DEF TypeOK
  <2>3. QED
    BY <1>1, <2>1, <2>2
<1>4. CASE current[r] # None
  <2>1. FailCurrent(r, ch, idle)
    BY <1>4 DEF FailAndKill
  <2> HIDE DEF ch
  <2>2. Tended(ch, idle', job', on', current', respawned)
    BY <1>2, <1>4, <2>1, FailCurrentTends
  <2>3. QED
    BY <1>1, <2>2
<1>5. QED
  BY <1>3, <1>4

(* A dropped call leaves its runner idle, and its child killed.            *)
LEMMA DropTends ==
  ASSUME TypeOK, JobsAccounted, Tended(child, idle, job, on, current, respawned),
         NEW r \in Runners, current[r] # None, DropCall(r)
  PROVE  Tended(child', idle', job', on', current', respawned)
<1> DEFINE j == current[r]
<1>1. j \in Jobs /\ job[j] = "running" /\ on[j] = r
  BY DEF TypeOK, JobsAccounted
<1>2. on' = on
  BY DEF DropCall
<1>3. child'[r] # "up" /\ \A q \in Runners : q # r => child'[q] = child[q]
  BY DEF DropCall, TypeOK, Kill
<1>4. idle'[r] /\ \A q \in Runners : q # r => idle'[q] = idle[q]
  BY DEF DropCall, TypeOK
<1>5. current'[r] = None /\ \A q \in Runners : q # r => current'[q] = current[q]
  BY DEF DropCall, TypeOK
<1>6. job'[j] = "dropped" /\ \A k \in Jobs : k # j => job'[k] = job[k]
  BY <1>1 DEF DropCall, TypeOK
<1> HIDE DEF j
<1>7. Working(child', idle', current')
  <2>1. SUFFICES ASSUME NEW q \in Runners, current'[q] # None
                 PROVE  AliveChild(child'[q]) /\ ~idle'[q]
    BY DEF Working
  <2>2. q # r /\ AliveChild(child[q]) /\ ~idle[q]
    BY <1>5, <2>1 DEF Tended, Working
  <2>3. QED
    BY <1>3, <1>4, <2>2
<1>8. Held(child', idle', job', on, current')
  <2>1. SUFFICES ASSUME NEW q \in Runners, child'[q] = "up", ~idle'[q]
                 PROVE  current'[q] # None \/ \E k \in Jobs : job'[k] = "starting" /\ on[k] = q
    BY DEF Held
  <2>2. q # r /\ child[q] = "up" /\ ~idle[q]
    BY <1>3, <1>4, <2>1
  <2>3. current[q] # None \/ \E k \in Jobs : job[k] = "starting" /\ on[k] = q
    BY <2>2 DEF Tended, Held
  <2>4. QED
    BY <1>1, <1>5, <1>6, <2>2, <2>3
<1>9. Exclusive(job', on, respawned)
  BY <1>6 DEF Tended, Exclusive
<1>10. FreeUnheld(idle', job', on, respawned)
  <2>1. SUFFICES ASSUME NEW q \in Runners \ respawned, idle'[q], NEW k \in Jobs, on[k] = q
                 PROVE  job'[k] = "dropped"
    BY DEF FreeUnheld
  <2>2. CASE k = j
    BY <1>6, <2>2
  <2>3. CASE k # j /\ q = r
    BY <1>1, <1>6, <2>1, <2>3 DEF Tended, Exclusive, Runners, NoRunner
  <2>4. CASE k # j /\ q # r
    <3>1. idle[q]
      BY <1>4, <2>1, <2>4
    <3>2. QED
      BY <1>6, <2>1, <2>4, <3>1 DEF Tended, FreeUnheld
  <2>5. QED
    BY <2>2, <2>3, <2>4
<1>11. QED
  BY <1>2, <1>7, <1>8, <1>9, <1>10 DEF Tended

(* An answer frees the runner of the job that got it.                      *)
LEMMA ReadAnswerTends ==
  ASSUME TypeOK, JobsAccounted, Tended(child, idle, job, on, current, respawned),
         NEW r \in Runners, NEW w \in Jobs, ReadAnswer(r, w)
  PROVE  Tended(child', idle', job', on', current', respawned)
<1> DEFINE j == current[r]
           id == [idle EXCEPT ![r] = TRUE]
           jb == [job EXCEPT ![j] = "result"]
           o == [on EXCEPT ![j] = NoRunner]
<1>1. CASE j = None /\ UNCHANGED <<child, idle, current, pending, jvars>>
  BY <1>1 DEF jvars
<1>2. CASE /\ j # None /\ w = j
           /\ current' = [current EXCEPT ![r] = None]
           /\ Drain(child, id, jb, o)
           /\ UNCHANGED child
  <2>1. j \in Jobs /\ job[j] = "running" /\ on[j] = r
    BY <1>2 DEF JobsAccounted
  <2>2. /\ Accounted(pending, jb, o, current')
        /\ jb \in [Jobs -> JobState]
        /\ o \in [Jobs -> Runners \cup {NoRunner}]
    BY <1>2, <2>1, SettleAccounts DEF Started, Settled
  <2>3. id \in [Runners -> BOOLEAN] /\ id[r] /\ \A q \in Runners : q # r => id[q] = idle[q]
    BY DEF TypeOK
  <2>4. current'[r] = None /\ \A q \in Runners : q # r => current'[q] = current[q]
    BY <1>2 DEF TypeOK
  <2> HIDE DEF j, id
  <2>5. Tended(child, id, jb, o, current', respawned)
    BY <2>1, <2>3, <2>4, SettleTends
  <2> HIDE DEF jb, o
  <2>6. Tended(child, idle', job', on', current', respawned)
    BY <1>2, <2>2, <2>3, <2>5, DrainTends DEF TypeOK
  <2>7. QED
    BY <1>2, <2>6
<1>3. CASE FailAndKill(r)
  BY <1>3, FailAndKillTends
<1>4. CASE j # None /\ DropCall(r)
  BY <1>4, DropTends
<1>5. QED
  BY <1>1, <1>2, <1>3, <1>4 DEF ReadAnswer

LEMMA StartTends ==
  ASSUME TypeOK, JobsAccounted, Tended(child, idle, job, on, current, respawned),
         NEW j \in Jobs, StartResolved(j) \/ StartRejected(j)
  PROVE  Tended(child', idle', job', on', current', respawned')
<1>1. job[j] = "starting" /\ on[j] \in Runners /\ child' = child /\ respawned' = respawned
  BY DEF StartResolved, StartRejected, JobsAccounted, TypeOK, Started
<1>2. CASE StartResolved(j) /\ (~Alive(on[j]) \/ current[on[j]] # None)
  <2> DEFINE jb == [job EXCEPT ![j] = "crashed"]
             o == [on EXCEPT ![j] = NoRunner]
  <2>1. Drain(child, idle, jb, o) /\ current' = current
    BY <1>2 DEF StartResolved
  <2>2. /\ Accounted(pending, jb, o, current)
        /\ jb \in [Jobs -> JobState]
        /\ o \in [Jobs -> Runners \cup {NoRunner}]
    BY <1>1, SettleAccounts DEF Started, Settled
  <2>3. current[on[j]] # None => AliveChild(child[on[j]]) /\ ~idle[on[j]]
    BY <1>1 DEF Tended, Working
  <2>4. child[on[j]] # "up" \/ idle[on[j]] \/ current[on[j]] # None
    BY <1>2 DEF Alive, AliveChild
  <2>5. Tended(child, idle, jb, o, current, respawned)
    BY <1>1, <2>3, <2>4, SettleTends
  <2> HIDE DEF jb, o
  <2>6. Tended(child, idle', job', on', current, respawned)
    BY <2>1, <2>2, <2>5, DrainTends DEF TypeOK
  <2>7. QED
    BY <1>1, <2>1, <2>6
<1>3. CASE StartResolved(j) /\ ~(~Alive(on[j]) \/ current[on[j]] # None)
  <2> DEFINE r == on[j]
  <2>1. /\ AliveChild(child[r])
        /\ current' = [current EXCEPT ![r] = j]
        /\ idle' = [idle EXCEPT ![r] = FALSE]
        /\ job' = [job EXCEPT ![j] = "running"]
        /\ on' = on
    BY <1>3 DEF StartResolved, Alive
  <2>2. r \in Runners /\ on[j] = r
    BY <1>1
  <2> HIDE DEF r
  <2>3. current'[r] # None /\ \A q \in Runners : q # r => current'[q] = current[q]
    BY <2>1, <2>2, NoneAssumption DEF TypeOK
  <2>4. ~idle'[r] /\ \A q \in Runners : q # r => idle'[q] = idle[q]
    BY <2>1, <2>2 DEF TypeOK
  <2>5. \A k \in Jobs : k # j => job'[k] = job[k]
    BY <2>1 DEF TypeOK
  <2>6. Working(child, idle', current')
    <3>1. SUFFICES ASSUME NEW q \in Runners, current'[q] # None
                   PROVE  AliveChild(child[q]) /\ ~idle'[q]
      BY DEF Working
    <3>2. CASE q = r
      BY <2>1, <2>4, <3>2
    <3>3. CASE q # r
      <4>1. AliveChild(child[q]) /\ ~idle[q]
        BY <2>3, <3>1, <3>3 DEF Tended, Working
      <4>2. QED
        BY <2>4, <3>3, <4>1
    <3>4. QED
      BY <3>2, <3>3
  <2>7. Held(child, idle', job', on, current')
    <3>1. SUFFICES ASSUME NEW q \in Runners, child[q] = "up", ~idle'[q]
                   PROVE  current'[q] # None \/ \E k \in Jobs : job'[k] = "starting" /\ on[k] = q
      BY DEF Held
    <3>2. CASE q = r
      BY <2>3, <3>2
    <3>3. CASE q # r
      <4>1. ~idle[q]
        BY <2>4, <3>1, <3>3
      <4>2. current[q] # None \/ \E k \in Jobs : job[k] = "starting" /\ on[k] = q
        BY <3>1, <4>1 DEF Tended, Held
      <4>3. QED
        BY <2>2, <2>3, <2>5, <3>3, <4>2
    <3>4. QED
      BY <3>2, <3>3
  <2>8. FreeUnheld(idle', job', on, respawned)
    <3>1. SUFFICES ASSUME NEW q \in Runners \ respawned, idle'[q], NEW k \in Jobs, on[k] = q
                   PROVE  job'[k] = "dropped"
      BY DEF FreeUnheld
    <3>2. q # r /\ k # j
      BY <2>2, <2>4, <3>1
    <3>3. idle[q]
      BY <2>4, <3>1, <3>2
    <3>4. QED
      BY <2>5, <3>1, <3>2, <3>3 DEF Tended, FreeUnheld
  <2>9. Exclusive(job', on, respawned)
    <3>1. \A k \in Jobs : job[k] = "dropped" => job'[k] = "dropped"
      BY <1>1, <2>5
    <3>2. QED
      BY <3>1 DEF Tended, Exclusive
  <2>11. Tended(child, idle', job', on, current', respawned)
    BY <2>6, <2>7, <2>8, <2>9 DEF Tended
  <2>12. QED
    BY <1>1, <2>1, <2>11
<1>4. CASE StartRejected(j)
  <2> DEFINE r == on[j]
             id == IF current[r] = None THEN [idle EXCEPT ![r] = TRUE] ELSE idle
             jb == [job EXCEPT ![j] = "rejected"]
             o == [on EXCEPT ![j] = NoRunner]
  <2>1. Drain(child, id, jb, o) /\ current' = current
    BY <1>4 DEF StartRejected
  <2>2. /\ Accounted(pending, jb, o, current)
        /\ jb \in [Jobs -> JobState]
        /\ o \in [Jobs -> Runners \cup {NoRunner}]
    BY <1>1, SettleAccounts DEF Started, Settled
  <2>3. r \in Runners
    BY <1>1
  <2>4. id \in [Runners -> BOOLEAN] /\ \A q \in Runners : q # r => id[q] = idle[q]
    BY DEF TypeOK
  <2>5. current[r] = None => id[r]
    BY <2>3 DEF TypeOK
  <2>6. current[r] # None => id = idle
    OBVIOUS
  <2>7. on[j] = r
    OBVIOUS
  <2> HIDE DEF r, id
  <2>8. current[r] # None => AliveChild(child[r]) /\ ~id[r]
    <3>1. current[r] # None => AliveChild(child[r]) /\ ~idle[r]
      BY <2>3 DEF Tended, Working
    <3>2. QED
      BY <2>6, <3>1
  <2>9. job[j] # "dropped" /\ "rejected" # "starting"
    BY <1>1
  <2>12. Tended(child, id, jb, o, current, respawned)
    BY <2>3, <2>4, <2>5, <2>7, <2>8, <2>9, SettleTends
  <2> HIDE DEF jb, o
  <2>10. Tended(child, idle', job', on', current, respawned)
    BY <2>1, <2>2, <2>4, <2>12, DrainTends DEF TypeOK
  <2>11. QED
    BY <1>1, <2>1, <2>10
<1>5. QED
  BY <1>2, <1>3, <1>4

LEMMA CallStepTends ==
  ASSUME TypeOK, JobsAccounted, Tended(child, idle, job, on, current, respawned),
         NEW j \in Jobs, CallStep(j)
  PROVE  Tended(child', idle', job', on', current', respawned')
<1>1. CASE RunStarted(j)
  <2> DEFINE q == First(IdleIn(child, idle))
  <2>1. /\ job[j] = "new"
        /\ idle' = [idle EXCEPT ![q] = FALSE]
        /\ job' = [job EXCEPT ![j] = "starting"]
        /\ on' = [on EXCEPT ![j] = q]
        /\ UNCHANGED <<child, current, respawned>>
    BY <1>1 DEF RunStarted
  <2>2. q \in Runners /\ idle[q]
    <3>1. q \in IdleIn(child, idle)
      BY <1>1, FirstIsMember DEF RunStarted, IdleIn
    <3>2. QED
      BY <3>1 DEF IdleIn
  <2> HIDE DEF q
  <2>3. ~idle'[q] /\ \A r \in Runners : r # q => idle'[r] = idle[r]
    BY <2>1, <2>2 DEF TypeOK
  <2>4. job'[j] = "starting" /\ \A k \in Jobs : k # j => job'[k] = job[k]
    BY <2>1 DEF TypeOK
  <2>5. on'[j] = q /\ \A k \in Jobs : k # j => on'[k] = on[k]
    BY <2>1 DEF TypeOK
  <2>6. idle \in [Runners -> BOOLEAN] /\ job[j] # "starting"
    BY <2>1 DEF TypeOK
  <2>7. Tended(child, idle', job', on', current, respawned)
    BY <2>2, <2>3, <2>4, <2>5, <2>6, ReserveTends
  <2>8. QED
    BY <2>1, <2>7
<1>2. CASE RunRefused(j) \/ RunQueued(j) \/ QueueTimeout(j)
  <2>1. UNCHANGED <<child, idle, on, current, respawned>>
    BY <1>2 DEF RunRefused, RunQueued, QueueTimeout, rvars
  <2>2. \A k \in Jobs : job[k] = "starting" => job'[k] = "starting"
    BY <1>2 DEF RunRefused, RunQueued, QueueTimeout, TypeOK
  <2>3. Held(child, idle, job', on, current)
    BY <2>2 DEF Tended, Held
  <2>4. \A k \in Jobs : job[k] = "dropped" => job'[k] = "dropped"
    BY <1>2 DEF RunRefused, RunQueued, QueueTimeout, TypeOK
  <2>5. Exclusive(job', on, respawned) /\ FreeUnheld(idle, job', on, respawned)
    BY <2>4 DEF Tended, Exclusive, FreeUnheld
  <2>6. QED
    BY <2>1, <2>3, <2>5 DEF Tended
<1>3. QED
  BY <1>1, <1>2, StartTends DEF CallStep

(* A restart makes the runner idle under the calls that may still hold it, *)
(* which is what respawned records; a child that exited ran nothing.       *)
RestartsExited == \A r \in Runners : restart[r] => child[r] = "exited"

LEMMA RestartTends ==
  ASSUME TypeOK, JobsAccounted, Tended(child, idle, job, on, current, respawned),
         RestartsExited, NEW r \in Runners, Restart(r)
  PROVE  Tended(child', idle', job', on', current', respawned')
<1> DEFINE ch == [child EXCEPT ![r] = "up"]
           id == [idle EXCEPT ![r] = TRUE]
<1>1. /\ Drain(ch, id, job, on)
      /\ current' = current
      /\ respawned' = respawned \cup {r}
  BY DEF Restart
<1>2. PICK c \in {"up", "lost"} : child' = [child EXCEPT ![r] = c]
  BY DEF Restart
<1>3. current[r] = None
  <2>1. ~AliveChild(child[r])
    BY DEF Restart, RestartsExited, AliveChild
  <2>2. QED
    BY <2>1 DEF Tended, Working
<1>4. id \in [Runners -> BOOLEAN] /\ id[r] /\ \A q \in Runners : q # r => id[q] = idle[q]
  BY DEF TypeOK
<1>5. \A q \in Runners : q # r => ch[q] = child[q] /\ child'[q] = ch[q]
  BY <1>2 DEF TypeOK
<1>6. ch[r] = "up"
  BY DEF TypeOK
<1> HIDE DEF ch, id
<1>7. Working(ch, id, current)
  <2>1. SUFFICES ASSUME NEW q \in Runners, current[q] # None PROVE AliveChild(ch[q]) /\ ~id[q]
    BY DEF Working
  <2>2. q # r /\ AliveChild(child[q]) /\ ~idle[q]
    BY <1>3, <2>1 DEF Tended, Working
  <2>3. QED
    BY <1>4, <1>5, <2>2
<1>8. Held(ch, id, job, on, current)
  <2>1. SUFFICES ASSUME NEW q \in Runners, ch[q] = "up", ~id[q]
                 PROVE  current[q] # None \/ \E k \in Jobs : job[k] = "starting" /\ on[k] = q
    BY DEF Held
  <2>2. q # r
    BY <1>4, <2>1
  <2>3. child[q] = "up" /\ ~idle[q]
    BY <1>4, <1>5, <2>1, <2>2
  <2>4. QED
    BY <2>3 DEF Tended, Held
<1>9. Exclusive(job, on, respawned')
  BY <1>1 DEF Tended, Exclusive
<1>10. FreeUnheld(id, job, on, respawned')
  <2>1. SUFFICES ASSUME NEW q \in Runners \ respawned', id[q], NEW k \in Jobs, on[k] = q
                 PROVE  job[k] = "dropped"
    BY DEF FreeUnheld
  <2>2. q \in Runners \ respawned /\ q # r
    BY <1>1, <2>1
  <2>3. idle[q]
    BY <1>4, <2>1, <2>2
  <2>4. QED
    BY <2>1, <2>2, <2>3 DEF Tended, FreeUnheld
<1>11. Tended(ch, id, job, on, current, respawned')
  BY <1>7, <1>8, <1>9, <1>10 DEF Tended
<1>12. Accounted(pending, job, on, current)
  BY AccountedNow
<1>13. Tended(ch, idle', job', on', current, respawned')
  BY <1>1, <1>4, <1>11, <1>12, DrainTends DEF TypeOK
<1>14. Working(child', idle', current)
  <2>1. SUFFICES ASSUME NEW q \in Runners, current[q] # None
                 PROVE  AliveChild(child'[q]) /\ ~idle'[q]
    BY DEF Working
  <2>2. q # r /\ AliveChild(ch[q]) /\ ~idle'[q]
    BY <1>3, <1>13, <2>1 DEF Tended, Working
  <2>3. QED
    BY <1>5, <2>2
<1>15. Held(child', idle', job', on', current)
  <2>1. SUFFICES ASSUME NEW q \in Runners, child'[q] = "up", ~idle'[q]
                 PROVE  current[q] # None \/ \E k \in Jobs : job'[k] = "starting" /\ on'[k] = q
    BY DEF Held
  <2>2. ch[q] = "up"
    BY <1>5, <1>6, <2>1
  <2>3. QED
    BY <1>13, <2>1, <2>2 DEF Tended, Held
<1>16. QED
  BY <1>1, <1>13, <1>14, <1>15 DEF Tended

LEMMA RunnerStepTends ==
  ASSUME TypeOK, JobsAccounted, Tended(child, idle, job, on, current, respawned),
         RestartsExited, NEW r \in Runners, RunnerStep(r)
  PROVE  Tended(child', idle', job', on', current', respawned')
<1>1. CASE Answer(r) \/ LateAnswer(r)
  <2>1. respawned' = respawned
    BY <1>1 DEF Answer, LateAnswer
  <2>2. QED
    BY <1>1, <2>1, ReadAnswerTends DEF Answer, LateAnswer, TypeOK
<1>2. CASE ParentTimeout(r) \/ StreamBroken(r)
  <2>1. FailAndKill(r) /\ respawned' = respawned
    BY <1>2 DEF ParentTimeout, StreamBroken
  <2>2. QED
    BY <2>1, FailAndKillTends
<1>3. CASE Exit(r)
  <2> DEFINE ch == [child EXCEPT ![r] = "exited"]
             id == [idle EXCEPT ![r] = FALSE]
  <2>1. child' = ch /\ respawned' = respawned
    BY <1>3 DEF Exit
  <2>2. ch[r] # "up" /\ \A q \in Runners : q # r => ch[q] = child[q]
    BY DEF TypeOK
  <2>3. id \in [Runners -> BOOLEAN] /\ ~id[r] /\ \A q \in Runners : q # r => id[q] = idle[q]
    BY DEF TypeOK
  <2>4. CASE current[r] = None
    <3>1. Drain(ch, id, job, on) /\ current' = current
      BY <1>3, <2>4 DEF Exit
    <3> HIDE DEF ch, id
    <3>2. Tended(ch, id, job, on, current, respawned)
      BY <2>2, <2>3, <2>4, NoJobTends
    <3>3. Tended(ch, idle', job', on', current, respawned)
      BY <2>3, <3>1, <3>2, AccountedNow, DrainTends DEF TypeOK
    <3>4. QED
      BY <2>1, <3>1, <3>3
  <2>5. CASE current[r] # None
    <3>1. FailCurrent(r, ch, idle)
      BY <1>3, <2>5 DEF Exit
    <3> HIDE DEF ch, id
    <3>2. Tended(ch, idle', job', on', current', respawned)
      BY <2>2, <2>5, <3>1, FailCurrentTends
    <3>3. QED
      BY <2>1, <3>2
  <2>6. QED
    BY <2>4, <2>5
<1>4. QED
  BY <1>1, <1>2, <1>3, RestartTends DEF RunnerStep

LEMMA ShutdownTends ==
  ASSUME TypeOK, Tended(child, idle, job, on, current, respawned), Close \/ CloseEnds
  PROVE  Tended(child', idle', job', on', current', respawned')
<1>1. CASE Close
  <2>1. UNCHANGED <<child, idle, on, current, respawned>>
    BY <1>1 DEF Close, rvars
  <2>2. \A k \in Jobs : job[k] = "starting" => job'[k] = "starting"
    BY <1>1 DEF Close
  <2>3. Held(child, idle, job', on, current)
    BY <2>2 DEF Tended, Held
  <2>4. \A k \in Jobs : job[k] = "dropped" => job'[k] = "dropped"
    BY <1>1 DEF Close
  <2>5. Exclusive(job', on, respawned) /\ FreeUnheld(idle, job', on, respawned)
    BY <2>4 DEF Tended, Exclusive, FreeUnheld
  <2>6. QED
    BY <2>1, <2>3, <2>5 DEF Tended
<1>2. CASE CloseEnds
  <2>1. UNCHANGED <<idle, job, on, current, respawned>>
    BY <1>2 DEF CloseEnds, jvars
  <2>2. \A r \in Runners : child'[r] = Kill(child[r])
    BY <1>2 DEF CloseEnds, StopRunners
  <2>3. Working(child', idle, current)
    <3>1. SUFFICES ASSUME NEW q \in Runners, current[q] # None
                   PROVE  AliveChild(child'[q]) /\ ~idle[q]
      BY DEF Working
    <3>2. AliveChild(child[q]) /\ ~idle[q]
      BY <3>1 DEF Tended, Working
    <3>3. AliveChild(child'[q])
      BY <2>2, <3>2 DEF AliveChild, Kill
    <3>4. QED
      BY <3>2, <3>3
  <2>4. Held(child', idle, job, on, current)
    BY <2>2 DEF Held, Kill
  <2>5. QED
    BY <2>1, <2>3, <2>4 DEF Tended
<1>3. QED
  BY <1>1, <1>2

LEMMA TendedStep ==
  ASSUME TypeOK, JobsAccounted, RestartsExited,
         Tended(child, idle, job, on, current, respawned), [Next]_vars
  PROVE  Tended(child', idle', job', on', current', respawned')
<1>1. CASE UNCHANGED vars
  BY <1>1 DEF vars
<1>2. QED
  BY <1>1, CallStepTends, RunnerStepTends, ShutdownTends DEF Next

(* The restart timer: set by the exit event and by nothing else, and only  *)
(* when the runner is not being stopped; stop() clears it.                 *)
RestartsDue == \A r \in Runners : child[r] = "exited" => ~stopping[r] = restart[r]

LEMMA RestartStep ==
  ASSUME TypeOK, RestartsExited, RestartsDue, [Next]_vars
  PROVE  RestartsExited' /\ RestartsDue'
<1>1. CASE UNCHANGED <<child, restart, stopping>>
  BY <1>1 DEF RestartsExited, RestartsDue
<1>2. CASE \E r \in Runners : FailAndKill(r) /\ UNCHANGED <<restart, stopping>>
  <2>1. PICK r \in Runners : FailAndKill(r) /\ UNCHANGED <<restart, stopping>>
    BY <1>2
  <2>2. \A q \in Runners : child'[q] = "exited" <=> child[q] = "exited"
    BY <2>1 DEF FailAndKill, Kill, TypeOK
  <2>3. QED
    BY <2>1, <2>2 DEF RestartsExited, RestartsDue
<1>3. CASE \E r \in Runners : Exit(r)
  <2>1. PICK r \in Runners : Exit(r)
    BY <1>3
  <2>2. /\ child' = [child EXCEPT ![r] = "exited"]
        /\ restart' = [restart EXCEPT ![r] = ~stopping[r]]
        /\ stopping' = stopping
    BY <2>1 DEF Exit
  <2>3. child'[r] = "exited" /\ \A q \in Runners : q # r => child'[q] = child[q]
    BY <2>2 DEF TypeOK
  <2>4. restart'[r] = ~stopping'[r] /\ \A q \in Runners : q # r => restart'[q] = restart[q]
    BY <2>2 DEF TypeOK
  <2>5. RestartsExited'
    BY <2>3, <2>4 DEF RestartsExited
  <2>6. RestartsDue'
    BY <2>2, <2>3, <2>4 DEF RestartsDue
  <2>7. QED
    BY <2>5, <2>6
<1>4. CASE \E r \in Runners : Restart(r)
  <2>1. PICK r \in Runners : Restart(r)
    BY <1>4
  <2>2. /\ \E c \in {"up", "lost"} : child' = [child EXCEPT ![r] = c]
        /\ restart' = [restart EXCEPT ![r] = FALSE]
        /\ stopping' = stopping
    BY <2>1 DEF Restart
  <2>3. child'[r] # "exited" /\ \A q \in Runners : q # r => child'[q] = child[q]
    BY <2>2 DEF TypeOK
  <2>4. ~restart'[r] /\ \A q \in Runners : q # r => restart'[q] = restart[q]
    BY <2>2 DEF TypeOK
  <2>5. RestartsExited'
    BY <2>3, <2>4 DEF RestartsExited
  <2>6. RestartsDue'
    BY <2>2, <2>3, <2>4 DEF RestartsDue
  <2>7. QED
    BY <2>5, <2>6
<1>5. CASE CloseEnds
  <2>1. /\ stopping' = [r \in Runners |-> TRUE]
        /\ restart' = [r \in Runners |-> FALSE]
    BY <1>5 DEF CloseEnds, StopRunners
  <2>2. QED
    BY <2>1 DEF RestartsExited, RestartsDue
<1>6. CASE \E j \in Jobs : CallStep(j)
  BY <1>1, <1>6 DEF CallStep, RunRefused, RunStarted, RunQueued, QueueTimeout, StartResolved,
                    StartRejected, rvars
<1>7. CASE \E r \in Runners : Answer(r) \/ LateAnswer(r)
  <2>1. PICK r \in Runners : Answer(r) \/ LateAnswer(r)
    BY <1>7
  <2>2. UNCHANGED <<restart, stopping>>
    BY <2>1 DEF Answer, LateAnswer
  <2>3. \A q \in Runners : child'[q] = "exited" <=> child[q] = "exited"
    <3>1. child' = child \/ FailAndKill(r) \/ DropCall(r)
      BY <2>1 DEF Answer, LateAnswer, ReadAnswer
    <3>2. QED
      BY <3>1 DEF FailAndKill, DropCall, Kill, TypeOK
  <2>4. QED
    BY <2>2, <2>3 DEF RestartsExited, RestartsDue
<1>8. CASE \E r \in Runners : ParentTimeout(r) \/ StreamBroken(r)
  BY <1>2, <1>8 DEF ParentTimeout, StreamBroken
<1>9. CASE Close \/ UNCHANGED vars
  BY <1>1, <1>9 DEF Close, vars, rvars
<1>10. QED
  BY <1>3, <1>4, <1>5, <1>6, <1>7, <1>8, <1>9 DEF Next, RunnerStep

(* The invariant behind both theorems below.                               *)
RInv == /\ TypeOK
        /\ JobsAccounted
        /\ RestartsExited
        /\ RestartsDue
        /\ Tended(child, idle, job, on, current, respawned)

LEMMA RunnersInit == Init => RInv
<1> SUFFICES ASSUME Init PROVE RInv
  OBVIOUS
<1>1. TypeOK /\ JobsAccounted
  BY TypeInit, AccountedInit
<1>2. RestartsExited /\ RestartsDue
  BY DEF Init, RestartsExited, RestartsDue
<1>3. Working(child, idle, current) /\ Held(child, idle, job, on, current)
  BY DEF Init, Working, Held
<1>4. Exclusive(job, on, respawned) /\ FreeUnheld(idle, job, on, respawned)
  BY DEF Init, Exclusive, FreeUnheld, Runners, NoRunner
<1>5. QED
  BY <1>1, <1>2, <1>3, <1>4 DEF RInv, Tended

LEMMA RunnersStep == RInv /\ [Next]_vars => RInv'
BY TypeStep, AccountedStep, RestartStep, TendedStep DEF RInv

(* No runner is lost track of: it is idle, works, is reserved, or its      *)
(* child's exit or its restart timer is still to come, unless the pool is  *)
(* stopped or a spawn failed.                                              *)
THEOREM RunnersAccounted == Spec => []RunnerAccounted
<1>1. RInv => RunnerAccounted
  BY DEF RInv, RunnerAccounted, Tended, Working, Held, RestartsDue, Alive
<1>2. QED
  BY <1>1, RunnersInit, RunnersStep, PTL DEF Spec

(* Two calls hold one runner only when it was restarted or one of them was *)
(* dropped: without FreeUnheld, that nobody but dropped calls holds an     *)
(* idle runner, this is not inductive.                                     *)
THEOREM ReservationsExclusive == Spec => []ReservationExclusive
<1>1. RInv => ReservationExclusive
  BY DEF RInv, ReservationExclusive, Tended, Exclusive
<1>2. QED
  BY <1>1, RunnersInit, RunnersStep, PTL DEF Spec

-----------------------------------------------------------------------------
(* The order of starts                                                     *)

(* A handler that drains leaves no idle runner next to a waiting job.      *)
LEMMA DrainConserves ==
  ASSUME TypeOK, JobsAccounted, NEW ch, NEW id, NEW jb, NEW o,
         Drain(ch, id, jb, o), ~closing, pending' # <<>>
  PROVE  IdleIn(ch, idle') = {}
<1>0. PICK n \in 0..Len(pending) : \E s : Drained(n, s, ch, id, jb, o)
  BY DrainEffect DEF TypeOK, JobsAccounted, Distinct
<1>1. PICK s : Drained(n, s, ch, id, jb, o)
  BY <1>0
<1>2. n # Len(pending)
  <2>1. pending' \in Seq(Jobs) /\ Len(pending') = Len(pending) - n /\ Len(pending) \in Nat
    BY <1>1, LenProperties DEF Drained, TypeOK
  <2>2. Len(pending') # 0
    BY <2>1, EmptySeq
  <2>3. QED
    BY <2>1, <2>2
<1>3. \A q \in IdleIn(ch, id) : \E i \in 1..n : s[i] = q
  BY <1>1, <1>2 DEF Drained
<1>4. \A q \in Runners : idle'[q] => id[q] /\ \A i \in 1..n : s[i] # q
  BY <1>1 DEF Drained
<1>5. QED
  BY <1>3, <1>4 DEF IdleIn

(* A runner that looks idle and has dropped a call keeps looking so until  *)
(* the exit event of its child.                                            *)
StaysDropped ==
  \A j \in Jobs : job[j] = "dropped" => job'[j] = "dropped" /\ on'[j] = on[j]

LEMMA DroppingStays ==
  ASSUME StaysDropped, NEW q \in Runners, Dropping(q), child'[q] = "killed"
  PROVE  Dropping(q)'
<1>1. PICK j \in Jobs : job[j] = "dropped" /\ on[j] = q
  BY DEF Dropping
<1>2. job'[j] = "dropped" /\ on'[j] = q
  BY <1>1 DEF StaysDropped
<1>3. QED
  BY <1>2 DEF Dropping

(* A step that makes no runner idle and revives none.                      *)
LEMMA NothingFreed ==
  ASSUME WorkConserving, StaysDropped, ~closing, pending # <<>>,
         \A q \in Runners : idle'[q] => idle[q],
         \A q \in Runners : child'[q] = child[q] \/ child'[q] = Kill(child[q]),
         NEW q \in IdleIn(child', idle')
  PROVE  Dropping(q)'
<1>1. q \in Runners /\ AliveChild(child'[q]) /\ idle'[q]
  BY DEF IdleIn
<1>2. q \in IdleIn(child, idle)
  BY <1>1 DEF IdleIn, AliveChild, Kill
<1>3. Dropping(q)
  BY <1>2 DEF WorkConserving
<1>4. child'[q] = "killed"
  BY <1>1, <1>3 DEF Dropping, Kill
<1>5. QED
  BY <1>1, <1>3, <1>4, DroppingStays

(* A child is told to end, and no current job was there to fail.           *)
LEMMA FailAndKillConserves ==
  ASSUME TypeOK, JobsAccounted, WorkConserving, NEW r \in Runners, FailAndKill(r),
         ~closing, pending' # <<>>, NEW q \in IdleIn(child', idle')
  PROVE  Dropping(q)'
<1> DEFINE ch == [child EXCEPT ![r] = Kill(child[r])]
<1>1. child' = ch
  BY DEF FailAndKill
<1>2. CASE current[r] = None
  <2>1. UNCHANGED <<idle, pending, job, on>>
    BY <1>2 DEF FailAndKill
  <2>2. StaysDropped
    BY <2>1 DEF StaysDropped
  <2>3. \A p \in Runners : child'[p] = child[p] \/ child'[p] = Kill(child[p])
    BY <1>1 DEF TypeOK
  <2>4. QED
    BY <2>1, <2>2, <2>3, NothingFreed
<1>3. CASE current[r] # None
  <2> DEFINE id == [idle EXCEPT ![r] = FALSE]
             jb == [job EXCEPT ![current[r]] = "crashed"]
             o == [on EXCEPT ![current[r]] = NoRunner]
  <2>1. Drain(ch, id, jb, o)
    BY <1>3 DEF FailAndKill, FailCurrent
  <2> HIDE DEF ch, id, jb, o
  <2>2. IdleIn(ch, idle') = {}
    BY <2>1, DrainConserves
  <2>3. QED
    BY <1>1, <2>2
<1>4. QED
  BY <1>2, <1>3

(* A runner that drops its call looks idle and is dropping.                *)
LEMMA DropConserves ==
  ASSUME RInv, WorkConserving, NEW r \in Runners, current[r] # None, DropCall(r),
         ~closing, pending' # <<>>, NEW q \in IdleIn(child', idle')
  PROVE  Dropping(q)'
<1> DEFINE j == current[r]
<1>1. j \in Jobs /\ job[j] = "running" /\ on[j] = r
  BY DEF RInv, TypeOK, JobsAccounted
<1>2. job'[j] = "dropped" /\ on' = on /\ pending' = pending
  BY <1>1 DEF RInv, TypeOK, DropCall
<1>3. AliveChild(child[r])
  BY DEF RInv, Tended, Working
<1>4. child'[r] = "killed" /\ \A p \in Runners : p # r => child'[p] = child[p]
  BY <1>3 DEF RInv, TypeOK, DropCall, AliveChild, Kill
<1>5. \A p \in Runners : p # r => idle'[p] = idle[p]
  BY DEF RInv, TypeOK, DropCall
<1>6. StaysDropped
  BY <1>2 DEF RInv, TypeOK, DropCall, StaysDropped
<1>7. CASE q = r
  BY <1>1, <1>2, <1>4, <1>7 DEF Dropping
<1>8. CASE q # r
  <2>1. q \in Runners /\ AliveChild(child'[q]) /\ idle'[q]
    BY DEF IdleIn
  <2>2. q \in IdleIn(child, idle)
    BY <1>4, <1>5, <1>8, <2>1 DEF IdleIn
  <2>3. Dropping(q)
    BY <1>2, <2>2 DEF WorkConserving
  <2>4. child'[q] = "killed"
    BY <1>4, <1>8, <2>1, <2>3 DEF Dropping
  <2>5. QED
    BY <1>6, <2>1, <2>3, <2>4, DroppingStays
<1>9. QED
  BY <1>7, <1>8

LEMMA ReadAnswerConserves ==
  ASSUME RInv, WorkConserving, NEW r \in Runners, NEW w \in Jobs, ReadAnswer(r, w),
         ~closing, pending' # <<>>, NEW q \in IdleIn(child', idle')
  PROVE  Dropping(q)'
<1>0. TypeOK /\ JobsAccounted
  BY DEF RInv
<1>1. CASE UNCHANGED <<child, idle, pending, jvars>>
  <2>1. StaysDropped
    BY <1>1 DEF StaysDropped, jvars
  <2>2. QED
    BY <1>1, <2>1, NothingFreed
<1>2. CASE /\ UNCHANGED child
           /\ Drain(child, [idle EXCEPT ![r] = TRUE], [job EXCEPT ![current[r]] = "result"],
                    [on EXCEPT ![current[r]] = NoRunner])
  BY <1>0, <1>2, DrainConserves
<1>3. CASE FailAndKill(r)
  BY <1>0, <1>3, FailAndKillConserves
<1>4. CASE current[r] # None /\ DropCall(r)
  BY <1>4, DropConserves
<1>5. QED
  BY <1>1, <1>2, <1>3, <1>4 DEF ReadAnswer

LEMMA CallStepConserves ==
  ASSUME RInv, WorkConserving, NEW j \in Jobs, CallStep(j), ~closing, pending' # <<>>,
         NEW q \in IdleIn(child', idle')
  PROVE  Dropping(q)'
<1>0. TypeOK /\ JobsAccounted
  BY DEF RInv
<1>1. CASE RunStarted(j)
  <2>1. /\ UNCHANGED <<child, pending>>
        /\ \A p \in Runners : idle'[p] => idle[p]
    BY <1>0, <1>1 DEF RunStarted, pvars, TypeOK
  <2>2. StaysDropped
    BY <1>0, <1>1 DEF RunStarted, TypeOK, StaysDropped
  <2>3. QED
    BY <2>1, <2>2, NothingFreed
<1>2. CASE RunQueued(j)
  BY <1>2 DEF RunQueued, rvars
<1>3. CASE QueueTimeout(j)
  <2>1. UNCHANGED <<child, idle>> /\ pending # <<>>
    BY <1>3 DEF QueueTimeout, rvars
  <2>2. StaysDropped
    BY <1>0, <1>3 DEF QueueTimeout, TypeOK, StaysDropped
  <2>3. QED
    BY <2>1, <2>2, NothingFreed
<1>4. CASE StartResolved(j) /\ (~Alive(on[j]) \/ current[on[j]] # None)
  <2>1. /\ child' = child
        /\ Drain(child, idle, [job EXCEPT ![j] = "crashed"], [on EXCEPT ![j] = NoRunner])
    BY <1>4 DEF StartResolved
  <2>2. QED
    BY <1>0, <2>1, DrainConserves
<1>5. CASE StartResolved(j) /\ ~(~Alive(on[j]) \/ current[on[j]] # None)
  <2>1. /\ UNCHANGED <<child, pending, on>>
        /\ idle' = [idle EXCEPT ![on[j]] = FALSE]
        /\ job' = [job EXCEPT ![j] = "running"]
        /\ job[j] = "starting"
    BY <1>5 DEF StartResolved
  <2>2. StaysDropped
    BY <1>0, <2>1 DEF TypeOK, StaysDropped
  <2>3. \A p \in Runners : idle'[p] => idle[p]
    BY <1>0, <2>1 DEF TypeOK
  <2>4. QED
    BY <2>1, <2>2, <2>3, NothingFreed
<1>6. CASE StartRejected(j)
  <2> DEFINE id == IF current[on[j]] = None THEN [idle EXCEPT ![on[j]] = TRUE] ELSE idle
             jb == [job EXCEPT ![j] = "rejected"]
             o == [on EXCEPT ![j] = NoRunner]
  <2>1. Drain(child, id, jb, o) /\ child' = child
    BY <1>6 DEF StartRejected
  <2> HIDE DEF id, jb, o
  <2>2. QED
    BY <1>0, <2>1, DrainConserves
<1>7. QED
  BY <1>1, <1>2, <1>3, <1>4, <1>5, <1>6 DEF CallStep, RunRefused

LEMMA RunnerStepConserves ==
  ASSUME RInv, WorkConserving, NEW r \in Runners, RunnerStep(r), ~closing, pending' # <<>>,
         NEW q \in IdleIn(child', idle')
  PROVE  Dropping(q)'
<1>0. TypeOK /\ JobsAccounted
  BY DEF RInv
<1>1. CASE Answer(r) \/ LateAnswer(r)
  BY <1>0, <1>1, ReadAnswerConserves DEF Answer, LateAnswer, TypeOK
<1>2. CASE ParentTimeout(r) \/ StreamBroken(r)
  BY <1>0, <1>2, FailAndKillConserves DEF ParentTimeout, StreamBroken
<1>3. CASE Exit(r)
  <2> DEFINE ch == [child EXCEPT ![r] = "exited"]
  <2>1. child' = ch /\ \E jb, o : Drain(ch, [idle EXCEPT ![r] = FALSE], jb, o)
    BY <1>3 DEF Exit, FailCurrent
  <2> HIDE DEF ch
  <2>2. IdleIn(ch, idle') = {}
    BY <1>0, <2>1, DrainConserves
  <2>3. QED
    BY <2>1, <2>2
<1>4. CASE Restart(r)
  <2> DEFINE ch == [child EXCEPT ![r] = "up"]
  <2>1. /\ Drain(ch, [idle EXCEPT ![r] = TRUE], job, on)
        /\ \E c \in {"up", "lost"} : child' = [child EXCEPT ![r] = c]
    BY <1>4 DEF Restart
  <2>2. IdleIn(child', idle') \subseteq IdleIn(ch, idle')
    BY <1>0, <2>1 DEF IdleIn, TypeOK, AliveChild
  <2> HIDE DEF ch
  <2>3. IdleIn(ch, idle') = {}
    BY <1>0, <2>1, DrainConserves
  <2>4. QED
    BY <2>2, <2>3
<1>5. QED
  BY <1>1, <1>2, <1>3, <1>4 DEF RunnerStep

LEMMA ConservingStep ==
  ASSUME RInv, WorkConserving, [Next]_vars
  PROVE  WorkConserving'
<1>1. SUFFICES ASSUME ~closing', pending' # <<>>, NEW q \in IdleIn(child', idle')
               PROVE  Dropping(q)'
  BY DEF WorkConserving
<1>2. ~closing
  BY <1>1, StepMoves DEF RInv, Close, closing
<1>3. CASE UNCHANGED vars
  <2>1. StaysDropped
    BY <1>3 DEF vars, StaysDropped
  <2>2. QED
    BY <1>1, <1>2, <1>3, <2>1, NothingFreed DEF vars
<1>4. CASE Close \/ CloseEnds
  BY <1>1, <1>2, <1>4 DEF Close, CloseEnds, closing
<1>5. QED
  BY <1>1, <1>2, <1>3, <1>4, CallStepConserves, RunnerStepConserves DEF Next

LEMMA ConservingInit == Init => WorkConserving
BY DEF Init, WorkConserving

(* Nobody waits while a runner could start, although several handlers make *)
(* a runner idle: the one that drops a call without a drain leaves its     *)
(* runner dropping until the exit event, which drains.                     *)
THEOREM WorkIsConserved == Spec => []WorkConserving
<1>1. Init => RInv /\ WorkConserving
  BY RunnersInit, ConservingInit
<1>2. RInv /\ WorkConserving /\ [Next]_vars => (RInv /\ WorkConserving)'
  BY RunnersStep, ConservingStep
<1>3. QED
  BY <1>1, <1>2, PTL DEF Spec

(* What a step does to the queue: it leaves it alone or empties it, takes  *)
(* out its first entries, adds a new call at the end, or takes out an      *)
(* entry.  And the calls that start do so in the order they came.          *)
TakesFirst(n) ==
  /\ pending' \in Seq(Jobs)
  /\ Len(pending') = Len(pending) - n
  /\ \A k \in 1..(Len(pending) - n) : pending'[k] = pending[k + n]
QueueMove ==
  \/ pending' \in {pending, <<>>}
  \/ \E n \in 0..Len(pending) : TakesFirst(n)
  \/ \E j \in Jobs : job[j] = "new" /\ pending' = Append(pending, j)
  \/ \E i \in DOMAIN pending : pending' = Without(pending, i)
StartsInOrder ==
  \A j \in Jobs : job[j] # "starting" /\ job'[j] = "starting" =>
    \/ pending = <<>>
    \/ \E n \in DOMAIN pending :
         /\ pending[n] = j
         /\ \A i \in 1..n : job'[pending[i]] = "starting"
    \/ job[j] = "new" /\ Dropping(on'[j])
StartsNothing == \A k \in Jobs : job'[k] = "starting" => job[k] = "starting"

LEMMA DrainQueue ==
  ASSUME TypeOK, JobsAccounted, NEW ch, NEW id, NEW jb, NEW o,
         \A k \in Jobs : jb[k] = "starting" => job[k] = "starting", Drain(ch, id, jb, o)
  PROVE  QueueMove /\ StartsInOrder
<1>0. PICK n \in 0..Len(pending) : \E s : Drained(n, s, ch, id, jb, o)
  BY DrainEffect DEF TypeOK, JobsAccounted, Distinct
<1>1. PICK s : Drained(n, s, ch, id, jb, o)
  BY <1>0
<1>2. QueueMove
  BY <1>1 DEF Drained, TakesFirst, QueueMove
<1>3. ASSUME NEW j \in Jobs, job[j] # "starting", job'[j] = "starting"
      PROVE  \E m \in DOMAIN pending : /\ pending[m] = j
                                       /\ \A i \in 1..m : job'[pending[i]] = "starting"
  <2>1. PICK m \in 1..n : pending[m] = j
    BY <1>1, <1>3 DEF Drained
  <2>2. m \in DOMAIN pending /\ \A i \in 1..m : i \in 1..n
    BY LenProperties DEF TypeOK
  <2>3. QED
    BY <1>1, <2>1, <2>2 DEF Drained
<1>4. QED
  BY <1>2, <1>3 DEF StartsInOrder

(* A handler that settles one call, and drains.                            *)
LEMMA SettleQueue ==
  ASSUME TypeOK, JobsAccounted, NEW j \in Jobs, NEW s \in Settled, NEW ch, NEW id, NEW o,
         Drain(ch, id, [job EXCEPT ![j] = s], o)
  PROVE  QueueMove /\ StartsInOrder
<1> DEFINE jb == [job EXCEPT ![j] = s]
<1>1. \A k \in Jobs : jb[k] = "starting" => job[k] = "starting"
  BY DEF TypeOK, Settled
<1>2. Drain(ch, id, jb, o)
  OBVIOUS
<1> HIDE DEF jb
<1>3. QED
  BY <1>1, <1>2, DrainQueue

LEMMA FailCurrentQueue ==
  ASSUME TypeOK, JobsAccounted, NEW r \in Runners, NEW ch, NEW id,
         current[r] # None, FailCurrent(r, ch, id)
  PROVE  QueueMove /\ StartsInOrder
<1>1. current[r] \in Jobs
  BY DEF TypeOK
<1>2. Drain(ch, [id EXCEPT ![r] = FALSE], [job EXCEPT ![current[r]] = "crashed"],
            [on EXCEPT ![current[r]] = NoRunner])
  BY DEF FailCurrent
<1>3. QED
  BY <1>1, <1>2, SettleQueue DEF Settled

LEMMA FailAndKillQueue ==
  ASSUME TypeOK, JobsAccounted, NEW r \in Runners, FailAndKill(r)
  PROVE  QueueMove /\ StartsInOrder
<1>1. CASE current[r] = None
  BY <1>1 DEF FailAndKill, QueueMove, StartsInOrder
<1>2. CASE current[r] # None
  BY <1>2, FailCurrentQueue DEF FailAndKill
<1>3. QED
  BY <1>1, <1>2

LEMMA ReadAnswerQueue ==
  ASSUME TypeOK, JobsAccounted, NEW r \in Runners, NEW w \in Jobs, ReadAnswer(r, w)
  PROVE  QueueMove /\ StartsInOrder
<1>1. CASE UNCHANGED <<pending, jvars>>
  BY <1>1 DEF jvars, QueueMove, StartsInOrder
<1>2. CASE /\ w = current[r]
           /\ Drain(child, [idle EXCEPT ![r] = TRUE], [job EXCEPT ![current[r]] = "result"],
                    [on EXCEPT ![current[r]] = NoRunner])
  BY <1>2, SettleQueue DEF Settled
<1>3. CASE FailAndKill(r)
  BY <1>3, FailAndKillQueue
<1>4. CASE DropCall(r)
  BY <1>4 DEF DropCall, TypeOK, QueueMove, StartsInOrder
<1>5. QED
  BY <1>1, <1>2, <1>3, <1>4 DEF ReadAnswer

(* run() starts a call at once only if it finds an idle runner: nobody     *)
(* waits then, unless that runner is dropping.                             *)
LEMMA RunStartedInOrder ==
  ASSUME TypeOK, WorkConserving, NEW j \in Jobs, RunStarted(j)
  PROVE  QueueMove /\ StartsInOrder
<1> DEFINE q == First(IdleIn(child, idle))
<1>1. /\ job[j] = "new" /\ ~closing
      /\ job' = [job EXCEPT ![j] = "starting"]
      /\ on' = [on EXCEPT ![j] = q]
      /\ UNCHANGED <<child, pending>>
  BY DEF RunStarted, pvars
<1>2. q \in IdleIn(child, idle)
  BY FirstIsMember DEF RunStarted, IdleIn
<1> HIDE DEF q
<1>3. on'[j] = q /\ \A k \in Jobs : k # j => job'[k] = job[k]
  BY <1>1 DEF TypeOK
<1>4. pending # <<>> => Dropping(q)
  BY <1>1, <1>2 DEF WorkConserving
<1>5. QED
  BY <1>1, <1>3, <1>4 DEF QueueMove, StartsInOrder

LEMMA CallStepQueue ==
  ASSUME TypeOK, JobsAccounted, WorkConserving, NEW j \in Jobs, CallStep(j)
  PROVE  QueueMove /\ StartsInOrder
<1>1. CASE RunRefused(j)
  BY <1>1 DEF RunRefused, pvars, TypeOK, QueueMove, StartsInOrder
<1>2. CASE RunQueued(j)
  BY <1>2 DEF RunQueued, TypeOK, QueueMove, StartsInOrder
<1>3. CASE QueueTimeout(j)
  <2>1. StartsNothing
    BY <1>3 DEF QueueTimeout, TypeOK, StartsNothing
  <2>2. QED
    BY <1>3, <2>1 DEF QueueTimeout, QueueMove, StartsInOrder, StartsNothing
<1>4. CASE StartResolved(j)
  <2>1. CASE ~Alive(on[j]) \/ current[on[j]] # None
    <3>1. Drain(child, idle, [job EXCEPT ![j] = "crashed"], [on EXCEPT ![j] = NoRunner])
      BY <1>4, <2>1 DEF StartResolved
    <3>2. QED
      BY <3>1, SettleQueue DEF Settled
  <2>2. CASE ~(~Alive(on[j]) \/ current[on[j]] # None)
    <3>1. job' = [job EXCEPT ![j] = "running"] /\ pending' = pending
      BY <1>4, <2>2 DEF StartResolved
    <3>2. QED
      BY <3>1 DEF TypeOK, QueueMove, StartsInOrder
  <2>3. QED
    BY <2>1, <2>2
<1>5. CASE StartRejected(j)
  <2> DEFINE id == IF current[on[j]] = None THEN [idle EXCEPT ![on[j]] = TRUE] ELSE idle
  <2>1. Drain(child, id, [job EXCEPT ![j] = "rejected"], [on EXCEPT ![j] = NoRunner])
    BY <1>5 DEF StartRejected
  <2> HIDE DEF id
  <2>2. QED
    BY <2>1, SettleQueue DEF Settled
<1>6. QED
  BY <1>1, <1>2, <1>3, <1>4, <1>5, RunStartedInOrder DEF CallStep

LEMMA StepQueue ==
  ASSUME TypeOK, JobsAccounted, WorkConserving, [Next]_vars
  PROVE  QueueMove /\ StartsInOrder
<1>1. ASSUME NEW r \in Runners, RunnerStep(r)
      PROVE  QueueMove /\ StartsInOrder
  <2>1. CASE Answer(r) \/ LateAnswer(r)
    BY <2>1, ReadAnswerQueue DEF Answer, LateAnswer, TypeOK
  <2>2. CASE ParentTimeout(r) \/ StreamBroken(r)
    BY <2>2, FailAndKillQueue DEF ParentTimeout, StreamBroken
  <2>3. CASE Exit(r) /\ current[r] = None
    BY <2>3, DrainQueue DEF Exit
  <2>4. CASE Exit(r) /\ current[r] # None
    BY <2>4, FailCurrentQueue DEF Exit
  <2>5. CASE Restart(r)
    BY <2>5, DrainQueue DEF Restart
  <2>6. QED
    BY <1>1, <2>1, <2>2, <2>3, <2>4, <2>5 DEF RunnerStep
<1>2. CASE Close
  <2>1. pending' = <<>> /\ StartsNothing
    BY <1>2 DEF Close, StartsNothing
  <2>2. QED
    BY <2>1 DEF QueueMove, StartsInOrder, StartsNothing
<1>3. CASE CloseEnds \/ UNCHANGED vars
  BY <1>3 DEF CloseEnds, vars, jvars, QueueMove, StartsInOrder
<1>4. QED
  BY <1>1, <1>2, <1>3, CallStepQueue DEF Next

(* None of these moves brings anyone forward of another in the queue.      *)
LEMMA MoveKeepsOrder ==
  ASSUME TypeOK, QueueMove, NEW i \in Jobs, NEW j \in Jobs, Ahead(i, j)'
  PROVE  Ahead(i, j) \/ job[j] = "new"
<1>1. PICK a, b \in DOMAIN pending' : a < b /\ pending'[a] = i /\ pending'[b] = j
  BY DEF Ahead
<1>2. Len(pending) \in Nat /\ DOMAIN pending = 1..Len(pending)
  BY LenProperties DEF TypeOK
<1>3. CASE pending' = pending
  BY <1>1, <1>3 DEF Ahead
<1>4. CASE pending' = <<>>
  <2>1. DOMAIN pending' = {}
    BY <1>4
  <2>2. QED
    BY <1>1, <2>1
<1>5. ASSUME NEW n \in 0..Len(pending), TakesFirst(n)
      PROVE  Ahead(i, j)
  <2>1. /\ DOMAIN pending' = 1..(Len(pending) - n)
        /\ \A k \in 1..(Len(pending) - n) : pending'[k] = pending[k + n]
    BY <1>5, LenProperties DEF TakesFirst
  <2>2. /\ a + n \in DOMAIN pending /\ b + n \in DOMAIN pending /\ a + n < b + n
        /\ pending[a + n] = i /\ pending[b + n] = j
    BY <1>1, <1>2, <2>1
  <2>3. QED
    BY <2>2 DEF Ahead
<1>6. ASSUME NEW n \in Jobs, job[n] = "new", pending' = Append(pending, n)
      PROVE  Ahead(i, j) \/ job[j] = "new"
  <2>1. /\ DOMAIN pending' = 1..(Len(pending) + 1)
        /\ \A k \in 1..Len(pending) : pending'[k] = pending[k]
        /\ pending'[Len(pending) + 1] = n
    BY <1>2, <1>6, AppendProperties, LenProperties DEF TypeOK
  <2>2. CASE b = Len(pending) + 1
    BY <1>1, <1>6, <2>1, <2>2
  <2>3. CASE b # Len(pending) + 1
    <3>1. a \in DOMAIN pending /\ b \in DOMAIN pending
      BY <1>1, <1>2, <2>1, <2>3
    <3>2. QED
      BY <1>1, <1>2, <2>1, <3>1 DEF Ahead
  <2>4. QED
    BY <2>2, <2>3
<1>7. ASSUME NEW m \in DOMAIN pending, pending' = Without(pending, m)
      PROVE  Ahead(i, j)
  <2>1. /\ DOMAIN pending' = 1..(Len(pending) - 1)
        /\ \A k \in 1..(Len(pending) - 1) :
             pending'[k] = IF k < m THEN pending[k] ELSE pending[k + 1]
    <3>1. pending \in Seq(Jobs) /\ m \in 1..Len(pending)
      BY <1>2 DEF TypeOK
    <3>2. /\ Without(pending, m) \in Seq(Jobs)
          /\ Len(Without(pending, m)) = Len(pending) - 1
          /\ \A k \in 1..(Len(pending) - 1) :
               Without(pending, m)[k] = IF k < m THEN pending[k] ELSE pending[k + 1]
      BY <3>1, WithoutProperties
    <3>3. DOMAIN Without(pending, m) = 1..(Len(pending) - 1)
      BY <3>2, LenProperties
    <3>4. QED
      BY <1>7, <3>2, <3>3
  <2> DEFINE at(k) == IF k < m THEN k ELSE k + 1
  <2>2. at(a) \in DOMAIN pending /\ at(b) \in DOMAIN pending /\ at(a) < at(b)
    BY <1>1, <1>2, <2>1
  <2>3. pending[at(a)] = i /\ pending[at(b)] = j
    BY <1>1, <2>1
  <2>4. QED
    BY <2>2, <2>3 DEF Ahead
<1>8. QED
  BY <1>3, <1>4, <1>5, <1>6, <1>7 DEF QueueMove

(* Calls start in the order they came: it rests on WorkConserving, because *)
(* run() looks for an idle runner and not at the queue.                    *)
THEOREM FirstComesFirst == Spec => FirstComeFirstStarted
<1>1. Init => RInv /\ WorkConserving
  BY RunnersInit, ConservingInit
<1>2. RInv /\ WorkConserving /\ [Next]_vars => (RInv /\ WorkConserving)'
  BY RunnersStep, ConservingStep
<1> DEFINE Keeps == \A i, j \in Jobs : Ahead(i, j)' => Ahead(i, j) \/ job[j] = "new"
<1>3. RInv /\ WorkConserving /\ [Next]_vars => [StartsInOrder /\ Keeps]_vars
  <2> SUFFICES ASSUME RInv, WorkConserving, [Next]_vars PROVE StartsInOrder /\ Keeps
    OBVIOUS
  <2>1. QueueMove /\ StartsInOrder
    BY StepQueue DEF RInv
  <2>2. QED
    BY <2>1, MoveKeepsOrder DEF RInv
<1>4. FirstComeFirstStarted <=> [][StartsInOrder /\ Keeps]_vars
  BY PTL DEF FirstComeFirstStarted, StartsInOrder
<1>5. QED
  BY <1>1, <1>2, <1>3, <1>4, PTL DEF Spec

-----------------------------------------------------------------------------
(* The child and its parent                                                *)

(* Parent and child of r in step.  What a child killed meanwhile still     *)
(* executes, and what one that is gone has answered at the last moment,    *)
(* belongs to calls that are over, settled or dropped: the answer will     *)
(* find nobody.                                                            *)
Over == Settled \cup {"dropped"}
InStep(r) ==
  /\ child[r] = "up" => exec[r] = current[r]
  /\ exec[r] # None => Alive(r) /\ (exec[r] = current[r] \/ job[exec[r]] \in Over)
  /\ late[r] # None => job[late[r]] \in Over
EveryChildInStep == \A r \in Runners : InStep(r)

(* Calls that are over stay so.                                            *)
LEMMA OverStays ==
  ASSUME TypeOK, JobsAccounted, [Next]_vars, NEW j \in Jobs, job[j] \in Over
  PROVE  job'[j] \in Over
<1>1. JobMove(j, job'[j])
  BY StepMoves
<1>2. QED
  BY <1>1 DEF JobMove, JobAdmit, JobAdvance, Over, Settled

(* A step that leaves r alone leaves it in step.                           *)
LEMMA OtherStaysInStep ==
  ASSUME TypeOK, JobsAccounted, [Next]_vars, NEW r \in Runners, InStep(r),
         child'[r] = child[r], exec'[r] = exec[r], current'[r] = current[r],
         late'[r] = late[r] \/ late'[r] = None
  PROVE  InStep(r)'
<1>1. exec[r] # None /\ job[exec[r]] \in Over => job'[exec[r]] \in Over
  BY OverStays DEF TypeOK
<1>2. late[r] # None /\ job[late[r]] \in Over => job'[late[r]] \in Over
  BY OverStays DEF TypeOK
<1>3. QED
  BY <1>1, <1>2 DEF InStep, Alive

(* failCurrent settles the current job and drain leaves that settled.      *)
LEMMA FailCurrentSettles ==
  ASSUME TypeOK, JobsAccounted, NEW r \in Runners, NEW ch, NEW id,
         current[r] # None, FailCurrent(r, ch, id)
  PROVE  /\ current'[r] = None
         /\ \A q \in Runners : q # r => current'[q] = current[q]
         /\ job'[current[r]] \in Over
<1> DEFINE j == current[r]
           id2 == [id EXCEPT ![r] = FALSE]
           jb == [job EXCEPT ![j] = "crashed"]
           o == [on EXCEPT ![j] = NoRunner]
<1>1. current' = [current EXCEPT ![r] = None] /\ Drain(ch, id2, jb, o)
  BY DEF FailCurrent
<1>2. j \in Jobs /\ job[j] = "running"
  BY DEF TypeOK, JobsAccounted
<1>3. jb[j] = "crashed"
  BY <1>2 DEF TypeOK
<1> HIDE DEF j, jb
<1>4. job'[j] = "crashed"
  BY <1>1, <1>2, <1>3, DrainCall
<1>5. QED
  BY <1>1, <1>4 DEF TypeOK, Over, Settled, j

LEMMA FailAndKillInStep ==
  ASSUME TypeOK, JobsAccounted, [Next]_vars, NEW r \in Runners, InStep(r), FailAndKill(r),
         exec'[r] = exec[r] \/ exec'[r] = None, late'[r] = late[r] \/ late'[r] = None
  PROVE  InStep(r)'
<1>1. child'[r] = Kill(child[r])
  BY DEF FailAndKill, TypeOK
<1>2. current'[r] = None /\ (current[r] # None => job'[current[r]] \in Over)
  <2>1. CASE current[r] = None
    BY <2>1 DEF FailAndKill
  <2>2. CASE current[r] # None
    BY <2>2, FailCurrentSettles DEF FailAndKill
  <2>3. QED
    BY <2>1, <2>2
<1>3. exec[r] # None /\ job[exec[r]] \in Over => job'[exec[r]] \in Over
  BY OverStays DEF TypeOK
<1>4. late[r] # None /\ job[late[r]] \in Over => job'[late[r]] \in Over
  BY OverStays DEF TypeOK
<1>5. QED
  BY <1>1, <1>2, <1>3, <1>4 DEF InStep, Alive, AliveChild, Kill

(* A step of runner r keeps r in step.                                     *)
LEMMA AnswerInStep ==
  ASSUME TypeOK, JobsAccounted, [Next]_vars, NEW r \in Runners, InStep(r), Answer(r)
  PROVE  InStep(r)'
<1>1. exec'[r] = None /\ late' = late
  BY DEF Answer, TypeOK
<1>2. late[r] # None /\ job[late[r]] \in Over => job'[late[r]] \in Over
  BY OverStays DEF TypeOK
<1>3. CASE FailAndKill(r)
  BY <1>1, <1>3, FailAndKillInStep
<1>4. CASE ~FailAndKill(r)
  <2>1. ReadAnswer(r, exec[r])
    BY DEF Answer
  <2>2. \/ current[r] = None /\ current' = current
        \/ current' = [current EXCEPT ![r] = None]
    BY <1>4, <2>1 DEF ReadAnswer, DropCall
  <2>3. current'[r] = None
    BY <2>2 DEF TypeOK
  <2>4. QED
    BY <1>1, <1>2, <2>3 DEF InStep
<1>5. QED
  BY <1>3, <1>4

LEMMA LateAnswerInStep ==
  ASSUME TypeOK, JobsAccounted, [Next]_vars, NEW r \in Runners, InStep(r), LateAnswer(r)
  PROVE  InStep(r)'
<1>1. late'[r] = None /\ exec' = exec /\ late[r] # None /\ ReadAnswer(r, late[r])
  BY DEF LateAnswer, TypeOK
<1>2. late[r] # current[r]
  <2>1. job[late[r]] \in Over /\ late[r] \in Jobs
    BY <1>1 DEF InStep, TypeOK
  <2>2. QED
    BY <2>1 DEF JobsAccounted, Over, Settled
<1>3. CASE FailAndKill(r)
  BY <1>1, <1>3, FailAndKillInStep
<1>4. CASE UNCHANGED <<child, current>>
  BY <1>1, <1>4, OtherStaysInStep
<1>5. QED
  BY <1>1, <1>2, <1>3, <1>4 DEF ReadAnswer

LEMMA ExitInStep ==
  ASSUME TypeOK, JobsAccounted, [Next]_vars, NEW r \in Runners, InStep(r), Exit(r)
  PROVE  InStep(r)'
<1>1. /\ child' = [child EXCEPT ![r] = "exited"]
      /\ exec' = [exec EXCEPT ![r] = None]
      /\ late' = late \/ late' = [late EXCEPT ![r] = exec[r]]
      /\ current[r] # None => FailCurrent(r, [child EXCEPT ![r] = "exited"], idle)
  BY DEF Exit
<1>2. child'[r] = "exited" /\ exec'[r] = None
  BY <1>1 DEF TypeOK
<1>3. late'[r] = late[r] \/ late'[r] = exec[r]
  BY <1>1 DEF TypeOK
<1>4. current[r] # None => job'[current[r]] \in Over
  BY <1>1, FailCurrentSettles
<1>5. exec[r] # None /\ job[exec[r]] \in Over => job'[exec[r]] \in Over
  BY OverStays DEF TypeOK
<1>6. late[r] # None /\ job[late[r]] \in Over => job'[late[r]] \in Over
  BY OverStays DEF TypeOK
<1>7. QED
  BY <1>2, <1>3, <1>4, <1>5, <1>6 DEF InStep

LEMMA RestartInStep ==
  ASSUME RInv, [Next]_vars, NEW r \in Runners, InStep(r), Restart(r)
  PROVE  InStep(r)'
<1>1. ~Alive(r)
  BY DEF Restart, RInv, RestartsExited, Alive, AliveChild
<1>2. exec[r] = None /\ current[r] = None
  BY <1>1 DEF InStep, RInv, Tended, Working, Alive
<1>3. UNCHANGED <<exec, current, late>>
  BY DEF Restart
<1>4. late[r] # None /\ job[late[r]] \in Over => job'[late[r]] \in Over
  BY OverStays DEF TypeOK, RInv
<1>5. QED
  BY <1>2, <1>3, <1>4 DEF InStep

(* What a runner's handler does to the other runners: nothing.             *)
LEMMA RunnerStepLocal ==
  ASSUME TypeOK, JobsAccounted, NEW r \in Runners, RunnerStep(r),
         NEW q \in Runners, q # r
  PROVE  child'[q] = child[q] /\ exec'[q] = exec[q] /\ current'[q] = current[q]
         /\ late'[q] = late[q]
<1>1. child'[q] = child[q]
  <2>1. \/ child' = child
        \/ \E c \in ChildState : child' = [child EXCEPT ![r] = c]
    <3>1. CASE FailAndKill(r) \/ DropCall(r)
      BY <3>1 DEF FailAndKill, DropCall, Kill, TypeOK, ChildState
    <3>2. CASE ~(FailAndKill(r) \/ DropCall(r))
      BY <3>2 DEF RunnerStep, Answer, LateAnswer, ReadAnswer, ParentTimeout, StreamBroken,
                  Exit, Restart, ChildState
    <3>3. QED
      BY <3>1, <3>2
  <2>2. QED
    BY <2>1 DEF TypeOK
<1>2. exec'[q] = exec[q] /\ late'[q] = late[q]
  <2>1. exec' = exec \/ exec' = [exec EXCEPT ![r] = None]
    BY DEF RunnerStep, Answer, LateAnswer, ParentTimeout, StreamBroken, Exit, Restart
  <2>2. late' = late \/ \E w \in Jobs \cup {None} : late' = [late EXCEPT ![r] = w]
    BY DEF RunnerStep, Answer, LateAnswer, ParentTimeout, StreamBroken, Exit, Restart, TypeOK
  <2>3. QED
    BY <2>1, <2>2 DEF TypeOK
<1>3. current'[q] = current[q]
  <2>1. CASE FailAndKill(r) \/ Exit(r)
    <3>1. CASE current[r] = None
      BY <2>1, <3>1 DEF FailAndKill, Exit
    <3>2. CASE current[r] # None
      BY <2>1, <3>2, FailCurrentSettles DEF FailAndKill, Exit
    <3>3. QED
      BY <3>1, <3>2
  <2>2. CASE ~(FailAndKill(r) \/ Exit(r))
    <3>1. current' = current \/ current' = [current EXCEPT ![r] = None]
      BY <2>2 DEF RunnerStep, Answer, LateAnswer, ReadAnswer, DropCall, ParentTimeout,
                  StreamBroken, Restart
    <3>2. QED
      BY <3>1 DEF TypeOK
  <2>3. QED
    BY <2>1, <2>2
<1>4. QED
  BY <1>1, <1>2, <1>3

(* A call that is started on a killed child finds what that child still    *)
(* executes settled; on a live one, nothing is executed.                   *)
LEMMA StartInStep ==
  ASSUME TypeOK, JobsAccounted, [Next]_vars, EveryChildInStep,
         NEW j \in Jobs, StartResolved(j), ~(~Alive(on[j]) \/ current[on[j]] # None),
         NEW r \in Runners
  PROVE  InStep(r)'
<1>1. /\ current[on[j]] = None /\ Alive(on[j]) /\ on[j] \in Runners
      /\ current' = [current EXCEPT ![on[j]] = j]
      /\ exec' = IF child[on[j]] = "up" THEN [exec EXCEPT ![on[j]] = j] ELSE exec
      /\ UNCHANGED <<child, late>>
  BY DEF StartResolved, JobsAccounted, TypeOK, Started
<1>2. InStep(r)
  BY DEF EveryChildInStep
<1>3. CASE r # on[j]
  <2>1. current'[r] = current[r] /\ exec'[r] = exec[r]
    BY <1>1, <1>3 DEF TypeOK
  <2>2. QED
    BY <1>1, <1>2, <2>1, OtherStaysInStep
<1>4. CASE r = on[j]
  <2>1. current'[r] = j
    BY <1>1, <1>4 DEF TypeOK
  <2>2. exec'[r] = IF child[r] = "up" THEN j ELSE exec[r]
    BY <1>1, <1>4 DEF TypeOK
  <2>3. exec[r] # None /\ job[exec[r]] \in Over => job'[exec[r]] \in Over
    BY OverStays DEF TypeOK
  <2>4. late[r] # None /\ job[late[r]] \in Over => job'[late[r]] \in Over
    BY OverStays DEF TypeOK
  <2>5. QED
    BY <1>1, <1>2, <1>4, <2>1, <2>2, <2>3, <2>4 DEF InStep, Alive
<1>5. QED
  BY <1>3, <1>4

LEMMA EveryChildStep ==
  ASSUME RInv, EveryChildInStep, [Next]_vars
  PROVE  EveryChildInStep'
<1>1. SUFFICES ASSUME NEW r \in Runners PROVE InStep(r)'
  BY DEF EveryChildInStep, Runners
<1>2. TypeOK /\ JobsAccounted /\ InStep(r)
  BY DEF RInv, EveryChildInStep
<1>3. CASE UNCHANGED <<child, exec, current, late>>
  BY <1>2, <1>3, OtherStaysInStep
<1>4. ASSUME NEW j \in Jobs, CallStep(j) PROVE InStep(r)'
  <2>1. CASE StartResolved(j) /\ ~(~Alive(on[j]) \/ current[on[j]] # None)
    BY <1>2, <2>1, StartInStep
  <2>2. CASE ~(StartResolved(j) /\ ~(~Alive(on[j]) \/ current[on[j]] # None))
    BY <1>3, <1>4, <2>2 DEF CallStep, RunRefused, RunStarted, RunQueued, QueueTimeout,
                            StartResolved, StartRejected, rvars
  <2>3. QED
    BY <2>1, <2>2
<1>5. ASSUME NEW q \in Runners, RunnerStep(q) PROVE InStep(r)'
  <2>1. CASE q # r
    BY <1>2, <1>5, <2>1, RunnerStepLocal, OtherStaysInStep
  <2>2. CASE q = r
    <3>1. CASE ParentTimeout(r) \/ StreamBroken(r)
      <4>1. FailAndKill(r) /\ exec' = exec /\ late' = late
        BY <3>1 DEF ParentTimeout, StreamBroken
      <4>2. QED
        BY <1>2, <4>1, FailAndKillInStep
    <3>2. QED
      BY <1>2, <1>5, <2>2, <3>1, AnswerInStep, LateAnswerInStep, ExitInStep, RestartInStep
         DEF RunnerStep
  <2>3. QED
    BY <2>1, <2>2
<1>6. CASE CloseEnds
  <2>1. child'[r] = Kill(child[r]) /\ UNCHANGED <<exec, current, late, job>>
    BY <1>6 DEF CloseEnds, StopRunners, jvars
  <2>2. QED
    BY <1>2, <2>1 DEF InStep, Alive, AliveChild, Kill
<1>7. CASE Close \/ UNCHANGED vars
  BY <1>3, <1>7 DEF Close, rvars, vars
<1>8. QED
  BY <1>4, <1>5, <1>6, <1>7 DEF Next

(* The child of a runner executes the runner's current job and nothing     *)
(* else, for as long as no signal was sent to it.                          *)
THEOREM ChildrenInStep == Spec => []ChildInStep
<1>1. Init => RInv /\ EveryChildInStep
  BY RunnersInit DEF Init, EveryChildInStep, InStep
<1>2. RInv /\ EveryChildInStep /\ [Next]_vars => (RInv /\ EveryChildInStep)'
  BY RunnersStep, EveryChildStep
<1>3. RInv /\ EveryChildInStep => ChildInStep
  BY DEF EveryChildInStep, InStep, ChildInStep
<1>4. QED
  BY <1>1, <1>2, <1>3, PTL DEF Spec

=============================================================================

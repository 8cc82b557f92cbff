--------------------------- MODULE CodeVersionsProofs ---------------------------
(***************************************************************************)
(* Proofs about CodeVersions, for every set of calls, versions and codes   *)
(* and every limit of the cache, 0 included: type correctness, the bound   *)
(* of the cache, and that a load returns code the store held meanwhile.    *)
(***************************************************************************)
EXTENDS CodeVersions, QueueLemmas

-----------------------------------------------------------------------------
(* The cache                                                               *)

(* CacheBounded and its type, of any sequence of entries.                  *)
CacheOK(s) ==
  /\ s \in Seq(Entry)
  /\ Len(s) <= MaxCache
  /\ \A i, j \in DOMAIN s : s[i].key = s[j].key => i = j

(* Deleting one entry.                                                     *)
LEMMA CutKeeps ==
  ASSUME NEW s, CacheOK(s), NEW i \in DOMAIN s
  PROVE  CacheOK(Cut(s, i)) /\ Len(Cut(s, i)) = Len(s) - 1
<1> DEFINE c == Cut(s, i)
           at(k) == IF k < i THEN k ELSE k + 1
<1>1. Len(s) \in Nat /\ DOMAIN s = 1..Len(s) /\ i \in 1..Len(s) /\ s \in Seq(Entry)
  BY LenProperties DEF CacheOK
<1>2. /\ c \in Seq(Entry) /\ Len(c) = Len(s) - 1
      /\ \A k \in 1..(Len(s) - 1) : c[k] = s[at(k)]
  BY <1>1, CutProperties
<1>3. DOMAIN c = 1..(Len(s) - 1)
  BY <1>2, LenProperties
<1> HIDE DEF c
<1>4. \A k \in DOMAIN c : at(k) \in DOMAIN s /\ c[k] = s[at(k)]
  BY <1>1, <1>2, <1>3
<1>5. ASSUME NEW a \in DOMAIN c, NEW b \in DOMAIN c, c[a].key = c[b].key PROVE a = b
  <2>1. at(a) = at(b)
    BY <1>4, <1>5 DEF CacheOK
  <2>2. QED
    BY <1>1, <1>3, <2>1
<1>6. Len(c) <= MaxCache
  BY <1>1, <1>2, MaxCacheAssumption DEF CacheOK
<1>7. QED
  BY <1>2, <1>5, <1>6 DEF CacheOK, c

LEMMA EvictKeeps ==
  ASSUME CacheOK(cache), NEW k, Evict(k)
  PROVE  CacheOK(cache')
<1>1. CASE Cached(k) = {}
  BY <1>1 DEF Evict
<1>2. CASE Cached(k) # {}
  <2> DEFINE i == CHOOSE i \in Cached(k) : TRUE
  <2>1. i \in DOMAIN cache
    BY <1>2 DEF Cached
  <2>2. cache' = Cut(cache, i)
    BY <1>2 DEF Evict, Cut
  <2> HIDE DEF i
  <2>3. QED
    BY <2>1, <2>2, CutKeeps
<1>3. QED
  BY <1>1, <1>2

(* cacheCodeVersion: replacing keeps the keys, appending comes after the   *)
(* oldest entry has left a full cache.                                     *)
LEMMA CacheKeeps ==
  ASSUME CacheOK(cache), NEW k \in Keys, NEW c \in Codes, Cache(k, c)
  PROVE  CacheOK(cache')
<1> DEFINE new == [key |-> k, value |-> c]
           room == IF Len(cache) >= MaxCache THEN Tail(cache) ELSE cache
<1>1. new \in Entry /\ new.key = k
  BY DEF Entry
<1>2. cache \in Seq(Entry) /\ Len(cache) \in Nat /\ DOMAIN cache = 1..Len(cache)
  BY LenProperties DEF CacheOK
<1>3. CASE MaxCache = 0
  BY <1>3 DEF Cache
<1>4. CASE MaxCache # 0 /\ Cached(k) # {}
  <2> DEFINE put == [i \in DOMAIN cache |-> IF cache[i].key = k THEN new ELSE cache[i]]
  <2>1. cache' = put
    BY <1>4 DEF Cache
  <2>2. \A i \in DOMAIN cache : cache[i] \in Entry
    BY <1>2, ElementOfSeq
  <2>3. put \in [1..Len(cache) -> Entry]
    BY <1>1, <1>2, <2>2
  <2>4. put \in Seq(Entry) /\ Len(put) = Len(cache) /\ DOMAIN put = DOMAIN cache
    BY <1>2, <2>3, SeqDef, LenProperties
  <2>5. \A i \in DOMAIN cache : put[i].key = cache[i].key
    BY <1>1
  <2> HIDE DEF put
  <2>6. QED
    BY <2>1, <2>4, <2>5 DEF CacheOK
<1>5. CASE MaxCache # 0 /\ Cached(k) = {}
  <2>1. cache' = Append(room, new)
    BY <1>5 DEF Cache
  <2>2. \A i \in DOMAIN cache : cache[i].key # k
    BY <1>5 DEF Cached
  <2>3. /\ CacheOK(room) /\ Len(room) + 1 <= MaxCache
        /\ \A i \in DOMAIN room : room[i].key # k
    <3>1. CASE Len(cache) >= MaxCache
      <4>1. /\ Tail(cache) \in Seq(Entry) /\ Len(Tail(cache)) = Len(cache) - 1
            /\ DOMAIN Tail(cache) = 1..(Len(cache) - 1)
            /\ \A i \in 1..(Len(cache) - 1) : Tail(cache)[i] = cache[i + 1]
        <5>1. cache # <<>>
          BY <1>2, <1>5, <3>1, MaxCacheAssumption
        <5>2. QED
          BY <1>2, <5>1, HeadTailProperties, LenProperties
      <4>2. \A i \in 1..(Len(cache) - 1) : i + 1 \in DOMAIN cache
        BY <1>2
      <4>3. Len(Tail(cache)) + 1 <= MaxCache /\ Len(Tail(cache)) <= MaxCache
        BY <1>2, <4>1, MaxCacheAssumption DEF CacheOK
      <4>4. \A i, j \in DOMAIN Tail(cache) : Tail(cache)[i].key = Tail(cache)[j].key => i = j
        <5> SUFFICES ASSUME NEW i \in 1..(Len(cache) - 1), NEW j \in 1..(Len(cache) - 1),
                            Tail(cache)[i].key = Tail(cache)[j].key
                     PROVE  i = j
          BY <4>1
        <5>1. i + 1 = j + 1
          BY <4>1, <4>2 DEF CacheOK
        <5>2. QED
          BY <1>2, <5>1
      <4>5. \A i \in DOMAIN Tail(cache) : Tail(cache)[i].key # k
        BY <2>2, <4>1, <4>2
      <4>6. QED
        BY <3>1, <4>1, <4>3, <4>4, <4>5 DEF CacheOK
    <3>2. CASE ~(Len(cache) >= MaxCache)
      <4>1. Len(cache) + 1 <= MaxCache
        BY <1>2, <3>2, MaxCacheAssumption
      <4>2. QED
        BY <2>2, <3>2, <4>1
    <3>3. QED
      BY <3>1, <3>2
  <2> HIDE DEF room, new
  <2>4. /\ Append(room, new) \in Seq(Entry)
        /\ Len(Append(room, new)) = Len(room) + 1
        /\ Len(room) \in Nat /\ DOMAIN room = 1..Len(room)
        /\ DOMAIN Append(room, new) = 1..(Len(room) + 1)
        /\ \A i \in 1..Len(room) : Append(room, new)[i] = room[i]
        /\ Append(room, new)[Len(room) + 1] = new
    BY <1>1, <2>3, AppendProperties, LenProperties DEF CacheOK
  <2>5. \A i, j \in DOMAIN Append(room, new) :
          Append(room, new)[i].key = Append(room, new)[j].key => i = j
    BY <1>1, <2>3, <2>4 DEF CacheOK
  <2>6. QED
    BY <2>1, <2>3, <2>4, <2>5 DEF CacheOK
<1>6. QED
  BY <1>3, <1>4, <1>5

-----------------------------------------------------------------------------
(* The calls                                                               *)

(* Where a call holds code, and where it has nothing to return yet.        *)
Holding == {"update", "create", "cacheSaved", "check", "cacheLoaded"}
Returned == {"saved", "loaded"}

(* What a call under way knows of its version: the row as it is now is     *)
(* among what the call has seen, and so is what it has loaded.             *)
CallOK(p, k, c, a, rw, sn) ==
  /\ p # "idle" => k \in Keys
  /\ p \in Holding => c \in Codes
  /\ p \notin Returned => a = None
  /\ p # "idle" /\ a = None => rw[k] \in sn \cup {None}
  /\ p = "cacheLoaded" => c \in sn
  /\ p = "loaded" => a \in sn

Types ==
  /\ row \in [Keys -> Codes \cup {None}]
  /\ pc \in [Calls -> PC]
  /\ key \in [Calls -> Keys \cup {None}]
  /\ code \in [Calls -> Codes \cup {None}]
  /\ reply \in [Calls -> Codes \cup {None}]
  /\ first \in [Keys -> Codes \cup {None}]
  /\ seen \in [Calls -> SUBSET Codes]

IInv ==
  /\ Types
  /\ CacheOK(cache)
  /\ \A o \in Calls : CallOK(pc[o], key[o], code[o], reply[o], row, seen[o])

LEMMA IInvImplies == IInv => TypeOK /\ CacheBounded /\ LoadReturnsStored
BY DEF IInv, Types, CacheOK, CallOK, TypeOK, CacheBounded, LoadReturnsStored

LEMMA InitHolds == Init => IInv
<1> SUFFICES ASSUME Init PROVE IInv
  OBVIOUS
<1>1. CacheOK(cache)
  <2>1. cache = <<>> /\ cache \in Seq(Entry) /\ Len(cache) = 0 /\ DOMAIN cache = {}
    BY DEF Init
  <2>2. QED
    BY <2>1, MaxCacheAssumption DEF CacheOK
<1>2. Types
  BY DEF Init, Types, PC
<1>3. \A o \in Calls : CallOK(pc[o], key[o], code[o], reply[o], row, seen[o])
  BY DEF Init, CallOK, Holding, Returned
<1>4. QED
  BY <1>1, <1>2, <1>3 DEF IInv

(* A step of call o that writes no row leaves the other calls alone.       *)
LEMMA OthersUnchanged ==
  ASSUME IInv, NEW o \in Calls, row' = row, CacheOK(cache'), Types',
         \A p \in Calls \ {o} : /\ pc'[p] = pc[p] /\ key'[p] = key[p] /\ code'[p] = code[p]
                                /\ reply'[p] = reply[p] /\ seen'[p] = seen[p],
         CallOK(pc'[o], key'[o], code'[o], reply'[o], row', seen'[o])
  PROVE  IInv'
<1>1. ASSUME NEW p \in Calls
      PROVE  CallOK(pc'[p], key'[p], code'[p], reply'[p], row', seen'[p])
  <2>1. CASE p = o
    BY <2>1
  <2>2. CASE p # o
    BY <2>2 DEF IInv
  <2>3. QED
    BY <2>1, <2>2
<1>2. QED
  BY <1>1 DEF IInv

(* The beginning of a call that reads row k and the cache.                 *)
LEMMA BeginHolds ==
  ASSUME IInv, NEW o \in Calls, NEW k \in Keys, NEW c \in Codes \cup {None}, Begin(o, k, c),
         NEW w \in PC \ (Returned \cup {"idle", "cacheLoaded"}), Goto(o, w), w \in Holding => c \in Codes,
         CacheOK(cache'), UNCHANGED <<row, reply, first>>
  PROVE  IInv'
<1>1. /\ pc' = [pc EXCEPT ![o] = w] /\ key' = [key EXCEPT ![o] = k]
      /\ code' = [code EXCEPT ![o] = c] /\ seen' = [seen EXCEPT ![o] = {row[k]} \ {None}]
      /\ pc[o] = "idle"
  BY DEF Begin, Goto
<1>2. reply[o] = None
  BY <1>1 DEF IInv, CallOK, Returned
<1>3. row[k] \in Codes \cup {None} /\ {row[k]} \ {None} \subseteq Codes
  BY DEF IInv, Types
<1>4. Types'
  BY <1>1, <1>3 DEF IInv, Types
<1>5. /\ pc'[o] = w /\ key'[o] = k /\ code'[o] = c /\ reply'[o] = None
      /\ seen'[o] = {row[k]} \ {None}
  BY <1>1, <1>2 DEF IInv, Types
<1>6. CallOK(pc'[o], key'[o], code'[o], reply'[o], row', seen'[o])
  BY <1>3, <1>5 DEF CallOK, Returned
<1>7. \A p \in Calls \ {o} : /\ pc'[p] = pc[p] /\ key'[p] = key[p] /\ code'[p] = code[p]
                             /\ reply'[p] = reply[p] /\ seen'[p] = seen[p]
  BY <1>1 DEF IInv, Types
<1>8. QED
  BY <1>4, <1>6, <1>7, OthersUnchanged

(* A write is seen by every call that waits for the version.               *)
LEMMA WriteHolds ==
  ASSUME IInv, NEW o \in Calls, pc[o] \in {"update", "create"}, Write(o, key[o], code[o]),
         Goto(o, "cacheSaved"), UNCHANGED <<cache, key, code, reply>>
  PROVE  IInv'
<1> DEFINE k0 == key[o]
           c0 == code[o]
<1>1. k0 \in Keys /\ c0 \in Codes /\ reply[o] = None
  BY DEF IInv, CallOK, Holding, Returned
<1>2. /\ row' = [row EXCEPT ![k0] = c0]
      /\ first' = [first EXCEPT ![k0] = IF @ = None THEN c0 ELSE @]
      /\ seen' = [p \in Calls |-> IF key[p] = k0 /\ reply[p] = None THEN seen[p] \cup {c0}
                                                                    ELSE seen[p]]
      /\ pc' = [pc EXCEPT ![o] = "cacheSaved"]
  BY DEF Write, Goto
<1> HIDE DEF k0, c0
<1>3. Types'
  BY <1>1, <1>2 DEF IInv, Types, PC
<1>4. ASSUME NEW p \in Calls
      PROVE  CallOK(pc'[p], key'[p], code'[p], reply'[p], row', seen'[p])
  <2>1. CallOK(pc[p], key[p], code[p], reply[p], row, seen[p])
    BY DEF IInv
  <2>2. seen[p] \subseteq seen'[p]
    BY <1>2
  <2>3. pc[p] # "idle" /\ reply[p] = None => row'[key[p]] \in seen'[p] \cup {None}
    <3> SUFFICES ASSUME pc[p] # "idle", reply[p] = None
                 PROVE  row'[key[p]] \in seen'[p] \cup {None}
      OBVIOUS
    <3>1. key[p] \in Keys /\ row[key[p]] \in seen[p] \cup {None}
      BY <2>1 DEF CallOK
    <3>2. CASE key[p] = k0
      BY <1>1, <1>2, <3>2 DEF IInv, Types
    <3>3. CASE key[p] # k0
      BY <1>2, <2>2, <3>1, <3>3 DEF IInv, Types
    <3>4. QED
      BY <3>2, <3>3
  <2>4. pc'[p] = IF p = o THEN "cacheSaved" ELSE pc[p]
    BY <1>2 DEF IInv, Types
  <2>5. CASE p = o
    BY <1>1, <2>1, <2>3, <2>4, <2>5 DEF CallOK, Holding, Returned, k0, c0
  <2>6. CASE p # o
    BY <2>1, <2>2, <2>3, <2>4, <2>6 DEF CallOK
  <2>7. QED
    BY <2>5, <2>6
<1>5. QED
  BY <1>3, <1>4 DEF IInv

LEMMA StepHolds == IInv /\ [Next]_vars => IInv'
<1> SUFFICES ASSUME IInv, [Next]_vars PROVE IInv'
  OBVIOUS
<1>0. CacheOK(cache) /\ Types /\ \A o \in Calls : CallOK(pc[o], key[o], code[o], reply[o], row, seen[o])
  BY DEF IInv
<1>1. CASE UNCHANGED vars
  BY <1>1 DEF vars, IInv, Types
<1>2. ASSUME NEW o \in Calls, NEW k \in Keys, NEW c \in Codes, SaveFind(o, k, c) PROVE IInv'
  <2>1. PICK w \in {"create", "update", "cacheSaved"} : Goto(o, w)
    BY <1>2 DEF SaveFind
  <2>2. Begin(o, k, c) /\ UNCHANGED <<row, cache, reply, first>>
    BY <1>2 DEF SaveFind
  <2>3. w \in PC \ (Returned \cup {"idle", "cacheLoaded"})
    BY DEF PC, Returned
  <2>4. CacheOK(cache')
    BY <1>0, <2>2
  <2>5. QED
    BY <2>1, <2>2, <2>3, <2>4, BeginHolds
<1>3. ASSUME NEW o \in Calls, SaveUpdate(o) PROVE IInv'
  BY <1>3, WriteHolds DEF SaveUpdate
<1>4. ASSUME NEW o \in Calls, SaveCreate(o) PROVE IInv'
  <2>1. CASE row[key[o]] = None /\ Goto(o, "cacheSaved")
    <3>1. pc[o] = "create" /\ UNCHANGED <<cache, key, code, reply>>
      BY <1>4 DEF SaveCreate
    <3>2. Write(o, key[o], code[o])
      BY <1>4, <2>1 DEF SaveCreate
    <3>3. QED
      BY <2>1, <3>1, <3>2, WriteHolds
  <2>2. CASE Goto(o, "failed") /\ UNCHANGED <<row, first, seen>>
    <3>1. /\ pc' = [pc EXCEPT ![o] = "failed"] /\ pc[o] = "create"
          /\ UNCHANGED <<row, first, seen, cache, key, code, reply>>
      BY <1>4, <2>2 DEF SaveCreate, Goto
    <3>2. Types' /\ CacheOK(cache')
      BY <1>0, <3>1 DEF Types, PC
    <3>3. CallOK(pc'[o], key'[o], code'[o], reply'[o], row', seen'[o])
      BY <1>0, <3>1 DEF Types, CallOK, Holding, Returned
    <3>4. \A p \in Calls \ {o} : pc'[p] = pc[p]
      BY <1>0, <3>1 DEF Types
    <3>5. QED
      BY <3>1, <3>2, <3>3, <3>4, OthersUnchanged
  <2>3. QED
    BY <1>4, <2>1, <2>2 DEF SaveCreate
<1>5. ASSUME NEW o \in Calls, SaveReturn(o) \/ LoadReturn(o) PROVE IInv'
  <2>1. PICK w \in Returned : Return(o, w, code[o]) /\ (w = "loaded" => pc[o] = "cacheLoaded")
    BY <1>5 DEF SaveReturn, LoadReturn, Returned
  <2>2. /\ pc[o] \in {"cacheSaved", "cacheLoaded"} /\ Cache(key[o], code[o])
        /\ UNCHANGED <<row, key, code, first, seen>>
    BY <1>5 DEF SaveReturn, LoadReturn
  <2>3. key[o] \in Keys /\ code[o] \in Codes
    BY <1>0, <2>2 DEF CallOK, Holding
  <2>4. CacheOK(cache')
    BY <1>0, <2>2, <2>3, CacheKeeps
  <2>5. pc' = [pc EXCEPT ![o] = w] /\ reply' = [reply EXCEPT ![o] = code[o]]
    BY <2>1 DEF Return, Goto
  <2>6. Types'
    BY <1>0, <2>2, <2>3, <2>5 DEF Types, PC, Returned
  <2>7. CallOK(pc'[o], key'[o], code'[o], reply'[o], row', seen'[o])
    <3>1. /\ pc'[o] = w /\ reply'[o] = code[o] /\ reply'[o] # None
          /\ key'[o] = key[o] /\ code'[o] = code[o] /\ seen'[o] = seen[o]
      BY <1>0, <2>2, <2>3, <2>5, NoneAssumption DEF Types
    <3>2. w = "loaded" => code[o] \in seen[o]
      BY <1>0, <2>1 DEF CallOK
    <3>3. QED
      BY <2>3, <3>1, <3>2 DEF CallOK, Returned
  <2>8. \A p \in Calls \ {o} : pc'[p] = pc[p] /\ reply'[p] = reply[p]
    BY <1>0, <2>5 DEF Types
  <2>9. QED
    BY <2>2, <2>4, <2>6, <2>7, <2>8, OthersUnchanged
<1>6. ASSUME NEW o \in Calls, NEW k \in Keys, LoadCached(o, k) PROVE IInv'
  <2>1. PICK i \in Cached(k) : Begin(o, k, cache[i].value)
    BY <1>6 DEF LoadCached
  <2>2. Goto(o, "check") /\ UNCHANGED <<row, cache, reply, first>>
    BY <1>6 DEF LoadCached
  <2>3. cache[i].value \in Codes
    <3>1. cache \in Seq(Entry) /\ DOMAIN cache = 1..Len(cache) /\ i \in DOMAIN cache
      BY <1>0, LenProperties DEF Cached, CacheOK
    <3>2. cache[i] \in Entry
      BY <3>1, ElementOfSeq
    <3>3. QED
      BY <3>2 DEF Entry
  <2>4. "check" \in PC \ (Returned \cup {"idle", "cacheLoaded"}) /\ CacheOK(cache')
    BY <1>0, <2>2 DEF PC, Returned
  <2>5. QED
    BY <2>1, <2>2, <2>3, <2>4, BeginHolds
<1>7. ASSUME NEW o \in Calls, NEW k \in Keys, LoadUncached(o, k) PROVE IInv'
  <2>1. Begin(o, k, None) /\ Goto(o, "load") /\ Evict(k) /\ UNCHANGED <<row, reply, first>>
    BY <1>7 DEF LoadUncached
  <2>2. CacheOK(cache')
    BY <1>0, <2>1, EvictKeeps
  <2>3. "load" \in PC \ (Returned \cup {"idle", "cacheLoaded"})
    BY DEF PC, Returned
  <2>4. "load" \notin Holding /\ None \in Codes \cup {None}
    BY DEF Holding
  <2>5. QED
    BY <2>1, <2>2, <2>3, <2>4, BeginHolds
<1>8. ASSUME NEW o \in Calls, LoadCheck(o) PROVE IInv'
  <2>1. /\ pc[o] = "check" /\ UNCHANGED <<row, cache, key, code, first, seen>>
    BY <1>8 DEF LoadCheck
  <2>2. code[o] \in Codes /\ reply[o] = None /\ row[key[o]] \in seen[o] \cup {None}
    BY <1>0, <2>1 DEF CallOK, Holding, Returned
  <2>3. PICK w \in {"loaded", "stale"} :
          /\ pc' = [pc EXCEPT ![o] = w]
          /\ w = "loaded" => row[key[o]] = code[o] /\ reply' = [reply EXCEPT ![o] = code[o]]
          /\ w = "stale" => reply' = reply
    BY <1>8 DEF LoadCheck, Return, Goto
  <2>4. Types' /\ CacheOK(cache')
    BY <1>0, <2>1, <2>2, <2>3 DEF Types, PC
  <2>5. CallOK(pc'[o], key'[o], code'[o], reply'[o], row', seen'[o])
    <3>1. pc'[o] = w /\ reply'[o] = IF w = "loaded" THEN code[o] ELSE None
      BY <1>0, <2>2, <2>3 DEF Types
    <3>2. w = "loaded" => code[o] \in seen[o]
      BY <2>2, <2>3, NoneAssumption
    <3>3. key[o] \in Keys
      BY <1>0, <2>1 DEF CallOK
    <3>4. QED
      BY <2>1, <2>2, <3>1, <3>2, <3>3, NoneAssumption DEF CallOK, Holding, Returned
  <2>6. \A p \in Calls \ {o} : pc'[p] = pc[p] /\ reply'[p] = reply[p]
    BY <1>0, <2>3 DEF Types
  <2>7. QED
    BY <2>1, <2>4, <2>5, <2>6, OthersUnchanged
<1>9. ASSUME NEW o \in Calls, LoadStale(o) PROVE IInv'
  <2>1. /\ pc[o] = "stale" /\ pc' = [pc EXCEPT ![o] = "load"] /\ Evict(key[o])
        /\ UNCHANGED <<row, key, code, reply, first, seen>>
    BY <1>9 DEF LoadStale, Goto
  <2>2. CacheOK(cache') /\ Types'
    BY <1>0, <2>1, EvictKeeps DEF Types, PC
  <2>3. CallOK(pc'[o], key'[o], code'[o], reply'[o], row', seen'[o])
    BY <1>0, <2>1 DEF Types, CallOK, Holding, Returned
  <2>4. \A p \in Calls \ {o} : pc'[p] = pc[p]
    BY <1>0, <2>1 DEF Types
  <2>5. QED
    BY <2>1, <2>2, <2>3, <2>4, OthersUnchanged
<1>10. ASSUME NEW o \in Calls, LoadFind(o) PROVE IInv'
  <2> DEFINE w == IF row[key[o]] = None THEN "failed" ELSE "cacheLoaded"
  <2>1. /\ pc[o] = "load" /\ code' = [code EXCEPT ![o] = row[key[o]]]
        /\ pc' = [pc EXCEPT ![o] = w]
        /\ UNCHANGED <<row, cache, key, reply, first, seen>>
    BY <1>10 DEF LoadFind, Goto
  <2>2. key[o] \in Keys /\ reply[o] = None /\ row[key[o]] \in seen[o] \cup {None}
    BY <1>0, <2>1 DEF CallOK, Returned
  <2>3. row[key[o]] \in Codes \cup {None}
    BY <1>0, <2>2 DEF Types
  <2>4. Types' /\ CacheOK(cache')
    BY <1>0, <2>1, <2>3 DEF Types, PC
  <2>5. CallOK(pc'[o], key'[o], code'[o], reply'[o], row', seen'[o])
    <3>1. pc'[o] = w /\ code'[o] = row[key[o]] /\ reply'[o] = None /\ key'[o] = key[o]
          /\ seen'[o] = seen[o] /\ row' = row
      BY <1>0, <2>1, <2>2 DEF Types
    <3>2. QED
      BY <2>2, <2>3, <3>1 DEF CallOK, Holding, Returned
  <2>6. \A p \in Calls \ {o} : pc'[p] = pc[p] /\ code'[p] = code[p]
    BY <1>0, <2>1 DEF Types
  <2>7. QED
    BY <2>1, <2>4, <2>5, <2>6, OthersUnchanged
<1>11. QED
  BY <1>1, <1>2, <1>3, <1>4, <1>5, <1>6, <1>7, <1>8, <1>9, <1>10 DEF Next

-----------------------------------------------------------------------------
(* The theorems                                                            *)

(* Every variable keeps its type.                                          *)
THEOREM TypeCorrect == Spec => []TypeOK
BY InitHolds, StepHolds, IInvImplies, PTL DEF Spec

(* The map has one entry per version and never more than its limit,        *)
(* whichever calls fill and empty it between each other's awaits.          *)
THEOREM CacheAlwaysBounded == Spec => []CacheBounded
BY InitHolds, StepHolds, IInvImplies, PTL DEF Spec

(* A load never returns code that the store did not hold during the call,  *)
(* for any number of concurrent saves of the same version.                 *)
THEOREM LoadsReturnStored == Spec => []LoadReturnsStored
BY InitHolds, StepHolds, IInvImplies, PTL DEF Spec
=============================================================================

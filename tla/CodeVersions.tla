----------------------------- MODULE CodeVersions -----------------------------
(***************************************************************************)
(* src/store/code-versions.ts: saveCodeVersion and loadCodeVersion, run by *)
(* concurrent /run requests (resolveCode of src/run-service.ts), over the  *)
(* CodeVersion table and the in-memory cache.                              *)
(*                                                                         *)
(* A statement of the store is atomic (SQLite), but its caller goes on     *)
(* later, when other statements may have run: the cache is filled in an    *)
(* action of its own.  sha256 has no collisions: comparing hashes is       *)
(* comparing code.  The cache is a Map,                                    *)
(* which iterates in insertion order and keeps the place of a key that is  *)
(* set again: a sequence of entries.  Its TTL is abstracted: whenever an   *)
(* entry is looked at, it may have expired.                                *)
(***************************************************************************)
EXTENDS Integers, Sequences

CONSTANTS
  Calls,     \* calls of saveCodeVersion and loadCodeVersion
  Keys,      \* name@version pairs
  Codes,     \* source texts
  MaxCache,  \* maxCodeVersionCacheEntries; 0 turns the cache off
  None       \* no row, no code

ASSUME NoneAssumption == None \notin Codes
ASSUME MaxCacheAssumption == MaxCache \in Nat

VARIABLES
  row,       \* row[k]: the code stored for k, or None (external: SQLite)
  cache,     \* codeVersionCache, oldest entry first
  pc,        \* pc[o]: the next statement of call o
  key,       \* key[o]: the version asked for
  code,      \* code[o]: the bundle's code; for a load the value it found
  reply,     \* reply[o]: the code returned, or None for an error
  first,     \* first[k]: the code k was created with (history)
  seen       \* seen[o]: the codes k had since the call began (history)

cvars == <<pc, key, code, reply>>
vars == <<row, cache, pc, key, code, reply, first, seen>>

Entry == [key : Keys, value : Codes]
PC == {"idle", "update", "create", "cacheSaved", "saved",
       "check", "stale", "load", "cacheLoaded", "loaded", "failed"}

Cached(k) == {i \in DOMAIN cache : cache[i].key = k}

(* Map.delete: the entry of k, of which there is one at most.              *)
Evict(k) ==
  LET i == CHOOSE i \in Cached(k) : TRUE
  IN  cache' = IF Cached(k) = {} THEN cache
               ELSE SubSeq(cache, 1, i - 1) \o SubSeq(cache, i + 1, Len(cache))

TypeOK ==
  /\ row \in [Keys -> Codes \cup {None}]
  /\ cache \in Seq(Entry)
  /\ pc \in [Calls -> PC]
  /\ key \in [Calls -> Keys \cup {None}]
  /\ code \in [Calls -> Codes \cup {None}]
  /\ reply \in [Calls -> Codes \cup {None}]
  /\ first \in [Keys -> Codes \cup {None}]
  /\ seen \in [Calls -> SUBSET Codes]

Init ==
  /\ row = [k \in Keys |-> None]
  /\ cache = <<>>
  /\ pc = [o \in Calls |-> "idle"]
  /\ key = [o \in Calls |-> None]
  /\ code = [o \in Calls |-> None]
  /\ reply = [o \in Calls |-> None]
  /\ first = [k \in Keys |-> None]
  /\ seen = [o \in Calls |-> {}]

(* cacheCodeVersion: replaced in place, else appended, the oldest entry    *)
(* leaving a full cache first.                                             *)
\* Mistake: the oldest entry leaves only when the limit is exceeded.
CacheLate(k, c) ==
  LET new == [key |-> k, value |-> c]
      room == IF Len(cache) > MaxCache THEN Tail(cache) ELSE cache
  IN  cache' = IF Cached(k) # {}
               THEN [i \in DOMAIN cache |-> IF cache[i].key = k THEN new ELSE cache[i]]
               ELSE Append(room, new)

Cache(k, c) ==
  LET new == [key |-> k, value |-> c]
      room == IF Len(cache) >= MaxCache THEN Tail(cache) ELSE cache
  IN  cache' = IF MaxCache = 0 THEN cache
               ELSE IF Cached(k) # {}
               THEN [i \in DOMAIN cache |-> IF cache[i].key = k THEN new ELSE cache[i]]
               ELSE Append(room, new)

Goto(o, where) == pc' = [pc EXCEPT ![o] = where]
Return(o, where, c) == Goto(o, where) /\ reply' = [reply EXCEPT ![o] = c]

(* A call begins; what k is from here on is what it may see.               *)
Begin(o, k, c) ==
  /\ pc[o] = "idle"
  /\ key' = [key EXCEPT ![o] = k]
  /\ code' = [code EXCEPT ![o] = c]
  /\ seen' = [seen EXCEPT ![o] = {row[k]} \ {None}]

(* A write of c to k, seen by every call under way for k.                  *)
Write(o, k, c) ==
  /\ row' = [row EXCEPT ![k] = c]
  /\ first' = [first EXCEPT ![k] = IF @ = None THEN c ELSE @]
  /\ seen' = [p \in Calls |-> IF key[p] = k /\ reply[p] = None THEN seen[p] \cup {c}
                                                               ELSE seen[p]]

-----------------------------------------------------------------------------
(* saveCodeVersion                                                         *)

(* findUnique                                                              *)
SaveFind(o, k, c) ==
  /\ Begin(o, k, c)
  /\ \/ row[k] = None /\ Goto(o, "create")
     \/ row[k] \notin {None, c} /\ Goto(o, "update")
     \/ row[k] = c /\ Goto(o, "cacheSaved")
  /\ UNCHANGED <<row, cache, reply, first>>

(* The update overwrites whatever is there, and returns what it wrote.     *)
SaveUpdate(o) ==
  /\ pc[o] = "update"
  /\ Write(o, key[o], code[o])
  /\ Goto(o, "cacheSaved")
  /\ UNCHANGED <<cache, key, code, reply>>

(* create, unless another call created the version since findUnique: the   *)
(* unique index on name and version makes the statement fail.              *)
SaveCreate(o) ==
  /\ pc[o] = "create"
  /\ \/ /\ row[key[o]] = None
        /\ Write(o, key[o], code[o])
        /\ Goto(o, "cacheSaved")
     \/ /\ row[key[o]] # None
        /\ Goto(o, "failed")
        /\ UNCHANGED <<row, first, seen>>
  /\ UNCHANGED <<cache, key, code, reply>>

(* The row as saved goes into the cache and to the caller.                 *)
SaveReturn(o) ==
  /\ pc[o] = "cacheSaved"
  /\ Cache(key[o], code[o])
  /\ Return(o, "saved", code[o])
  /\ UNCHANGED <<row, key, code, first, seen>>

-----------------------------------------------------------------------------
(* loadCodeVersion                                                         *)

(* getCachedCodeVersion: a live entry is to be checked against the store,  *)
(* an expired one is deleted.                                              *)
\* Mistake: a live entry is returned without the check.
LoadCachedUnchecked(o, k) ==
  /\ \E i \in Cached(k) : /\ Begin(o, k, cache[i].value)
                          /\ Return(o, "loaded", cache[i].value)
  /\ UNCHANGED <<row, cache, first>>

LoadCached(o, k) ==
  /\ \E i \in Cached(k) : Begin(o, k, cache[i].value)
  /\ Goto(o, "check")
  /\ UNCHANGED <<row, cache, reply, first>>

LoadUncached(o, k) ==
  /\ Begin(o, k, None)
  /\ Goto(o, "load")
  /\ Evict(k)
  /\ UNCHANGED <<row, reply, first>>

(* isCachedCodeVersionFresh: the cached value is returned when its hash is *)
(* the row's.                                                              *)
LoadCheck(o) ==
  /\ pc[o] = "check"
  /\ \/ row[key[o]] = code[o] /\ Return(o, "loaded", code[o])
     \/ row[key[o]] # code[o] /\ Goto(o, "stale") /\ UNCHANGED reply
  /\ UNCHANGED <<row, cache, key, code, first, seen>>

(* Otherwise the entry of this key, whoever put it there, is deleted.      *)
LoadStale(o) ==
  /\ pc[o] = "stale"
  /\ Evict(key[o])
  /\ Goto(o, "load")
  /\ UNCHANGED <<row, key, code, reply, first, seen>>

(* findUnique                                                              *)
LoadFind(o) ==
  /\ pc[o] = "load"
  /\ code' = [code EXCEPT ![o] = row[key[o]]]
  /\ Goto(o, IF row[key[o]] = None THEN "failed" ELSE "cacheLoaded")
  /\ UNCHANGED <<row, cache, key, reply, first, seen>>

(* The row found goes into the cache, outdated or not, and to the caller.  *)
LoadReturn(o) ==
  /\ pc[o] = "cacheLoaded"
  /\ Cache(key[o], code[o])
  /\ Return(o, "loaded", code[o])
  /\ UNCHANGED <<row, key, code, first, seen>>

-----------------------------------------------------------------------------

Next ==
  \E o \in Calls :
    \/ \E k \in Keys, c \in Codes : SaveFind(o, k, c)
    \/ SaveUpdate(o)
    \/ SaveCreate(o)
    \/ SaveReturn(o)
    \/ \E k \in Keys : LoadCached(o, k) \/ LoadUncached(o, k)
    \/ LoadCheck(o)
    \/ LoadStale(o)
    \/ LoadFind(o)
    \/ LoadReturn(o)

Spec == Init /\ [][Next]_vars

-----------------------------------------------------------------------------
(* Properties                                                              *)

(* The map has one entry per key and never more than its limit, whichever  *)
(* calls insert, delete and replace between each other's awaits.           *)
CacheBounded ==
  /\ Len(cache) <= MaxCache
  /\ \A i, j \in DOMAIN cache : cache[i].key = cache[j].key => i = j

(* A load returns code the store held at some moment of the call: a cached *)
(* value is never returned after another save replaced it.                 *)
LoadReturnsStored == \A o \in Calls : pc[o] = "loaded" => reply[o] \in seen[o]

(* README.md:147, "Reusing the same name and version with different code   *)
(* returns a version conflict": a version keeps the code it was created    *)
(* with.                                                                   *)
VersionsKeepTheirCode == \A k \in Keys : row[k] = first[k]
=============================================================================

------------------------------ MODULE QueueLemmas ------------------------------
(***************************************************************************)
(* Facts about queues: what push, shift and the splice of one entry do to  *)
(* the set of the entries of a queue without duplicates (the waiting tasks *)
(* of a pool), and of a channel in which some messages occur once only.    *)
(***************************************************************************)
EXTENDS Integers, Sequences, TLAPS, SequenceTheorems, WellFoundedInduction

Holds(p, x) == \E i \in DOMAIN p : p[i] = x
Distinct(p) == \A i, k \in DOMAIN p : p[i] = p[k] => i = k
Cut(s, i) == SubSeq(s, 1, i - 1) \o SubSeq(s, i + 1, Len(s))

(* A set of indices has a first one.                                       *)
LEMMA FirstExists ==
  ASSUME NEW S \in SUBSET Nat, S # {}
  PROVE  \E x \in S : \A y \in S : x <= y
<1>1. IsWellFoundedOn(OpToRel(<, Nat), Nat)
  BY NatLessThanWellFounded
<1>2. PICK x \in S : \A y \in S : ~(<<y, x>> \in OpToRel(<, Nat))
  BY <1>1, WFMin
<1>3. \A y \in S : x <= y
  <2>1. TAKE y \in S
  <2>2. ~(y < x)
    BY <1>2 DEF OpToRel
  <2>3. QED
    BY <2>2
<1>4. QED
  BY <1>2, <1>3

(* shift                                                                   *)
LEMMA TailHolds ==
  ASSUME NEW S, NEW p \in Seq(S), p # <<>>, Distinct(p)
  PROVE  /\ Head(p) \in S
         /\ Holds(p, Head(p))
         /\ Tail(p) \in Seq(S)
         /\ Len(Tail(p)) = Len(p) - 1
         /\ Distinct(Tail(p))
         /\ \A x : Holds(Tail(p), x) <=> Holds(p, x) /\ x # Head(p)
<1>1. /\ Head(p) = p[1] /\ Head(p) \in S
      /\ Tail(p) \in Seq(S)
      /\ Len(Tail(p)) = Len(p) - 1
      /\ Len(p) \in Nat /\ Len(p) >= 1
      /\ DOMAIN p = 1..Len(p)
      /\ DOMAIN Tail(p) = 1..(Len(p) - 1)
      /\ \A i \in 1..(Len(p) - 1) : Tail(p)[i] = p[i + 1]
  BY HeadTailProperties, EmptySeq, LenProperties
<1>2. Distinct(Tail(p))
  <2> SUFFICES ASSUME NEW i \in 1..(Len(p) - 1), NEW k \in 1..(Len(p) - 1),
                      Tail(p)[i] = Tail(p)[k]
               PROVE  i = k
    BY <1>1 DEF Distinct
  <2>1. i + 1 \in DOMAIN p /\ k + 1 \in DOMAIN p /\ p[i + 1] = p[k + 1]
    BY <1>1
  <2>2. i + 1 = k + 1
    BY <2>1 DEF Distinct
  <2>3. QED
    BY <2>2
<1>3. ASSUME NEW x, Holds(Tail(p), x) PROVE Holds(p, x) /\ x # Head(p)
  <2>1. PICK i \in 1..(Len(p) - 1) : Tail(p)[i] = x
    BY <1>1, <1>3 DEF Holds
  <2>2. i + 1 \in DOMAIN p /\ p[i + 1] = x /\ 1 \in DOMAIN p /\ i + 1 # 1
    BY <1>1, <2>1
  <2>3. QED
    BY <1>1, <2>2 DEF Holds, Distinct
<1>4. ASSUME NEW x, Holds(p, x), x # Head(p) PROVE Holds(Tail(p), x)
  <2>1. PICK i \in 1..Len(p) : p[i] = x
    BY <1>1, <1>4 DEF Holds
  <2>2. i # 1
    BY <1>1, <1>4, <2>1
  <2>3. i - 1 \in 1..(Len(p) - 1) /\ (i - 1) + 1 = i
    BY <1>1, <2>1, <2>2
  <2>4. Tail(p)[i - 1] = x
    BY <1>1, <2>1, <2>3
  <2>5. QED
    BY <1>1, <2>3, <2>4 DEF Holds
<1>5. 1 \in DOMAIN p /\ Holds(p, Head(p))
  BY <1>1 DEF Holds
<1>6. QED
  BY <1>1, <1>2, <1>3, <1>4, <1>5

(* push                                                                    *)
LEMMA AppendHolds ==
  ASSUME NEW S, NEW p \in Seq(S), NEW y \in S, Distinct(p), ~Holds(p, y)
  PROVE  /\ Append(p, y) \in Seq(S)
         /\ Len(Append(p, y)) = Len(p) + 1
         /\ Distinct(Append(p, y))
         /\ \A x : Holds(Append(p, y), x) <=> Holds(p, x) \/ x = y
<1>1. /\ Append(p, y) \in Seq(S)
      /\ Len(Append(p, y)) = Len(p) + 1
      /\ Len(p) \in Nat /\ DOMAIN p = 1..Len(p)
      /\ DOMAIN Append(p, y) = 1..(Len(p) + 1)
      /\ \A i \in 1..Len(p) : Append(p, y)[i] = p[i]
      /\ Append(p, y)[Len(p) + 1] = y
  BY LenProperties, AppendProperties
<1>2. \A i \in 1..Len(p) : p[i] # y
  BY <1>1 DEF Holds
<1>3. Distinct(Append(p, y))
  BY <1>1, <1>2 DEF Distinct
<1>4. ASSUME NEW x PROVE Holds(Append(p, y), x) <=> Holds(p, x) \/ x = y
  <2>1. ASSUME Holds(Append(p, y), x), x # y PROVE Holds(p, x)
    <3>1. PICK i \in 1..(Len(p) + 1) : Append(p, y)[i] = x
      BY <1>1, <2>1 DEF Holds
    <3>2. i \in 1..Len(p)
      BY <1>1, <2>1, <3>1
    <3>3. QED
      BY <1>1, <3>1, <3>2 DEF Holds
  <2>2. ASSUME Holds(p, x) PROVE Holds(Append(p, y), x)
    <3>1. PICK i \in 1..Len(p) : p[i] = x
      BY <1>1, <2>2 DEF Holds
    <3>2. i \in 1..(Len(p) + 1) /\ Append(p, y)[i] = x
      BY <1>1, <3>1
    <3>3. QED
      BY <1>1, <3>2 DEF Holds
  <2>3. Len(p) + 1 \in DOMAIN Append(p, y)
    BY <1>1
  <2>4. Holds(Append(p, y), y)
    BY <1>1, <2>3 DEF Holds
  <2>5. QED
    BY <2>1, <2>2, <2>4
<1>5. QED
  BY <1>1, <1>3, <1>4

(* splice(i, 1): the entries before i stay, those after it move up by one. *)
LEMMA CutProperties ==
  ASSUME NEW S, NEW s \in Seq(S), NEW i \in 1..Len(s)
  PROVE  /\ Cut(s, i) \in Seq(S)
         /\ Len(Cut(s, i)) = Len(s) - 1
         /\ \A k \in 1..(Len(s) - 1) : Cut(s, i)[k] = IF k < i THEN s[k] ELSE s[k + 1]
<1>0. Len(s) \in Nat /\ i \in Int
  BY LenProperties
<1> DEFINE a == SubSeq(s, 1, i - 1)
           b == SubSeq(s, i + 1, Len(s))
<1>1. a \in Seq(S) /\ Len(a) = i - 1 /\ \A k \in 1..(i - 1) : a[k] = s[k]
  <2>1. \A k \in 1..(i - 1) : s[k] \in S
    BY <1>0, ElementOfSeq
  <2>2. /\ a \in Seq(S)
        /\ Len(a) = IF 1 <= i - 1 THEN (i - 1) - 1 + 1 ELSE 0
        /\ \A k \in 1..((i - 1) - 1 + 1) : a[k] = s[1 + k - 1]
    BY <1>0, <2>1, SubSeqProperties
  <2>3. QED
    BY <1>0, <2>2
<1>2. b \in Seq(S) /\ Len(b) = Len(s) - i /\ \A k \in 1..(Len(s) - i) : b[k] = s[i + k]
  <2>1. \A k \in (i + 1)..Len(s) : s[k] \in S
    BY <1>0, ElementOfSeq
  <2>2. /\ b \in Seq(S)
        /\ Len(b) = IF i + 1 <= Len(s) THEN Len(s) - (i + 1) + 1 ELSE 0
        /\ \A k \in 1..(Len(s) - (i + 1) + 1) : b[k] = s[(i + 1) + k - 1]
    BY <1>0, <2>1, SubSeqProperties
  <2>3. QED
    BY <1>0, <2>2
<1> HIDE DEF a, b
<1>3. /\ a \o b \in Seq(S)
      /\ Len(a \o b) = Len(a) + Len(b)
      /\ \A k \in 1..(Len(a) + Len(b)) :
           (a \o b)[k] = IF k <= Len(a) THEN a[k] ELSE b[k - Len(a)]
  BY <1>1, <1>2, ConcatProperties
<1>4. Cut(s, i) = a \o b
  BY DEF Cut, a, b
<1>5. ASSUME NEW k \in 1..(Len(s) - 1)
      PROVE  (a \o b)[k] = IF k < i THEN s[k] ELSE s[k + 1]
  <2>1. CASE k < i
    <3>1. k <= Len(a) /\ k \in 1..(i - 1) /\ k \in 1..(Len(a) + Len(b))
      BY <1>0, <1>1, <1>2, <2>1
    <3>2. QED
      BY <1>1, <1>3, <2>1, <3>1
  <2>2. CASE ~(k < i)
    <3>1. /\ k \in 1..(Len(a) + Len(b)) /\ ~(k <= Len(a))
          /\ k - Len(a) \in 1..(Len(s) - i)
          /\ i + (k - Len(a)) = k + 1
      BY <1>0, <1>1, <1>2, <2>2
    <3>2. QED
      BY <1>2, <1>3, <2>2, <3>1
  <2>3. QED
    BY <2>1, <2>2
<1>6. Len(a \o b) = Len(s) - 1
  BY <1>0, <1>1, <1>2, <1>3
<1>7. QED
  BY <1>3, <1>4, <1>5, <1>6

LEMMA CutHolds ==
  ASSUME NEW S, NEW p \in Seq(S), NEW i \in DOMAIN p, Distinct(p)
  PROVE  /\ Cut(p, i) \in Seq(S)
         /\ Len(Cut(p, i)) = Len(p) - 1
         /\ Distinct(Cut(p, i))
         /\ \A x : Holds(Cut(p, i), x) <=> Holds(p, x) /\ x # p[i]
<1> DEFINE c == Cut(p, i)
           at(k) == IF k < i THEN k ELSE k + 1
<1>1. Len(p) \in Nat /\ DOMAIN p = 1..Len(p) /\ i \in 1..Len(p)
  BY LenProperties
<1>2. /\ c \in Seq(S) /\ Len(c) = Len(p) - 1
      /\ \A k \in 1..(Len(p) - 1) : c[k] = p[at(k)]
  BY <1>1, CutProperties
<1>3. DOMAIN c = 1..(Len(p) - 1)
  BY <1>2, LenProperties
<1> HIDE DEF c
<1>4. \A k \in DOMAIN c : at(k) \in DOMAIN p /\ at(k) # i /\ c[k] = p[at(k)]
  BY <1>1, <1>2, <1>3
<1>5. Distinct(c)
  <2> SUFFICES ASSUME NEW a \in DOMAIN c, NEW b \in DOMAIN c, c[a] = c[b] PROVE a = b
    BY DEF Distinct
  <2>1. at(a) = at(b)
    BY <1>4 DEF Distinct
  <2>2. QED
    BY <1>1, <1>3, <2>1
<1>6. ASSUME NEW x, Holds(c, x) PROVE Holds(p, x) /\ x # p[i]
  BY <1>4, <1>6 DEF Holds, Distinct
<1>7. ASSUME NEW x, Holds(p, x), x # p[i] PROVE Holds(c, x)
  <2>1. PICK a \in DOMAIN p : p[a] = x /\ a # i
    BY <1>7 DEF Holds
  <2>2. CASE a < i
    BY <1>1, <1>2, <1>3, <2>1, <2>2 DEF Holds
  <2>3. CASE ~(a < i)
    <3>1. a - 1 \in DOMAIN c /\ at(a - 1) = a
      BY <1>1, <1>3, <2>1, <2>3
    <3>2. QED
      BY <1>2, <1>3, <2>1, <3>1 DEF Holds
  <2>4. QED
    BY <2>2, <2>3
<1>8. QED
  BY <1>2, <1>5, <1>6, <1>7 DEF c

-----------------------------------------------------------------------------
(* Channels: at most one entry of p is a member of T, the rest may repeat. *)
Only(p, T) == \A i, k \in DOMAIN p : p[i] \in T /\ p[k] \in T => i = k

LEMMA EmptyHolds ==
  ASSUME NEW S, NEW T
  PROVE  <<>> \in Seq(S) /\ Only(<<>>, T) /\ \A x : ~Holds(<<>>, x)
BY DEF Only, Holds

LEMMA OneHolds ==
  ASSUME NEW S, NEW T, NEW y \in S
  PROVE  <<y>> \in Seq(S) /\ Only(<<y>>, T) /\ \A x : Holds(<<y>>, x) <=> x = y
<1>1. DOMAIN <<y>> = {1} /\ <<y>>[1] = y /\ <<y>> \in Seq(S)
  OBVIOUS
<1>2. QED
  BY <1>1 DEF Only, Holds

(* Reading the head.                                                       *)
LEMMA TailOnly ==
  ASSUME NEW S, NEW p \in Seq(S), p # <<>>, NEW T
  PROVE  /\ Head(p) \in S /\ Holds(p, Head(p)) /\ Tail(p) \in Seq(S)
         /\ \A x : Holds(Tail(p), x) => Holds(p, x)
         /\ \A x : Holds(p, x) => x = Head(p) \/ Holds(Tail(p), x)
         /\ Only(p, T) => Only(Tail(p), T)
         /\ Only(p, T) /\ Head(p) \in T => \A x \in T : ~Holds(Tail(p), x)
<1>1. /\ Head(p) = p[1] /\ Head(p) \in S
      /\ Tail(p) \in Seq(S)
      /\ Len(p) \in Nat /\ Len(p) >= 1
      /\ DOMAIN p = 1..Len(p)
      /\ DOMAIN Tail(p) = 1..(Len(p) - 1)
      /\ \A i \in 1..(Len(p) - 1) : Tail(p)[i] = p[i + 1]
  BY HeadTailProperties, EmptySeq, LenProperties
<1>2. 1 \in DOMAIN p
  BY <1>1
<1>3. \A i \in DOMAIN Tail(p) : i + 1 \in DOMAIN p /\ Tail(p)[i] = p[i + 1] /\ i + 1 # 1
  BY <1>1
<1>4. ASSUME NEW x, Holds(p, x), x # Head(p) PROVE Holds(Tail(p), x)
  <2>1. PICK i \in 1..Len(p) : p[i] = x
    BY <1>1, <1>4 DEF Holds
  <2>2. i # 1
    BY <1>1, <1>4, <2>1
  <2>3. i - 1 \in DOMAIN Tail(p) /\ (i - 1) + 1 = i
    BY <1>1, <2>1, <2>2
  <2>4. QED
    BY <1>3, <2>1, <2>3 DEF Holds
<1>5. ASSUME Only(p, T) PROVE Only(Tail(p), T)
  <2> SUFFICES ASSUME NEW i \in DOMAIN Tail(p), NEW k \in DOMAIN Tail(p),
                      Tail(p)[i] \in T, Tail(p)[k] \in T
               PROVE  i = k
    BY DEF Only
  <2>1. i + 1 = k + 1
    BY <1>3, <1>5 DEF Only
  <2>2. QED
    BY <1>1, <2>1
<1>6. ASSUME Only(p, T), Head(p) \in T, NEW x \in T, Holds(Tail(p), x) PROVE FALSE
  <2>1. PICK i \in DOMAIN Tail(p) : Tail(p)[i] = x
    BY <1>6 DEF Holds
  <2>2. i + 1 = 1
    BY <1>1, <1>2, <1>3, <1>6, <2>1 DEF Only
  <2>3. QED
    BY <1>3, <2>1, <2>2
<1>7. Holds(p, Head(p))
  BY <1>1, <1>2 DEF Holds
<1>8. ASSUME NEW x, Holds(Tail(p), x) PROVE Holds(p, x)
  BY <1>3, <1>8 DEF Holds
<1>9. QED
  BY <1>1, <1>4, <1>5, <1>6, <1>7, <1>8

(* Writing at the end.                                                     *)
LEMMA AppendOnly ==
  ASSUME NEW S, NEW p \in Seq(S), NEW y \in S, NEW T
  PROVE  /\ Append(p, y) \in Seq(S)
         /\ \A x : Holds(Append(p, y), x) <=> Holds(p, x) \/ x = y
         /\ Only(p, T) /\ (y \in T => \A x \in T : ~Holds(p, x)) => Only(Append(p, y), T)
<1>1. /\ Append(p, y) \in Seq(S)
      /\ Len(p) \in Nat /\ DOMAIN p = 1..Len(p)
      /\ DOMAIN Append(p, y) = 1..(Len(p) + 1)
      /\ \A i \in 1..Len(p) : Append(p, y)[i] = p[i]
      /\ Append(p, y)[Len(p) + 1] = y
  BY LenProperties, AppendProperties
<1>2. \A i \in DOMAIN Append(p, y) : i \in DOMAIN p \/ i = Len(p) + 1
  BY <1>1
<1>3. \A i \in DOMAIN p : i \in DOMAIN Append(p, y) /\ Append(p, y)[i] = p[i]
  BY <1>1
<1>4. Len(p) + 1 \in DOMAIN Append(p, y)
  BY <1>1
<1>5. \A x : Holds(Append(p, y), x) <=> Holds(p, x) \/ x = y
  BY <1>1, <1>2, <1>3, <1>4 DEF Holds
<1>6. ASSUME Only(p, T), y \in T => \A x \in T : ~Holds(p, x) PROVE Only(Append(p, y), T)
  <2> SUFFICES ASSUME NEW i \in DOMAIN Append(p, y), NEW k \in DOMAIN Append(p, y),
                      Append(p, y)[i] \in T, Append(p, y)[k] \in T
               PROVE  i = k
    BY DEF Only
  <2>1. CASE i \in DOMAIN p /\ k \in DOMAIN p
    BY <1>3, <1>6, <2>1 DEF Only
  <2>2. CASE i = Len(p) + 1 \/ k = Len(p) + 1
    BY <1>1, <1>2, <1>3, <1>6, <2>2 DEF Holds
  <2>3. QED
    BY <1>2, <2>1, <2>2
<1>7. QED
  BY <1>1, <1>5, <1>6
=============================================================================

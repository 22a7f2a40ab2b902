--------------------------- MODULE OperatorLemmas ---------------------------
(* Lemmas about ids and lists that the proofs of several modules use. *)
EXTENDS Integers, FiniteSets, Sequences, SequencesExt, SequenceTheorems, FiniteSetTheorems,
        WellFoundedInduction, TLAPS

\* A set of naturals that is not empty has a lowest member, so that idr_alloc finds one.
LEMMA LowestExists ==
  ASSUME NEW S \in SUBSET Nat, S # {}
  PROVE  \E i \in S : \A j \in S : i <= j
<1> DEFINE R == OpToRel(<, Nat)
<1>1. \A i, j \in S : <<j, i>> \in R <=> j < i
  BY DEF OpToRel
<1>2. IsWellFoundedOn(R, Nat)
  BY NatLessThanWellFounded
<1> HIDE DEF R
<1>3. \E i \in S : \A j \in S : ~ (<<j, i>> \in R)
  BY <1>2, WFMin, Zenon
<1>4. \A i, j \in S : ~ (j < i) => i <= j
  OBVIOUS
<1> QED
  BY <1>1, <1>3, <1>4, Zenon

\* Induction, as a fact about sets of naturals.
LEMMA FromZero ==
  ASSUME NEW P \in SUBSET Nat, 0 \in P, \A n \in P : n + 1 \in P
  PROVE  P = Nat
<1> SUFFICES ASSUME Nat \ P # {} PROVE FALSE
  OBVIOUS
<1>1. Nat \ P \in SUBSET Nat
  OBVIOUS
<1>2. \E i \in Nat \ P : \A j \in Nat \ P : i <= j
  BY <1>1, LowestExists, Zenon
<1>3. PICK m \in Nat \ P : \A j \in Nat \ P : m <= j
  BY <1>2
<1>4. m # 0 /\ m - 1 \in Nat /\ ~(m <= m - 1)
  OBVIOUS
<1>5. m - 1 \in P
  BY <1>3, <1>4
<1>6. (m - 1) + 1 \in P
  BY <1>5
<1> QED
  BY <1>4, <1>6

\* What is appended to the second of two lists is appended to both.
LEMMA AppendToSecond ==
  ASSUME NEW S, NEW s \in Seq(S), NEW t \in Seq(S), NEW e \in S
  PROVE  s \o Append(t, e) = Append(s \o t, e)
<1>1. <<e>> \in Seq(S) /\ s \o t \in Seq(S)
  BY ConcatProperties
<1>2. Append(t, e) = t \o <<e>> /\ Append(s \o t, e) = (s \o t) \o <<e>>
  BY <1>1, AppendIsConcat
<1> QED
  BY <1>1, <1>2, ConcatAssociative

\* Moving the first element of one list to the end of the other keeps the two in order.
LEMMA MoveHead ==
  ASSUME NEW S, NEW s \in Seq(S), NEW t \in Seq(S), t # <<>>
  PROVE  Append(s, Head(t)) \o Tail(t) = s \o t
<1>1. Head(t) \in S /\ Tail(t) \in Seq(S)
  BY HeadTailProperties
<1>2. t = <<Head(t)>> \o Tail(t)
  BY <1>1
<1>3. <<Head(t)>> \in Seq(S)
  BY <1>1
<1>4. Append(s, Head(t)) = s \o <<Head(t)>>
  BY <1>1, AppendIsConcat
<1> QED
  BY <1>1, <1>2, <1>3, <1>4, ConcatAssociative

\* The elements of a list after one was appended.
LEMMA Appended ==
  ASSUME NEW S, NEW s \in Seq(S), NEW e \in S
  PROVE  /\ Append(s, e) \in Seq(S)
         /\ Len(s) + 1 \in DOMAIN Append(s, e) /\ Append(s, e)[Len(s) + 1] = e
         /\ \A n \in DOMAIN s : n \in DOMAIN Append(s, e) /\ Append(s, e)[n] = s[n] /\ n < Len(s) + 1
         /\ \A n \in DOMAIN Append(s, e) : n \in DOMAIN s \/ n = Len(s) + 1
OBVIOUS

\* The elements of a list after its first was taken.
LEMMA Taken ==
  ASSUME NEW S, NEW s \in Seq(S), s # <<>>
  PROVE  /\ Head(s) \in S /\ Tail(s) \in Seq(S)
         /\ 1 \in DOMAIN s /\ s[1] = Head(s)
         /\ \A n \in DOMAIN Tail(s) : n \in Nat /\ n + 1 \in DOMAIN s /\ Tail(s)[n] = s[n + 1] /\ 1 < n + 1
         /\ \A n \in DOMAIN s : n = 1 \/ (n - 1 \in DOMAIN Tail(s) /\ Tail(s)[n - 1] = s[n])
OBVIOUS

\* A list without its k-th element.
LEMMA DropAt ==
  ASSUME NEW S, NEW s \in Seq(S), NEW k \in 1..Len(s)
  PROVE  LET t == RemoveAt(s, k) IN
         /\ t \in Seq(S) /\ Len(t) = Len(s) - 1
         /\ \A i \in 1..Len(t) : t[i] = IF i < k THEN s[i] ELSE s[i + 1]
<1>1. SubSeq(s, 1, k - 1) \in Seq(S) /\ Len(SubSeq(s, 1, k - 1)) = k - 1 /\ \A i \in 1..(k - 1) : SubSeq(s, 1, k - 1)[i] = s[i]
  BY SubSeqProperties
<1>2. SubSeq(s, k + 1, Len(s)) \in Seq(S) /\ Len(SubSeq(s, k + 1, Len(s))) = Len(s) - k /\ \A i \in 1..(Len(s) - k) : SubSeq(s, k + 1, Len(s))[i] = s[k + i]
  BY SubSeqProperties
<1> DEFINE l == SubSeq(s, 1, k - 1)
           r == SubSeq(s, k + 1, Len(s))
<1>3. RemoveAt(s, k) = l \o r
  BY DEF RemoveAt
<1> HIDE DEF l, r
<1>4. /\ l \in Seq(S) /\ r \in Seq(S) /\ Len(l) = k - 1 /\ Len(r) = Len(s) - k
      /\ \A i \in 1..(k - 1) : l[i] = s[i]
      /\ \A i \in 1..(Len(s) - k) : r[i] = s[k + i]
  BY <1>1, <1>2 DEF l, r
<1>5. /\ l \o r \in Seq(S) /\ Len(l \o r) = Len(s) - 1
      /\ \A i \in 1..(Len(s) - 1) : (l \o r)[i] = IF i <= k - 1 THEN l[i] ELSE r[i - (k - 1)]
  BY <1>4, ConcatProperties
<1>6. \A i \in 1..(Len(s) - 1) : (l \o r)[i] = IF i < k THEN s[i] ELSE s[i + 1]
  <2> TAKE i \in 1..(Len(s) - 1)
  <2>1. CASE i < k
    BY <2>1, <1>4, <1>5
  <2>2. CASE ~ (i < k)
    <3>1. i - (k - 1) \in 1..(Len(s) - k) /\ k + (i - (k - 1)) = i + 1
      BY <2>2
    <3>2. r[i - (k - 1)] = s[i + 1]
      BY <3>1, <1>4
    <3> QED
      BY <2>2, <3>2, <1>5
  <2> QED
    BY <2>1, <2>2
<1> QED
  BY <1>3, <1>5, <1>6

\* RemoveFirst takes one element, the one asked for, or leaves the list alone.
LEMMA Dropped ==
  ASSUME NEW S, NEW s \in Seq(S), NEW e
  PROVE  \/ RemoveFirst(s, e) = s /\ e \notin ToSet(s)
         \/ \E k \in 1..Len(s) : s[k] = e /\ RemoveFirst(s, e) = RemoveAt(s, k)
<1>1. CASE \E i \in 1..Len(s): s[i] = e
  <2> DEFINE I == {i \in 1..Len(s) : s[i] = e}
  <2>1. \E i \in I : \A j \in I : i <= j
    <3>1. I # {} /\ I \in SUBSET Nat
      BY <1>1
    <3> QED
      BY <3>1, LowestExists, Zenon
  <2>2. SelectInSeq(s, LAMBDA v : v = e) \in I
    BY <2>1 DEF SelectInSeq, Min
  <2> QED
    BY <1>1, <2>2 DEF RemoveFirst
<1>2. CASE ~ \E i \in 1..Len(s): s[i] = e
  BY <1>2 DEF RemoveFirst, ToSet
<1> QED
  BY <1>1, <1>2

\* The list that virtio_video_pending_buf_list_del leaves of one that names nothing twice.
LEMMA Unlisted ==
  ASSUME NEW S, NEW s \in Seq(S), NEW e, \A i, j \in DOMAIN s : s[i] = s[j] => i = j
  PROVE  LET t == RemoveFirst(s, e) IN
         /\ t \in Seq(S) /\ ToSet(t) = ToSet(s) \ {e}
         /\ \A i, j \in DOMAIN t : t[i] = t[j] => i = j
<1>1. CASE RemoveFirst(s, e) = s /\ e \notin ToSet(s)
  BY <1>1
<1>2. ASSUME NEW k \in 1..Len(s), s[k] = e, RemoveFirst(s, e) = RemoveAt(s, k)
      PROVE  LET t == RemoveFirst(s, e) IN
             /\ t \in Seq(S) /\ ToSet(t) = ToSet(s) \ {e}
             /\ \A i, j \in DOMAIN t : t[i] = t[j] => i = j
  <2> DEFINE t == RemoveAt(s, k)
  <2>1. /\ t \in Seq(S) /\ Len(t) = Len(s) - 1
        /\ \A i \in 1..Len(t) : t[i] = IF i < k THEN s[i] ELSE s[i + 1]
    BY DropAt
  <2> HIDE DEF t
  <2>2. DOMAIN t = 1..Len(t) /\ DOMAIN s = 1..Len(s)
    BY <2>1
  <2>3. \A i, j \in DOMAIN t : t[i] = t[j] => i = j
    BY <2>1, <2>2
  <2>4. ToSet(t) \subseteq ToSet(s) \ {e}
    BY <1>2, <2>1, <2>2 DEF ToSet
  <2>5. ASSUME NEW x \in ToSet(s), x # e PROVE x \in ToSet(t)
    <3>1. PICK n \in 1..Len(s) : s[n] = x
      BY <2>2, <2>5 DEF ToSet
    <3>2. n < k => n \in 1..Len(t) /\ t[n] = x
      BY <3>1, <2>1
    <3>3. n > k => n - 1 \in 1..Len(t) /\ t[n - 1] = x
      BY <3>1, <2>1
    <3>4. n # k
      BY <3>1, <1>2, <2>5
    <3> QED
      BY <3>2, <3>3, <3>4, <2>2 DEF ToSet
  <2> QED
    BY <1>2, <2>1, <2>3, <2>4, <2>5 DEF t
<1> QED
  BY <1>1, <1>2, Dropped

\* SetToSeq lists every member of a finite set, once.
LEMMA Listed ==
  ASSUME NEW S, IsFiniteSet(S)
  PROVE  LET t == SetToSeq(S) IN
         /\ t \in Seq(S) /\ ToSet(t) = S
         /\ \A i, j \in DOMAIN t : t[i] = t[j] => i = j
<1> DEFINE n == Cardinality(S)
<1>1. n \in Nat
  BY FS_CardinalityType
<1>2. PICK f \in [1..n -> S] : IsInjective(f)
  <2>1. PICK f : f \in Bijection(1..n, S)
    BY FS_CardinalityType DEF ExistsBijection
  <2> QED
    BY <2>1 DEF Bijection, Injection, IsInjective
<1> DEFINE t == SetToSeq(S)
<1>3. t \in [1..n -> S] /\ IsInjective(t)
  BY <1>2 DEF SetToSeq
<1> HIDE DEF t
<1>4. IsFiniteSet(1..n) /\ Cardinality(1..n) = n
  <2>1. Cardinality(1..n) = IF 1 > n THEN 0 ELSE n - 1 + 1
    BY <1>1, FS_Interval
  <2> QED
    BY <1>1, <2>1, FS_Interval
<1> HIDE DEF n
<1>5. t \in Surjection(1..n, S)
  <2>1. t \in Injection(1..n, S)
    BY <1>3 DEF Injection
  <2> QED
    BY <2>1, <1>4, FS_Injection DEF n
<1>6. t \in Seq(S) /\ DOMAIN t = 1..n
  BY <1>1, <1>3
<1>7. ToSet(t) = S
  BY <1>3, <1>5, <1>6 DEF Surjection, ToSet
<1>8. \A i, j \in DOMAIN t : t[i] = t[j] => i = j
  BY <1>3 DEF IsInjective
<1> QED
  BY <1>6, <1>7, <1>8 DEF t

\* A list that names nothing twice, followed by another one that names other things.
LEMMA Joined ==
  ASSUME NEW S, NEW s \in Seq(S), NEW t \in Seq(S), ToSet(s) \cap ToSet(t) = {},
         \A i, j \in DOMAIN s : s[i] = s[j] => i = j,
         \A i, j \in DOMAIN t : t[i] = t[j] => i = j
  PROVE  /\ s \o t \in Seq(S) /\ ToSet(s \o t) = ToSet(s) \cup ToSet(t)
         /\ \A i, j \in DOMAIN (s \o t) : (s \o t)[i] = (s \o t)[j] => i = j
<1> DEFINE c == s \o t
<1>1. /\ c \in Seq(S) /\ Len(c) = Len(s) + Len(t)
      /\ \A i \in 1..(Len(s) + Len(t)) : c[i] = IF i <= Len(s) THEN s[i] ELSE t[i - Len(s)]
  BY ConcatProperties
<1> HIDE DEF c
<1>2. DOMAIN c = 1..(Len(s) + Len(t)) /\ DOMAIN s = 1..Len(s) /\ DOMAIN t = 1..Len(t)
  BY <1>1
<1>3. \A i \in DOMAIN s : i \in DOMAIN c /\ c[i] = s[i]
  BY <1>1, <1>2
<1>4. \A i \in DOMAIN t : Len(s) + i \in DOMAIN c /\ c[Len(s) + i] = t[i]
  BY <1>1, <1>2
<1>5. \A i \in DOMAIN c : \/ i \in DOMAIN s /\ c[i] = s[i]
                          \/ i - Len(s) \in DOMAIN t /\ c[i] = t[i - Len(s)]
  BY <1>1, <1>2
<1>6. ToSet(c) = ToSet(s) \cup ToSet(t)
  BY <1>3, <1>4, <1>5 DEF ToSet
<1>7. \A i, j \in DOMAIN c : c[i] = c[j] => i = j
  <2> TAKE i, j \in DOMAIN c
  <2> HAVE c[i] = c[j]
  <2>1. c[i] \in ToSet(s) => c[i] \notin ToSet(t)
    OBVIOUS
  <2>2. CASE i \in DOMAIN s /\ c[i] = s[i] /\ j \in DOMAIN s /\ c[j] = s[j]
    BY <2>2
  <2>3. CASE i - Len(s) \in DOMAIN t /\ c[i] = t[i - Len(s)] /\ j - Len(s) \in DOMAIN t /\ c[j] = t[j - Len(s)]
    <3>1. i - Len(s) = j - Len(s)
      BY <2>3
    <3> QED
      BY <3>1, <1>2
  <2>4. CASE i \in DOMAIN s /\ c[i] = s[i] /\ j - Len(s) \in DOMAIN t /\ c[j] = t[j - Len(s)]
    BY <2>1, <2>4 DEF ToSet
  <2>5. CASE i - Len(s) \in DOMAIN t /\ c[i] = t[i - Len(s)] /\ j \in DOMAIN s /\ c[j] = s[j]
    BY <2>1, <2>5 DEF ToSet
  <2> QED
    BY <1>5, <2>2, <2>3, <2>4, <2>5
<1> QED
  BY <1>1, <1>6, <1>7 DEF c
=============================================================================

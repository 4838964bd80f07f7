--------------------------- MODULE SequenceCounts ---------------------------
(***************************************************************************)
(* Facts about queues: how many entries belong to a set, and what the      *)
(* operations (push, pop, replace, split, join, select) do to that number; *)
(* what all entries have; folds over a queue; spans; the queues of a       *)
(* channel, and the tables of lru_table.                                   *)
(***************************************************************************)
EXTENDS Channel, LRUTable, Integers, FiniteSets, SequenceTheorems, FiniteSetTheorems,
        WellFoundedInduction, TLAPS

Places(s, D) == {i \in DOMAIN s : s[i] \in D}

Count(s, D) == Cardinality(Places(s, D))

One(b) == IF b THEN 1 ELSE 0

\* The order of the naturals is well founded.
LEMMA NatOrder ==
  \E R : IsWellFoundedOn(R, Nat) /\ \A x, y \in Nat : y < x => <<y, x>> \in R
<1>1. IsWellFoundedOn(OpToRel(<, Nat), Nat)
  BY NatLessThanWellFounded, Zenon
<1>2. \A x, y \in Nat : y < x => <<y, x>> \in OpToRel(<, Nat)
  BY Zenon DEF OpToRel
<1>3. QED
  BY <1>1, <1>2, Zenon

\* A non-empty set of naturals has a smallest element.
LEMMA SmallestOf ==
  ASSUME NEW T, T \subseteq Nat, T # {}
  PROVE  \E x \in T : \A y \in T : x <= y
<1>1. PICK R : IsWellFoundedOn(R, Nat) /\ \A x, y \in Nat : y < x => <<y, x>> \in R
  BY NatOrder
<1>2. PICK x \in T : \A y \in T : ~ (<<y, x>> \in R)
  BY <1>1, WFMin
<1>3. \A y \in T : x <= y
  <2> SUFFICES ASSUME NEW y \in T PROVE x <= y
    OBVIOUS
  <2>1. x \in Nat /\ y \in Nat
    OBVIOUS
  <2>2. ~ (y < x)
    BY <1>1, <1>2, <2>1, Zenon
  <2>3. QED
    BY <2>1, <2>2
<1>4. QED
  BY <1>3

\* A function on 1 .. n is a sequence of length n.
LEMMA FunctionIsSequence ==
  ASSUME NEW S, NEW n \in Nat, NEW f \in [1 .. n -> S]
  PROVE  f \in Seq(S) /\ Len(f) = n
<1>1. f \in Seq(S)
  BY SeqDef
<1>2. QED
  BY <1>1, LenProperties

\* There are n numbers from 1 to n.
LEMMA FirstNumbers ==
  ASSUME NEW n \in Nat
  PROVE  IsFiniteSet(1 .. n) /\ Cardinality(1 .. n) = n
<1>1. 1 \in Int /\ n \in Int
  OBVIOUS
<1>2. IsFiniteSet(1 .. n) /\ Cardinality(1 .. n) = IF 1 > n THEN 0 ELSE n - 1 + 1
  BY <1>1, FS_Interval
<1>3. QED
  BY <1>2

\* A count is a number, and at most the length.
LEMMA CountType ==
  ASSUME NEW T, NEW s \in Seq(T), NEW D
  PROVE  /\ IsFiniteSet(Places(s, D))
         /\ Count(s, D) \in Nat
         /\ Count(s, D) <= Len(s)
<1>1. Places(s, D) \in SUBSET (1 .. Len(s)) /\ Len(s) \in Nat
  BY LenProperties DEF Places
<1>2. IsFiniteSet(1 .. Len(s)) /\ Cardinality(1 .. Len(s)) = Len(s)
  BY <1>1, FirstNumbers
<1>3. IsFiniteSet(Places(s, D)) /\ Cardinality(Places(s, D)) <= Len(s)
  BY <1>1, <1>2, FS_Subset
<1>4. QED
  BY <1>3, FS_CardinalityType DEF Count

\* Nothing is counted in an empty sequence.
LEMMA CountEmpty ==
  ASSUME NEW D
  PROVE  Count(<< >>, D) = 0
<1>1. Places(<< >>, D) = {}
  BY DEF Places
<1>2. QED
  BY <1>1, FS_EmptySet DEF Count

\* A count is zero when no entry belongs, and at most one when no two do.
LEMMA CountZero ==
  ASSUME NEW T, NEW s \in Seq(T), NEW D
  PROVE  Count(s, D) = 0 <=> \A i \in 1 .. Len(s) : s[i] \notin D
<1>1. IsFiniteSet(Places(s, D)) /\ DOMAIN s = 1 .. Len(s)
  BY CountType, LenProperties
<1>2. Count(s, D) = 0 <=> Places(s, D) = {}
  BY <1>1, FS_EmptySet DEF Count
<1>3. QED
  BY <1>1, <1>2 DEF Places

\* When every entry belongs, the count is the length.
LEMMA CountAll ==
  ASSUME NEW T, NEW s \in Seq(T), NEW D,
         \A i \in 1 .. Len(s) : s[i] \in D
  PROVE  Count(s, D) = Len(s)
<1>1. Places(s, D) = 1 .. Len(s) /\ Len(s) \in Nat
  BY LenProperties DEF Places
<1>2. QED
  BY <1>1, FirstNumbers DEF Count

\* The count of a sequence of one entry.
LEMMA CountSingle ==
  ASSUME NEW T, NEW s \in Seq(T), NEW D, Len(s) = 1
  PROVE  Count(s, D) = One(s[1] \in D)
<1>1. \A i \in 1 .. Len(s) : i = 1
  OBVIOUS
<1>2. CASE s[1] \in D
  <2>1. Count(s, D) = Len(s)
    BY <1>1, <1>2, CountAll
  <2>2. QED
    BY <2>1, <1>2 DEF One
<1>3. CASE s[1] \notin D
  <2>1. Count(s, D) = 0
    BY <1>1, <1>3, CountZero
  <2>2. QED
    BY <2>1, <1>3 DEF One
<1>4. QED
  BY <1>2, <1>3

\* Two sequences whose entries belong alike.
LEMMA CountAlike ==
  ASSUME NEW S, NEW s \in Seq(S), NEW T, NEW t \in Seq(T), NEW D, NEW E,
         Len(s) = Len(t),
         \A i \in 1 .. Len(s) : s[i] \in D <=> t[i] \in E
  PROVE  Count(s, D) = Count(t, E)
<1>1. DOMAIN s = 1 .. Len(s) /\ DOMAIN t = 1 .. Len(s)
  BY LenProperties
<1>2. Places(s, D) = Places(t, E)
  BY <1>1 DEF Places
<1>3. QED
  BY <1>2 DEF Count

\* More belong when the set is larger.
LEMMA CountMonotone ==
  ASSUME NEW S, NEW s \in Seq(S), NEW T, NEW t \in Seq(T), NEW D, NEW E,
         Len(s) = Len(t),
         \A i \in 1 .. Len(s) : s[i] \in D => t[i] \in E
  PROVE  Count(s, D) <= Count(t, E)
<1>1. DOMAIN s = 1 .. Len(s) /\ DOMAIN t = 1 .. Len(s)
  BY LenProperties
<1>2. Places(s, D) \in SUBSET Places(t, E)
  BY <1>1 DEF Places
<1>3. IsFiniteSet(Places(t, E))
  BY CountType
<1>4. QED
  BY <1>2, <1>3, FS_Subset DEF Count

\* An entry put at the end adds one if it belongs.
LEMMA CountAppend ==
  ASSUME NEW T, NEW s \in Seq(T), NEW x \in T, NEW D
  PROVE  Count(Append(s, x), D) = Count(s, D) + One(x \in D)
<1> DEFINE t == Append(s, x)
           n == Len(s)
<1>1. /\ t \in Seq(T) /\ Len(t) = n + 1 /\ n \in Nat
      /\ \A i \in 1 .. n : t[i] = s[i]
      /\ t[n + 1] = x
  BY AppendProperties, LenProperties
<1>2. DOMAIN s = 1 .. n /\ DOMAIN t = 1 .. n + 1
  BY <1>1, LenProperties
<1> HIDE DEF t, n
<1>3. 1 .. n + 1 = (1 .. n) \cup {n + 1} /\ n + 1 \notin 1 .. n
  BY <1>1
<1>4. IsFiniteSet(Places(s, D)) /\ n + 1 \notin Places(s, D)
  BY <1>2, <1>3, CountType DEF Places
<1>5. CASE x \in D
  <2>1. Places(t, D) = Places(s, D) \cup {n + 1}
    BY <1>1, <1>2, <1>3, <1>5 DEF Places
  <2>2. Cardinality(Places(t, D)) = Cardinality(Places(s, D)) + 1
    BY <1>4, <2>1, FS_AddElement
  <2>3. QED
    BY <2>2, <1>5 DEF Count, One, t
<1>6. CASE x \notin D
  <2>1. Places(t, D) = Places(s, D)
    BY <1>1, <1>2, <1>3, <1>6 DEF Places
  <2>2. Count(s, D) \in Nat
    BY CountType
  <2>3. QED
    BY <2>1, <2>2, <1>6 DEF Count, One, t
<1>7. QED
  BY <1>5, <1>6

\* The count of two sequences one after the other.
LEMMA CountJoined ==
  ASSUME NEW T, NEW s \in Seq(T), NEW t \in Seq(T), NEW D
  PROVE  Count(s \o t, D) = Count(s, D) + Count(t, D)
<1> DEFINE st == s \o t
           m == Len(s)
           n == Len(t)
           late == {i \in m + 1 .. m + n : st[i] \in D}
<1>1. /\ st \in Seq(T) /\ m \in Nat /\ n \in Nat /\ Len(st) = m + n
      /\ \A i \in 1 .. m + n : st[i] = IF i <= m THEN s[i] ELSE t[i - m]
  BY ConcatProperties, LenProperties
<1>2. DOMAIN s = 1 .. m /\ DOMAIN t = 1 .. n /\ DOMAIN st = 1 .. m + n
  BY <1>1, LenProperties
<1> HIDE DEF st, m, n
<1>3. Places(st, D) = Places(s, D) \cup late
  BY <1>1, <1>2 DEF Places
<1>4. Places(s, D) \cap late = {}
  BY <1>1, <1>2 DEF Places
<1>5. IsFiniteSet(Places(s, D)) /\ IsFiniteSet(Places(t, D))
  BY CountType
<1>6. ExistsBijection(Places(t, D), late)
  <2> DEFINE f == [j \in Places(t, D) |-> j + m]
  <2>1. f \in [Places(t, D) -> late]
    BY <1>1, <1>2 DEF Places
  <2>2. ASSUME NEW i \in Places(t, D), NEW j \in Places(t, D), f[i] = f[j]
        PROVE  i = j
    BY <2>2, <1>1, <1>2 DEF Places
  <2>3. ASSUME NEW k \in late
        PROVE  \E j \in Places(t, D) : f[j] = k
    <3>1. k - m \in Places(t, D)
      BY <1>1, <1>2 DEF Places
    <3>2. f[k - m] = k
      BY <3>1, <1>1
    <3>3. QED
      BY <3>1, <3>2
  <2> HIDE DEF f, late
  <2>4. f \in Bijection(Places(t, D), late)
    <3>1. IsInjective(f)
      BY <2>1, <2>2 DEF IsInjective
    <3>2. QED
      BY <3>1, <2>1, <2>3 DEF Bijection, Injection, Surjection
  <2>5. QED
    BY <2>4 DEF ExistsBijection
<1>7. IsFiniteSet(late) /\ Cardinality(late) = Cardinality(Places(t, D))
  BY <1>5, <1>6, FS_Bijection
<1>8. Cardinality(Places(st, D)) =
         Cardinality(Places(s, D)) + Cardinality(late) - Cardinality({})
  <2> HIDE DEF late
  <2>1. QED
    BY <1>3, <1>4, <1>5, <1>7, FS_Union
<1>9. Cardinality({}) = 0 /\ Count(s, D) \in Nat /\ Count(t, D) \in Nat
  BY FS_EmptySet, CountType
<1>10. Cardinality(Places(st, D)) = Cardinality(Places(s, D)) + Cardinality(Places(t, D))
  <2> HIDE DEF late
  <2>1. QED
    BY <1>7, <1>8, <1>9 DEF Count
<1>11. QED
  BY <1>10 DEF Count, st

\* A sequence cut in two.
LEMMA CountSplit ==
  ASSUME NEW T, NEW s \in Seq(T), NEW n \in 0 .. Len(s), NEW D
  PROVE  /\ SubSeq(s, 1, n) \in Seq(T) /\ Len(SubSeq(s, 1, n)) = n
         /\ SubSeq(s, n + 1, Len(s)) \in Seq(T)
         /\ Len(SubSeq(s, n + 1, Len(s))) = Len(s) - n
         /\ \A i \in 1 .. n : SubSeq(s, 1, n)[i] = s[i]
         /\ \A i \in 1 .. Len(s) - n : SubSeq(s, n + 1, Len(s))[i] = s[n + i]
         /\ Count(s, D) = Count(SubSeq(s, 1, n), D) + Count(SubSeq(s, n + 1, Len(s)), D)
<1> DEFINE a == SubSeq(s, 1, n)
           b == SubSeq(s, n + 1, Len(s))
<1>1. Len(s) \in Nat /\ s \in [1 .. Len(s) -> T]
  BY LenProperties
<1>2. /\ a \in Seq(T) /\ Len(a) = n
      /\ \A i \in 1 .. n : a[i] = s[i]
  <2>1. n \in Int /\ 1 \in Int /\ \A i \in 1 .. n : s[i] \in T
    BY <1>1
  <2>2. /\ a \in Seq(T) /\ Len(a) = IF 1 <= n THEN n - 1 + 1 ELSE 0
        /\ \A i \in 1 .. n - 1 + 1 : a[i] = s[1 + i - 1]
    BY <2>1, SubSeqProperties
  <2> HIDE DEF a
  <2>3. QED
    BY <2>1, <2>2, <1>1
<1>3. /\ b \in Seq(T) /\ Len(b) = Len(s) - n
      /\ \A i \in 1 .. Len(s) - n : b[i] = s[n + i]
  <2>1. n + 1 \in Int /\ Len(s) \in Int /\ \A i \in n + 1 .. Len(s) : s[i] \in T
    BY <1>1
  <2>2. /\ b \in Seq(T)
        /\ Len(b) = IF n + 1 <= Len(s) THEN Len(s) - (n + 1) + 1 ELSE 0
        /\ \A i \in 1 .. Len(s) - (n + 1) + 1 : b[i] = s[(n + 1) + i - 1]
    BY <2>1, SubSeqProperties
  <2> HIDE DEF b
  <2>3. /\ n \in Nat /\ n <= Len(s)
        /\ \A i \in 1 .. Len(s) - n : i \in 1 .. Len(s) - (n + 1) + 1 /\ (n + 1) + i - 1 = n + i
    BY <1>1
  <2>4. \A i \in 1 .. Len(s) - n : b[i] = s[n + i]
    BY <2>2, <2>3
  <2>5. Len(b) = Len(s) - n
    <3>1. CASE n + 1 <= Len(s)
      BY <3>1, <2>2, <2>3, <1>1
    <3>2. CASE ~(n + 1 <= Len(s))
      <4>1. n = Len(s)
        <5>1. \A k, m \in Nat : k <= m /\ ~(k + 1 <= m) => k = m
          OBVIOUS
        <5>2. QED
          BY <5>1, <3>2, <2>3, <1>1, Zenon
      <4>2. Len(b) = 0
        BY <3>2, <2>2
      <4>3. QED
        BY <4>1, <4>2, <1>1
    <3>3. QED
      BY <3>1, <3>2
  <2>6. QED
    BY <2>2, <2>4, <2>5
<1>4. a \o b = s
  <2>1. a \o b = SubSeq(s, 1, Len(s))
    <3>1. 1 \in 1 .. Len(s) + 1 /\ n \in 1 - 1 .. Len(s) /\ Len(s) \in n .. Len(s)
      BY <1>1
    <3>2. QED
      BY <3>1, ConcatAdjacentSubSeq
  <2>2. QED
    BY <2>1, SubSeqFull
<1>5. Count(s, D) = Count(a, D) + Count(b, D)
  <2> HIDE DEF a, b
  <2>1. QED
    BY <1>2, <1>3, <1>4, CountJoined
<1>6. QED
  BY <1>2, <1>3, <1>5

\* One more of the first entries.
LEMMA CountUpTo ==
  ASSUME NEW T, NEW s \in Seq(T), NEW k \in 1 .. Len(s), NEW D
  PROVE  /\ SubSeq(s, 1, k) \in Seq(T) /\ SubSeq(s, 1, k - 1) \in Seq(T)
         /\ Count(SubSeq(s, 1, k), D) = Count(SubSeq(s, 1, k - 1), D) + One(s[k] \in D)
<1>1. Len(s) \in Nat /\ k \in 0 .. Len(s) /\ k - 1 \in 0 .. Len(s) /\ s[k] \in T
  BY LenProperties
<1>2. SubSeq(s, 1, k) \in Seq(T) /\ SubSeq(s, 1, k - 1) \in Seq(T)
  BY <1>1, CountSplit
<1>3. SubSeq(s, 1, k) = SubSeq(s, 1, k - 1) \o << s[k] >>
  <2>1. 1 \in 1 .. Len(s) /\ k \in 1 .. Len(s)
    BY <1>1
  <2>2. QED
    BY <2>1, SubSeqRecursiveSecond
<1>4. << s[k] >> \in Seq(T) /\ Count(<< s[k] >>, D) = One(s[k] \in D)
  <2> DEFINE t == << s[k] >>
  <2>1. t \in Seq(T) /\ Len(t) = 1 /\ t[1] = s[k]
    BY <1>1
  <2> HIDE DEF t
  <2>2. Count(t, D) = One(s[k] \in D)
    BY <2>1, CountSingle
  <2>3. QED
    BY <2>1, <2>2 DEF t
<1>5. QED
  <2> DEFINE a == SubSeq(s, 1, k - 1)
             t == << s[k] >>
  <2> HIDE DEF a, t
  <2>1. Count(a \o t, D) = Count(a, D) + Count(t, D)
    BY <1>2, <1>4, CountJoined DEF a, t
  <2>2. QED
    BY <1>2, <1>3, <1>4, <2>1 DEF a, t

\* The entry in front leaves.
LEMMA CountTail ==
  ASSUME NEW T, NEW s \in Seq(T), s # << >>, NEW D
  PROVE  /\ Tail(s) \in Seq(T) /\ Len(Tail(s)) = Len(s) - 1
         /\ Len(s) \in Nat \ {0} /\ Head(s) = s[1] /\ Head(s) \in T
         /\ \A i \in 1 .. Len(s) - 1 : Tail(s)[i] = s[i + 1]
         /\ Count(s, D) = One(Head(s) \in D) + Count(Tail(s), D)
<1>1. /\ Tail(s) \in Seq(T) /\ Len(Tail(s)) = Len(s) - 1 /\ Head(s) \in T
      /\ \A i \in 1 .. Len(Tail(s)) : Tail(s)[i] = s[i + 1]
      /\ Len(s) \in Nat \ {0} /\ Head(s) = s[1]
  BY HeadTailProperties, EmptySeq
<1>2. 1 \in 0 .. Len(s) /\ Tail(s) = SubSeq(s, 1 + 1, Len(s))
  BY <1>1, TailIsSubSeq
<1>3. /\ SubSeq(s, 1, 1) \in Seq(T) /\ Len(SubSeq(s, 1, 1)) = 1
      /\ SubSeq(s, 1, 1)[1] = Head(s)
      /\ Count(s, D) = Count(SubSeq(s, 1, 1), D) + Count(Tail(s), D)
  <2>1. /\ SubSeq(s, 1, 1) \in Seq(T) /\ Len(SubSeq(s, 1, 1)) = 1
        /\ \A i \in 1 .. 1 : SubSeq(s, 1, 1)[i] = s[i]
        /\ Count(s, D) = Count(SubSeq(s, 1, 1), D) + Count(SubSeq(s, 1 + 1, Len(s)), D)
    BY <1>2, CountSplit
  <2>2. SubSeq(s, 1, 1)[1] = s[1]
    BY <2>1
  <2>3. QED
    BY <2>1, <2>2, <1>1, <1>2, Zenon
<1>4. Count(SubSeq(s, 1, 1), D) = One(Head(s) \in D)
  BY <1>3, CountSingle
<1>5. QED
  BY <1>1, <1>3, <1>4

\* One entry is replaced.
LEMMA CountReplaced ==
  ASSUME NEW T, NEW s \in Seq(T), NEW k \in 1 .. Len(s), NEW x \in T, NEW D
  PROVE  /\ [s EXCEPT ![k] = x] \in Seq(T)
         /\ Len([s EXCEPT ![k] = x]) = Len(s)
         /\ \A i \in 1 .. Len(s) :
               [s EXCEPT ![k] = x][i] = IF i = k THEN x ELSE s[i]
         /\ Count([s EXCEPT ![k] = x], D) + One(s[k] \in D) = Count(s, D) + One(x \in D)
<1> DEFINE t == [s EXCEPT ![k] = x]
           rest == Places(s, D) \ {k}
<1>1. /\ t \in Seq(T) /\ Len(t) = Len(s)
      /\ \A i \in 1 .. Len(s) : t[i] = IF i = k THEN x ELSE s[i]
  BY ExceptSeq
<1>2. DOMAIN s = 1 .. Len(s) /\ DOMAIN t = 1 .. Len(s)
  BY <1>1, LenProperties
<1> HIDE DEF t
<1>3. rest = Places(t, D) \ {k}
  BY <1>1, <1>2 DEF Places
<1>4. /\ IsFiniteSet(Places(s, D)) /\ IsFiniteSet(Places(t, D))
      /\ Count(s, D) \in Nat /\ Count(t, D) \in Nat
  BY <1>1, CountType
<1>5. Cardinality(rest) = Count(s, D) - One(s[k] \in D)
  <2>1. Cardinality(rest) =
           IF k \in Places(s, D) THEN Cardinality(Places(s, D)) - 1
                                 ELSE Cardinality(Places(s, D))
    BY <1>4, FS_RemoveElement
  <2>2. k \in Places(s, D) <=> s[k] \in D
    BY <1>2 DEF Places
  <2>3. QED
    BY <2>1, <2>2, <1>4 DEF Count, One
<1>6. Cardinality(rest) = Count(t, D) - One(x \in D)
  <2>1. Cardinality(rest) =
           IF k \in Places(t, D) THEN Cardinality(Places(t, D)) - 1
                                 ELSE Cardinality(Places(t, D))
    BY <1>3, <1>4, FS_RemoveElement
  <2>2. k \in Places(t, D) <=> x \in D
    BY <1>1, <1>2 DEF Places
  <2>3. QED
    BY <2>1, <2>2, <1>4 DEF Count, One
<1>7. One(s[k] \in D) \in Nat /\ One(x \in D) \in Nat
  BY DEF One
<1>8. Count(t, D) + One(s[k] \in D) = Count(s, D) + One(x \in D)
  BY <1>4, <1>5, <1>6, <1>7
<1>9. QED
  BY <1>1, <1>8 DEF t

\* Entries leave in front and others, that belong alike, appear elsewhere.
LEMMA CountTaken ==
  ASSUME NEW S, NEW s \in Seq(S), NEW n \in 0 .. Len(s), NEW T, NEW t \in Seq(T), Len(t) = n,
         NEW D, NEW E, \A j \in 1 .. n : t[j] \in D <=> s[j] \in E
  PROVE  /\ SubSeq(s, n + 1, Len(s)) \in Seq(S)
         /\ Count(s, E) = Count(t, D) + Count(SubSeq(s, n + 1, Len(s)), E)
<1> DEFINE a == SubSeq(s, 1, n)
           b == SubSeq(s, n + 1, Len(s))
<1>1. /\ a \in Seq(S) /\ Len(a) = n /\ b \in Seq(S)
      /\ \A j \in 1 .. n : a[j] = s[j]
      /\ Count(s, E) = Count(a, E) + Count(b, E)
  BY CountSplit
<1> HIDE DEF a, b
<1>2. Count(t, D) = Count(a, E)
  <2>1. Len(t) = Len(a) /\ \A j \in 1 .. Len(t) : t[j] \in D <=> a[j] \in E
    BY <1>1
  <2>2. QED
    BY <1>1, <2>1, CountAlike
<1>3. QED
  BY <1>1, <1>2 DEF b

-----------------------------------------------------------------------------
(* Sequences all of whose entries belong to a set. *)

Every(s, D) == \A i \in 1 .. Len(s) : s[i] \in D

\* Larger sets hold them too.
LEMMA EveryWider ==
  ASSUME NEW s, NEW D, NEW E, Every(s, D), \A x : x \in D => x \in E
  PROVE  Every(s, E)
BY DEF Every

\* No entry, nothing to show.
LEMMA EveryEmpty ==
  ASSUME NEW D
  PROVE  Every(<< >>, D)
BY DEF Every

\* One sequence after the other.
LEMMA EveryJoined ==
  ASSUME NEW T, NEW s \in Seq(T), NEW t \in Seq(T), NEW D, Every(s, D), Every(t, D)
  PROVE  Every(s \o t, D)
<1> DEFINE st == s \o t
<1>1. /\ Len(st) = Len(s) + Len(t) /\ Len(s) \in Nat /\ Len(t) \in Nat
      /\ \A i \in 1 .. Len(s) + Len(t) : st[i] = IF i <= Len(s) THEN s[i] ELSE t[i - Len(s)]
  BY ConcatProperties, LenProperties
<1> HIDE DEF st
<1>2. ASSUME NEW i \in 1 .. Len(st)
      PROVE  st[i] \in D
  <2>1. CASE i <= Len(s)
    <3>1. i \in 1 .. Len(s) /\ st[i] = s[i]
      BY <1>1, <2>1
    <3>2. QED
      BY <3>1 DEF Every
  <2>2. CASE ~(i <= Len(s))
    <3>1. i - Len(s) \in 1 .. Len(t) /\ st[i] = t[i - Len(s)]
      BY <1>1, <2>2
    <3>2. QED
      BY <3>1 DEF Every
  <2>3. QED
    BY <2>1, <2>2
<1>3. QED
  BY <1>2 DEF Every, st

\* One entry more.
LEMMA EveryAppend ==
  ASSUME NEW T, NEW s \in Seq(T), NEW x \in T, NEW D, Every(s, D), x \in D
  PROVE  Every(Append(s, x), D)
<1>1. /\ Len(Append(s, x)) = Len(s) + 1 /\ Len(s) \in Nat
      /\ \A i \in 1 .. Len(s) : Append(s, x)[i] = s[i]
      /\ Append(s, x)[Len(s) + 1] = x
  BY AppendProperties, LenProperties
<1>2. \A i \in 1 .. Len(s) + 1 : i \in 1 .. Len(s) \/ i = Len(s) + 1
  BY <1>1
<1>3. QED
  BY <1>1, <1>2 DEF Every

\* Entries that all come from a sequence.
LEMMA EveryFrom ==
  ASSUME NEW s, NEW t, NEW D, Every(s, D),
         \A i \in 1 .. Len(t) : \E j \in 1 .. Len(s) : t[i] = s[j]
  PROVE  Every(t, D)
BY DEF Every

\* The entries after the first.
LEMMA EveryTail ==
  ASSUME NEW T, NEW s \in Seq(T), s # << >>, NEW D, Every(s, D)
  PROVE  Every(Tail(s), D) /\ s[1] \in D
<1>1. /\ Len(Tail(s)) = Len(s) - 1 /\ Len(s) \in Nat \ {0}
      /\ \A i \in 1 .. Len(s) - 1 : Tail(s)[i] = s[i + 1]
  BY CountTail
<1>2. \A i \in 1 .. Len(s) - 1 : i + 1 \in 1 .. Len(s)
  BY <1>1
<1>3. 1 \in 1 .. Len(s)
  BY <1>1
<1>4. QED
  BY <1>1, <1>2, <1>3 DEF Every

\* The first entries, and the others.
LEMMA EverySplit ==
  ASSUME NEW T, NEW s \in Seq(T), NEW n \in 0 .. Len(s), NEW D, Every(s, D)
  PROVE  Every(SubSeq(s, 1, n), D) /\ Every(SubSeq(s, n + 1, Len(s)), D)
<1>1. /\ Len(SubSeq(s, 1, n)) = n /\ Len(SubSeq(s, n + 1, Len(s))) = Len(s) - n
      /\ \A i \in 1 .. n : SubSeq(s, 1, n)[i] = s[i]
      /\ \A i \in 1 .. Len(s) - n : SubSeq(s, n + 1, Len(s))[i] = s[n + i]
      /\ Len(s) \in Nat
  BY CountSplit, LenProperties
<1>2. \A i \in 1 .. n : i \in 1 .. Len(s)
  BY <1>1
<1>3. \A i \in 1 .. Len(s) - n : n + i \in 1 .. Len(s)
  BY <1>1
<1>4. QED
  BY <1>1, <1>2, <1>3 DEF Every

\* One entry replaced.
LEMMA EveryReplaced ==
  ASSUME NEW T, NEW s \in Seq(T), NEW k \in 1 .. Len(s), NEW x \in T, NEW D,
         Every(s, D), x \in D
  PROVE  Every([s EXCEPT ![k] = x], D)
<1>1. /\ Len([s EXCEPT ![k] = x]) = Len(s)
      /\ \A i \in 1 .. Len(s) : [s EXCEPT ![k] = x][i] = IF i = k THEN x ELSE s[i]
  BY CountReplaced
<1>2. QED
  BY <1>1 DEF Every

-----------------------------------------------------------------------------
(* Folds.  A fold over a queue passes through a value for each place. *)

\* What holds of 0, and of a number when it does of the one before, holds up to n.
LEMMA UpTo ==
  ASSUME NEW n \in Nat, NEW S, 0 \in S, \A k \in 1 .. n : k - 1 \in S => k \in S
  PROVE  \A k \in 0 .. n : k \in S
<1> SUFFICES ASSUME NEW m \in 0 .. n, m \notin S
             PROVE  FALSE
  OBVIOUS
<1>1. PICK x \in {k \in 0 .. n : k \notin S} : \A y \in {k \in 0 .. n : k \notin S} : x <= y
  <2>1. {k \in 0 .. n : k \notin S} \subseteq Nat
    OBVIOUS
  <2>2. QED
    BY <2>1, SmallestOf
<1>2. x \in 1 .. n /\ x - 1 \in 0 .. n
  BY <1>1
<1>3. x - 1 \in S
  BY <1>1, <1>2
<1>4. QED
  BY <1>1, <1>2, <1>3

\* Of some of the first numbers, ordered by R, one comes first.
LEMMA LeastOf ==
  ASSUME NEW n \in Nat, NEW S \in SUBSET (1 .. n), S # {}, NEW R,
         \A i \in S : \A j \in S : <<i, j>> \in R \/ <<j, i>> \in R,
         \A i \in S : \A j \in S : \A k \in S : <<i, j>> \in R /\ <<j, k>> \in R => <<i, k>> \in R
  PROVE  \E i \in S : \A j \in S : <<i, j>> \in R
<1> DEFINE First(k) == S \cap (1 .. k)
           T == {k \in 0 .. n : First(k) # {} =>
                                   \E i \in First(k) : \A j \in First(k) : <<i, j>> \in R}
<1>1. 0 \in T
  OBVIOUS
<1>2. ASSUME NEW k \in 1 .. n, k - 1 \in T
      PROVE  k \in T
  <2>1. CASE k \notin S
    <3>1. First(k) = First(k - 1)
      BY <2>1
    <3> HIDE DEF First
    <3>2. QED
      BY <1>2, <3>1
  <2>2. CASE k \in S
    <3>1. First(k) = First(k - 1) \cup {k} /\ First(k - 1) \subseteq S /\ First(k) \subseteq S
      BY <2>2
    <3> HIDE DEF First
    <3>2. <<k, k>> \in R
      BY <2>2
    <3>3. CASE First(k - 1) = {}
      BY <3>1, <3>2, <3>3
    <3>4. CASE First(k - 1) # {}
      <4>1. PICK i \in First(k - 1) : \A j \in First(k - 1) : <<i, j>> \in R
        BY <1>2, <3>4
      <4>2. CASE <<i, k>> \in R
        BY <3>1, <4>1, <4>2
      <4>3. CASE <<k, i>> \in R
        <5>1. \A j \in First(k - 1) : <<k, j>> \in R
          BY <2>2, <3>1, <4>1, <4>3
        <5>2. QED
          BY <3>1, <3>2, <5>1
      <4>4. QED
        BY <2>2, <3>1, <4>1, <4>2, <4>3
    <3>5. QED
      BY <3>3, <3>4
  <2>3. QED
    BY <2>1, <2>2
<1> HIDE DEF T
<1>3. n \in T
  <2>1. \A k \in 1 .. n : k - 1 \in T => k \in T
    BY <1>2
  <2>2. \A k \in 0 .. n : k \in T
    BY <1>1, <2>1, UpTo
  <2>3. QED
    BY <2>2
<1>4. First(n) = S
  OBVIOUS
<1> HIDE DEF First
<1>5. QED
  BY <1>3, <1>4 DEF T

\* The greatest of a set, as the library's Max.
Top(S) == CHOOSE x \in S : \A y \in S : x >= y

\* The greatest of some of the first numbers.
LEMMA TopOf ==
  ASSUME NEW n \in Nat, NEW S \in SUBSET (1 .. n), S # {}
  PROVE  Top(S) \in S /\ \A y \in S : Top(S) >= y
<1>1. \E x \in S : \A y \in S : x >= y
  <2> DEFINE L == {n - y : y \in S}
  <2>1. L \subseteq Nat /\ L # {}
    <3>1. \A y \in S : n - y \in Nat
      OBVIOUS
    <3>2. PICK y : y \in S
      OBVIOUS
    <3>3. n - y \in L
      BY <3>2
    <3>4. QED
      BY <3>1, <3>3
  <2>2. PICK l \in L : \A k \in L : l <= k
    BY <2>1, SmallestOf
  <2>3. PICK x \in S : l = n - x
    BY <2>2
  <2>4. \A y \in S : n - x <= n - y
    BY <2>2, <2>3
  <2>5. QED
    BY <2>3, <2>4
<1>2. QED
  BY <1>1 DEF Top

\* The first k numbers without the last of them.
LEMMA TopOfFirst ==
  ASSUME NEW k \in Nat \ {0}
  PROVE  Top(1 .. k) = k /\ (1 .. k) \ {k} = 1 .. k - 1 /\ 1 .. k # {}
<1>1. k \in 1 .. k
  OBVIOUS
<1>2. Top(1 .. k) \in 1 .. k /\ \A y \in 1 .. k : Top(1 .. k) >= y
  BY <1>1, TopOf
<1>3. Top(1 .. k) >= k /\ Top(1 .. k) <= k /\ Top(1 .. k) \in Int
  BY <1>1, <1>2
<1>4. Top(1 .. k) = k
  <2> DEFINE t == Top(1 .. k)
  <2> HIDE DEF t
  <2>1. t >= k /\ t <= k /\ t \in Int
    BY <1>3 DEF t
  <2>2. t = k
    BY <2>1
  <2>3. QED
    BY <2>2 DEF t
<1>5. QED
  BY <1>1, <1>4

\* The recursive function in the definition of a fold: F says what a step makes of
\* a value at a place.
FoldsTo(it, n, b, F) ==
    \A s \in SUBSET (1 .. n) :
       it[s] = IF s = {} THEN b ELSE F[<<it[s \ {Top(s)}], Top(s)>>]

\* It exists, if a step never leaves T.
LEMMA FoldExists ==
  ASSUME NEW n \in Nat, NEW T, NEW b \in T, NEW F \in [T \X (1 .. n) -> T]
  PROVE  \E it \in [SUBSET (1 .. n) -> T] : FoldsTo(it, n, b, F)
<1> DEFINE Fits(k, h) ==
              \A s \in SUBSET (1 .. k) :
                 h[s] = IF s = {} THEN b ELSE F[<<h[s \ {Top(s)}], Top(s)>>]
           S == {k \in 0 .. n : \E h \in [SUBSET (1 .. k) -> T] : Fits(k, h)}
<1>1. 0 \in S
  <2> DEFINE h == [s \in SUBSET (1 .. 0) |-> b]
  <2>1. h \in [SUBSET (1 .. 0) -> T]
    OBVIOUS
  <2>2. \A s \in SUBSET (1 .. 0) : s = {}
    OBVIOUS
  <2>3. Fits(0, h)
    BY <2>2
  <2> HIDE DEF h, Fits
  <2>4. \E g \in [SUBSET (1 .. 0) -> T] : Fits(0, g)
    BY <2>1, <2>3
  <2>5. 0 \in 0 .. n
    OBVIOUS
  <2>6. QED
    BY <2>4, <2>5
<1>2. ASSUME NEW k \in 1 .. n, k - 1 \in S
      PROVE  k \in S
  <2>1. PICK h \in [SUBSET (1 .. k - 1) -> T] : Fits(k - 1, h)
    BY <1>2
  <2> DEFINE g == [s \in SUBSET (1 .. k) |->
                      IF k \notin s THEN h[s] ELSE F[<<h[s \ {k}], k>>]]
  <2>2. \A s \in SUBSET (1 .. k) : s \ {k} \in SUBSET (1 .. k - 1)
    OBVIOUS
  <2>3. \A s \in SUBSET (1 .. k) : k \notin s => s \in SUBSET (1 .. k - 1)
    OBVIOUS
  <2>4. \A s \in SUBSET (1 .. k) : k \in s => Top(s) = k
    <3> SUFFICES ASSUME NEW s \in SUBSET (1 .. k), k \in s
                 PROVE  Top(s) = k
      OBVIOUS
    <3>1. Top(s) \in s /\ \A y \in s : Top(s) >= y
      <4>1. k \in Nat /\ s # {}
        OBVIOUS
      <4>2. QED
        BY <4>1, TopOf
    <3> DEFINE t == Top(s)
    <3> HIDE DEF t
    <3>2. t \in 1 .. k /\ t >= k
      BY <3>1 DEF t
    <3>3. t = k
      BY <3>2
    <3>4. QED
      BY <3>3 DEF t
  <2>5. g \in [SUBSET (1 .. k) -> T]
    <3>1. ASSUME NEW s \in SUBSET (1 .. k)
          PROVE  (IF k \notin s THEN h[s] ELSE F[<<h[s \ {k}], k>>]) \in T
      <4>1. CASE k \notin s
        BY <2>1, <2>3, <4>1
      <4>2. CASE k \in s
        <5>1. h[s \ {k}] \in T
          BY <2>1, <2>2
        <5>2. <<h[s \ {k}], k>> \in T \X (1 .. n)
          BY <5>1
        <5>3. QED
          BY <4>2, <5>2
      <4>3. QED
        BY <4>1, <4>2
    <3>2. QED
      BY <3>1
  <2>6. Fits(k, g)
    <3> SUFFICES ASSUME NEW s \in SUBSET (1 .. k)
                 PROVE  g[s] = IF s = {} THEN b ELSE F[<<g[s \ {Top(s)}], Top(s)>>]
      OBVIOUS
    <3>1. CASE k \notin s
      <4>1. s \in SUBSET (1 .. k - 1) /\ g[s] = h[s]
        BY <2>3, <3>1
      <4>2. CASE s = {}
        BY <2>1, <4>1, <4>2
      <4>3. CASE s # {}
        <5>1. s \ {Top(s)} \in SUBSET (1 .. k - 1) /\ k \notin s \ {Top(s)}
              /\ s \ {Top(s)} \in SUBSET (1 .. k)
          BY <4>1, <3>1
        <5>2. g[s \ {Top(s)}] = h[s \ {Top(s)}]
          BY <5>1
        <5>3. h[s] = F[<<h[s \ {Top(s)}], Top(s)>>]
          BY <2>1, <4>1, <4>3
        <5>4. QED
          BY <4>1, <4>3, <5>2, <5>3
      <4>4. QED
        BY <4>2, <4>3
    <3>2. CASE k \in s
      <4>1. Top(s) = k /\ s # {} /\ g[s] = F[<<h[s \ {k}], k>>]
        BY <2>4, <3>2
      <4>2. s \ {k} \in SUBSET (1 .. k) /\ k \notin s \ {k}
        OBVIOUS
      <4>3. g[s \ {k}] = h[s \ {k}]
        BY <4>2
      <4>4. QED
        BY <4>1, <4>3
    <3>3. QED
      BY <3>1, <3>2
  <2> HIDE DEF g, Fits
  <2>7. \E f \in [SUBSET (1 .. k) -> T] : Fits(k, f)
    BY <2>5, <2>6
  <2>8. QED
    BY <2>7
<1>3. n \in S
  <2> HIDE DEF S
  <2>1. n \in 0 .. n
    OBVIOUS
  <2>2. QED
    BY <1>1, <1>2, <2>1, UpTo
<1>4. QED
  BY <1>3 DEF FoldsTo

-----------------------------------------------------------------------------
(* Channels. *)

\* A channel whose requests are of one kind and its responses of another.
ChannelOf(S, R) == [RQ : Seq(S), WQ : Seq(S), PQ : Seq(S), returned : Seq(R)]

\* One queue of a channel is assigned, or its responses are.
LEMMA QueueAssigned ==
  ASSUME NEW S, NEW R, NEW c \in ChannelOf(S, R), NEW q \in RequestQueues,
         NEW s \in Seq(S)
  PROVE  /\ [c EXCEPT ![q] = s] \in ChannelOf(S, R)
         /\ \A p \in RequestQueues : [c EXCEPT ![q] = s][p] = IF p = q THEN s ELSE c[p]
         /\ [c EXCEPT ![q] = s].returned = c.returned
         /\ c[q] \in Seq(S)
BY DEF ChannelOf, RequestQueues

\* The same for the queue of answers.
LEMMA ReturnedAssigned ==
  ASSUME NEW S, NEW R, NEW c \in ChannelOf(S, R), NEW s \in Seq(R)
  PROVE  /\ [c EXCEPT !.returned = s] \in ChannelOf(S, R)
         /\ \A p \in RequestQueues : [c EXCEPT !.returned = s][p] = c[p]
         /\ [c EXCEPT !.returned = s].returned = s
         /\ c.returned \in Seq(R)
BY DEF ChannelOf, RequestQueues

\* A request put at the end of a queue leaves the rest of the channel alone.
LEMMA Pushed ==
  ASSUME NEW S, NEW R, NEW c \in ChannelOf(S, R), NEW q \in RequestQueues, NEW x \in S
  PROVE  /\ Push(c, q, x) \in ChannelOf(S, R)
         /\ \A p \in RequestQueues :
               Push(c, q, x)[p] = IF p = q THEN Append(c[q], x) ELSE c[p]
         /\ Push(c, q, x).returned = c.returned
         /\ c[q] \in Seq(S)
<1> DEFINE s == Append(c[q], x)
<1>1. c[q] \in Seq(S) /\ s \in Seq(S)
  BY AppendProperties DEF ChannelOf, RequestQueues
<1>2. Push(c, q, x) = [c EXCEPT ![q] = s]
  BY DEF Push
<1> HIDE DEF s
<1>3. /\ Push(c, q, x) \in ChannelOf(S, R)
      /\ \A p \in RequestQueues : Push(c, q, x)[p] = IF p = q THEN s ELSE c[p]
      /\ Push(c, q, x).returned = c.returned
  BY <1>1, <1>2 DEF ChannelOf, RequestQueues
<1>4. QED
  BY <1>1, <1>3 DEF s

\* So does a request taken from its front,
LEMMA Popped ==
  ASSUME NEW S, NEW R, NEW c \in ChannelOf(S, R), NEW q \in RequestQueues, c[q] # << >>
  PROVE  /\ Pop(c, q) \in ChannelOf(S, R)
         /\ \A p \in RequestQueues : Pop(c, q)[p] = IF p = q THEN Tail(c[q]) ELSE c[p]
         /\ Pop(c, q).returned = c.returned
         /\ c[q] \in Seq(S)
<1>1. c[q] \in Seq(S)
  BY DEF ChannelOf, RequestQueues
<1> DEFINE s == Tail(c[q])
<1>2. s \in Seq(S)
  BY <1>1, HeadTailProperties
<1>3. Pop(c, q) = [c EXCEPT ![q] = s]
  BY DEF Pop
<1> HIDE DEF s
<1>4. /\ Pop(c, q) \in ChannelOf(S, R)
      /\ \A p \in RequestQueues : Pop(c, q)[p] = IF p = q THEN s ELSE c[p]
      /\ Pop(c, q).returned = c.returned
  BY <1>2, <1>3 DEF ChannelOf, RequestQueues
<1>5. QED
  BY <1>1, <1>4 DEF s

\* an answer put at the end of the answers,
LEMMA Answered ==
  ASSUME NEW S, NEW R, NEW c \in ChannelOf(S, R), NEW x \in R
  PROVE  /\ Push(c, "returned", x) \in ChannelOf(S, R)
         /\ \A p \in RequestQueues : Push(c, "returned", x)[p] = c[p]
         /\ Push(c, "returned", x).returned = Append(c.returned, x)
         /\ c.returned \in Seq(R)
<1> DEFINE s == Append(c.returned, x)
<1>1. c.returned \in Seq(R) /\ s \in Seq(R)
  BY AppendProperties DEF ChannelOf
<1>2. Push(c, "returned", x) = [c EXCEPT !.returned = s]
  BY DEF Push
<1> HIDE DEF s
<1>3. /\ Push(c, "returned", x) \in ChannelOf(S, R)
      /\ \A p \in RequestQueues : Push(c, "returned", x)[p] = c[p]
      /\ Push(c, "returned", x).returned = s
  BY <1>1, <1>2 DEF ChannelOf, RequestQueues
<1>4. QED
  BY <1>1, <1>3 DEF s

\* and an answer taken from their front.
LEMMA AnswerRead ==
  ASSUME NEW S, NEW R, NEW c \in ChannelOf(S, R), c.returned # << >>
  PROVE  /\ Pop(c, "returned") \in ChannelOf(S, R)
         /\ \A p \in RequestQueues : Pop(c, "returned")[p] = c[p]
         /\ Pop(c, "returned").returned = Tail(c.returned)
         /\ c.returned \in Seq(R)
<1>1. c.returned \in Seq(R)
  BY DEF ChannelOf
<1> DEFINE s == Tail(c.returned)
<1>2. s \in Seq(R)
  BY <1>1, HeadTailProperties
<1>3. Pop(c, "returned") = [c EXCEPT !.returned = s]
  BY DEF Pop
<1> HIDE DEF s
<1>4. /\ Pop(c, "returned") \in ChannelOf(S, R)
      /\ \A p \in RequestQueues : Pop(c, "returned")[p] = c[p]
      /\ Pop(c, "returned").returned = s
  BY <1>2, <1>3 DEF ChannelOf, RequestQueues
<1>5. QED
  BY <1>1, <1>4 DEF s

-----------------------------------------------------------------------------
(* The tables of msl/lru_table.h. *)

OncePerTag(table) == \A i, j \in 1 .. Len(table) : table[i].tag = table[j].tag => i = j

\* A sequence without one of its entries.
LEMMA Removed ==
  ASSUME NEW T, NEW s \in Seq(T), NEW k \in 1 .. Len(s)
  PROVE  /\ RemoveAt(s, k) \in Seq(T)
         /\ Len(RemoveAt(s, k)) = Len(s) - 1
         /\ \A i \in 1 .. Len(s) - 1 :
               RemoveAt(s, k)[i] = IF i < k THEN s[i] ELSE s[i + 1]
<1> DEFINE n == Len(s)
           a == SubSeq(s, 1, k - 1)
           b == SubSeq(s, k + 1, n)
<1>1. n \in Nat /\ \A i \in 1 .. n : s[i] \in T
  BY LenProperties
<1>2. /\ a \in Seq(T) /\ Len(a) = k - 1
      /\ \A i \in 1 .. k - 1 : a[i] = s[i]
  <2>1. 1 \in Int /\ k - 1 \in Int /\ \A i \in 1 .. k - 1 : s[i] \in T
    BY <1>1
  <2>2. /\ a \in Seq(T) /\ Len(a) = (IF 1 <= k - 1 THEN (k - 1) - 1 + 1 ELSE 0)
        /\ \A i \in 1 .. (k - 1) - 1 + 1 : a[i] = s[1 + i - 1]
    BY <2>1, SubSeqProperties
  <2> HIDE DEF a
  <2>3. QED
    BY <1>1, <2>2
<1>3. /\ b \in Seq(T) /\ Len(b) = n - k
      /\ \A i \in 1 .. n - k : b[i] = s[k + i]
  <2>1. k + 1 \in Int /\ n \in Int /\ \A i \in k + 1 .. n : s[i] \in T
    BY <1>1
  <2>2. /\ b \in Seq(T) /\ Len(b) = (IF k + 1 <= n THEN n - (k + 1) + 1 ELSE 0)
        /\ \A i \in 1 .. n - (k + 1) + 1 : b[i] = s[(k + 1) + i - 1]
    BY <2>1, SubSeqProperties
  <2>3. n \in Nat /\ k \in 1 .. n
    BY <1>1
  <2> HIDE DEF b, n
  <2>4. /\ n - (k + 1) + 1 = n - k /\ \A i \in 1 .. n - k : (k + 1) + i - 1 = k + i
        /\ ~(k + 1 <= n) => n - k = 0
    BY <2>3
  <2>5. Len(b) = n - k
    BY <2>2, <2>4
  <2>6. QED
    BY <2>2, <2>4, <2>5
<1>4. RemoveAt(s, k) = a \o b
  BY DEF RemoveAt
<1> HIDE DEF a, b, n
<1>5. /\ a \o b \in Seq(T) /\ Len(a \o b) = (k - 1) + (n - k)
      /\ \A i \in 1 .. (k - 1) + (n - k) :
            (a \o b)[i] = IF i <= k - 1 THEN a[i] ELSE b[i - (k - 1)]
  <2>1. /\ a \o b \in Seq(T) /\ Len(a \o b) = Len(a) + Len(b)
        /\ \A i \in 1 .. Len(a) + Len(b) :
              (a \o b)[i] = IF i <= Len(a) THEN a[i] ELSE b[i - Len(a)]
    <3>1. a \in Seq(T) /\ b \in Seq(T)
      BY <1>2, <1>3
    <3>2. QED
      BY <3>1, ConcatProperties
  <2>2. QED
    BY <2>1, <1>2, <1>3
<1>6. (k - 1) + (n - k) = n - 1 /\ k \in 1 .. n
  BY <1>1 DEF n
<1>7. ASSUME NEW i \in 1 .. n - 1
      PROVE  (a \o b)[i] = IF i < k THEN s[i] ELSE s[i + 1]
  <2>1. CASE i < k
    BY <2>1, <1>1, <1>2, <1>5, <1>6
  <2>2. CASE ~(i < k)
    <3>1. i - (k - 1) \in 1 .. n - k /\ k + (i - (k - 1)) = i + 1 /\ ~(i <= k - 1)
      BY <2>2, <1>1, <1>6
    <3>2. (a \o b)[i] = b[i - (k - 1)]
      BY <1>5, <1>6, <3>1
    <3>3. QED
      BY <2>2, <1>3, <3>1, <3>2
  <2>3. QED
    BY <2>1, <2>2
<1>8. QED
  BY <1>4, <1>5, <1>6, <1>7 DEF n

\* The place of a tag.
LEMMA PlaceOfTag ==
  ASSUME NEW T, NEW table \in Seq(T), NEW tag, tag \in Tags(table)
  PROVE  PlaceOf(table, tag) \in 1 .. Len(table) /\ table[PlaceOf(table, tag)].tag = tag
<1>1. DOMAIN table = 1 .. Len(table)
  BY LenProperties
<1>2. \E i \in DOMAIN table : table[i].tag = tag
  BY DEF Tags
<1>3. QED
  BY <1>1, <1>2 DEF PlaceOf

\* A table without a tag.
LEMMA WithoutTag ==
  ASSUME NEW T, NEW table \in Seq(T), OncePerTag(table), NEW tag
  PROVE  /\ Without(table, tag) \in Seq(T)
         /\ OncePerTag(Without(table, tag))
         /\ \A i \in 1 .. Len(Without(table, tag)) :
               /\ Without(table, tag)[i].tag # tag
               /\ \E j \in 1 .. Len(table) : Without(table, tag)[i] = table[j]
         /\ Len(Without(table, tag)) = Len(table) - One(tag \in Tags(table))
<1>1. Len(table) \in Nat /\ DOMAIN table = 1 .. Len(table)
  BY LenProperties
<1>2. CASE tag \notin Tags(table)
  <2>1. Without(table, tag) = table
    BY <1>2 DEF Without
  <2>2. \A i \in 1 .. Len(table) : table[i].tag # tag
    BY <1>1, <1>2 DEF Tags
  <2>3. One(tag \in Tags(table)) = 0
    BY <1>2 DEF One
  <2>4. QED
    BY <1>1, <2>1, <2>2, <2>3
<1>3. CASE tag \in Tags(table)
  <2> DEFINE k == PlaceOf(table, tag)
             r == RemoveAt(table, k)
  <2>1. k \in 1 .. Len(table) /\ table[k].tag = tag
    BY <1>3, PlaceOfTag
  <2>2. Without(table, tag) = r
    BY <1>3 DEF Without
  <2>3. One(tag \in Tags(table)) = 1
    BY <1>3 DEF One
  <2> HIDE DEF k
  <2>4. /\ r \in Seq(T) /\ Len(r) = Len(table) - 1
        /\ \A i \in 1 .. Len(table) - 1 : r[i] = IF i < k THEN table[i] ELSE table[i + 1]
    BY <2>1, Removed
  <2> HIDE DEF r
  <2> DEFINE At(i) == IF i < k THEN i ELSE i + 1
  <2>5. ASSUME NEW i \in 1 .. Len(r)
        PROVE  At(i) \in 1 .. Len(table) /\ At(i) # k /\ r[i] = table[At(i)]
    <3>1. i \in 1 .. Len(table) - 1 /\ i \in Int /\ k \in Int
      BY <1>1, <2>1, <2>4
    <3>2. CASE i < k
      BY <1>1, <2>1, <2>4, <3>1, <3>2
    <3>3. CASE ~(i < k)
      BY <1>1, <2>1, <2>4, <3>1, <3>3
    <3>4. QED
      BY <3>2, <3>3
  <2>6. ASSUME NEW i \in 1 .. Len(r), NEW j \in 1 .. Len(r), At(i) = At(j)
        PROVE  i = j
    <3>1. i \in Int /\ j \in Int /\ k \in Int
      BY <1>1, <2>1, <2>4
    <3>2. QED
      BY <2>6, <3>1
  <2> HIDE DEF At
  <2>7. OncePerTag(r)
    <3> SUFFICES ASSUME NEW i \in 1 .. Len(r), NEW j \in 1 .. Len(r), r[i].tag = r[j].tag
                 PROVE  i = j
      BY DEF OncePerTag
    <3>1. /\ At(i) \in 1 .. Len(table) /\ At(j) \in 1 .. Len(table)
          /\ table[At(i)].tag = table[At(j)].tag
      BY <2>5
    <3>2. At(i) = At(j)
      BY <3>1 DEF OncePerTag
    <3>3. QED
      BY <3>2, <2>6
  <2>8. \A i \in 1 .. Len(r) : r[i].tag # tag
    BY <2>1, <2>5 DEF OncePerTag
  <2>9. QED
    BY <2>2, <2>3, <2>4, <2>5, <2>7, <2>8
<1>4. QED
  BY <1>2, <1>3

\* A new tag is put at the end.
LEMMA OncePerTagAppend ==
  ASSUME NEW T, NEW table \in Seq(T), OncePerTag(table), NEW e \in T,
         \A i \in 1 .. Len(table) : table[i].tag # e.tag
  PROVE  OncePerTag(Append(table, e))
<1> DEFINE r == Append(table, e)
           n == Len(table)
<1>1. /\ r \in Seq(T) /\ Len(r) = n + 1 /\ n \in Nat
      /\ \A i \in 1 .. n : r[i] = table[i]
      /\ r[n + 1] = e
  BY AppendProperties, LenProperties
<1> HIDE DEF r
<1>2. \A i \in 1 .. n + 1 : i \in 1 .. n \/ i = n + 1
  BY <1>1
<1>3. QED
  BY <1>1, <1>2 DEF OncePerTag, r

\* A use keeps the entries of a table.
LEMMA UsedTable ==
  ASSUME NEW T, NEW table \in Seq(T), OncePerTag(table), NEW tag
  PROVE  LET r == check_hit(table, tag)
         IN  /\ r \in Seq(T) /\ OncePerTag(r) /\ Len(r) = Len(table)
             /\ \A i \in 1 .. Len(r) : \E j \in 1 .. Len(table) : r[i] = table[j]
<1>1. Len(table) \in Nat /\ \A i \in 1 .. Len(table) : table[i] \in T
  BY LenProperties
<1>2. CASE tag \notin Tags(table)
  <2>1. check_hit(table, tag) = table
    BY <1>2 DEF check_hit
  <2>2. QED
    BY <2>1
<1>3. CASE tag \in Tags(table)
  <2> DEFINE w == Without(table, tag)
             k == PlaceOf(table, tag)
             e == table[k]
             r == Append(w, e)
  <2>1. check_hit(table, tag) = r
    BY <1>3 DEF check_hit, EntryOf
  <2>2. k \in 1 .. Len(table) /\ e.tag = tag /\ e \in T
    BY <1>1, <1>3, PlaceOfTag
  <2>3. One(tag \in Tags(table)) = 1
    BY <1>3 DEF One
  <2>4. /\ w \in Seq(T) /\ OncePerTag(w) /\ Len(w) = Len(table) - 1
        /\ \A i \in 1 .. Len(w) : /\ w[i].tag # tag
                                  /\ \E j \in 1 .. Len(table) : w[i] = table[j]
    BY <2>3, WithoutTag
  <2> HIDE DEF w, e
  <2>5. OncePerTag(r)
    BY <2>2, <2>4, OncePerTagAppend
  <2>6. /\ r \in Seq(T) /\ Len(r) = Len(w) + 1
        /\ \A i \in 1 .. Len(w) : r[i] = w[i]
        /\ r[Len(w) + 1] = e
    BY <2>2, <2>4, AppendProperties
  <2> HIDE DEF r
  <2>7. \A i \in 1 .. Len(r) : \E j \in 1 .. Len(table) : r[i] = table[j]
    <3>1. \A i \in 1 .. Len(w) + 1 : i \in 1 .. Len(w) \/ i = Len(w) + 1
      BY <1>1, <2>4
    <3>2. QED
      BY <2>2, <2>4, <2>6, <3>1 DEF e
  <2>8. Len(r) = Len(table)
    BY <1>1, <2>4, <2>6
  <2>9. QED
    BY <2>1, <2>5, <2>6, <2>7, <2>8
<1>4. QED
  BY <1>2, <1>3

\* A fill keeps the number of entries within the ways.
LEMMA FilledTable ==
  ASSUME NEW T, NEW table \in Seq(T), OncePerTag(table), NEW ways \in Nat, Len(table) <= ways,
         NEW e \in T
  PROVE  LET r == fill(table, ways, e)
         IN  /\ r \in Seq(T) /\ OncePerTag(r) /\ Len(r) <= ways
             /\ \A i \in 1 .. Len(r) : r[i] = e \/ \E j \in 1 .. Len(table) : r[i] = table[j]
<1>1. Len(table) \in Nat
  BY LenProperties
<1>2. CASE ways = 0
  <2>1. fill(table, ways, e) = table
    BY <1>2 DEF fill
  <2>2. QED
    BY <2>1
<1>3. CASE ways # 0
  <2> DEFINE w == Without(table, e.tag)
             u == IF Len(w) = ways THEN Tail(w) ELSE w
             r == Append(u, e)
  <2>1. fill(table, ways, e) = r
    BY <1>3 DEF fill
  <2>2. /\ w \in Seq(T) /\ OncePerTag(w) /\ Len(w) <= ways /\ Len(w) \in Nat
        /\ \A i \in 1 .. Len(w) : /\ w[i].tag # e.tag
                                  /\ \E j \in 1 .. Len(table) : w[i] = table[j]
    <3>1. One(e.tag \in Tags(table)) \in {0, 1}
      BY DEF One
    <3>2. Len(w) = Len(table) - One(e.tag \in Tags(table)) /\ w \in Seq(T)
      BY WithoutTag
    <3>3. Len(w) <= ways /\ Len(w) \in Nat
      <4>1. Len(w) \in Nat
        BY <3>2, LenProperties
      <4> HIDE DEF w
      <4>2. QED
        BY <4>1, <3>1, <3>2, <1>1
    <3>4. QED
      BY <3>2, <3>3, WithoutTag
  <2> HIDE DEF w
  <2>3. /\ u \in Seq(T) /\ OncePerTag(u) /\ Len(u) <= ways - 1
        /\ \A i \in 1 .. Len(u) : /\ u[i].tag # e.tag
                                  /\ \E j \in 1 .. Len(table) : u[i] = table[j]
    <3>1. CASE Len(w) = ways
      <4>1. w # << >> /\ u = Tail(w)
        BY <3>1, <1>3
      <4>2. u \in Seq(T) /\ Len(u) = Len(w) - 1 /\ \A i \in 1 .. Len(w) - 1 : u[i] = w[i + 1]
        BY <2>2, <4>1, CountTail
      <4> HIDE DEF u
      <4>3. \A i \in 1 .. Len(u) : i + 1 \in 1 .. Len(w) /\ u[i] = w[i + 1] /\ i \in Int
        BY <2>2, <4>2
      <4>4. \A i, j \in 1 .. Len(u) : i + 1 = j + 1 => i = j
        BY <4>3
      <4>5. OncePerTag(u)
        <5> SUFFICES ASSUME NEW i \in 1 .. Len(u), NEW j \in 1 .. Len(u), u[i].tag = u[j].tag
                     PROVE  i = j
          BY DEF OncePerTag
        <5>1. i + 1 \in 1 .. Len(w) /\ j + 1 \in 1 .. Len(w) /\ w[i + 1].tag = w[j + 1].tag
          BY <4>3
        <5>2. i + 1 = j + 1
          BY <5>1, <2>2 DEF OncePerTag
        <5>3. QED
          BY <5>2, <4>4
      <4>6. Len(u) <= ways - 1
        BY <2>2, <3>1, <4>2
      <4>7. ASSUME NEW i \in 1 .. Len(u)
            PROVE  u[i].tag # e.tag /\ \E j \in 1 .. Len(table) : u[i] = table[j]
        <5>1. i + 1 \in 1 .. Len(w) /\ u[i] = w[i + 1]
          BY <4>3
        <5>2. QED
          BY <5>1, <2>2
      <4>8. u \in Seq(T)
        BY <4>2
      <4>9. QED
        BY <4>5, <4>6, <4>7, <4>8
    <3>2. CASE Len(w) # ways
      <4>1. u = w /\ Len(w) <= ways - 1
        BY <3>2, <2>2
      <4>2. QED
        BY <2>2, <4>1
    <3>3. QED
      BY <3>1, <3>2
  <2> HIDE DEF u
  <2>4. OncePerTag(r)
    BY <2>3, OncePerTagAppend
  <2>5. /\ r \in Seq(T) /\ Len(r) = Len(u) + 1 /\ Len(u) \in Nat
        /\ \A i \in 1 .. Len(u) : r[i] = u[i]
        /\ r[Len(u) + 1] = e
    BY <2>3, AppendProperties, LenProperties
  <2> HIDE DEF r
  <2>6. \A i \in 1 .. Len(r) : r[i] = e \/ \E j \in 1 .. Len(table) : r[i] = table[j]
    <3>1. \A i \in 1 .. Len(u) + 1 : i \in 1 .. Len(u) \/ i = Len(u) + 1
      BY <2>5
    <3>2. QED
      BY <2>3, <2>5, <3>1
  <2>7. Len(r) <= ways
    BY <2>3, <2>5
  <2>8. QED
    BY <2>1, <2>4, <2>5, <2>6, <2>7
<1>4. QED
  BY <1>2, <1>3

\* Tags of their own are as many as the entries.
LEMMA TagsCounted ==
  ASSUME NEW T, NEW table \in Seq(T), OncePerTag(table)
  PROVE  Cardinality(Tags(table)) = Len(table)
<1> DEFINE n == Len(table)
           f == [i \in 1 .. n |-> table[i].tag]
<1>1. n \in Nat /\ DOMAIN table = 1 .. n
  BY LenProperties
<1>2. f \in [1 .. n -> Tags(table)]
  BY <1>1 DEF Tags
<1>3. \A a, b \in 1 .. n : f[a] = f[b] => a = b
  BY DEF OncePerTag
<1>4. \A t \in Tags(table) : \E a \in 1 .. n : f[a] = t
  BY <1>1 DEF Tags
<1> HIDE DEF f, n
<1>5. f \in Bijection(1 .. n, Tags(table))
  BY <1>2, <1>3, <1>4 DEF Bijection, Injection, Surjection, IsInjective
<1>6. ExistsBijection(1 .. n, Tags(table))
  BY <1>5 DEF ExistsBijection
<1>7. QED
  BY <1>1, <1>6, FS_CountingElements DEF n

-----------------------------------------------------------------------------
(* Spans. *)

\* A set of places that has with each the places before it is a first part.
LEMMA FirstPart ==
  ASSUME NEW n \in Nat, NEW D \in SUBSET (1 .. n), \A k \in D : \A i \in 1 .. k : i \in D
  PROVE  Cardinality(D) \in 0 .. n /\ D = 1 .. Cardinality(D)
<1>1. CASE D = {}
  <2>1. Cardinality(D) = 0 /\ 1 .. 0 = {}
    BY <1>1, FS_EmptySet
  <2>2. QED
    BY <1>1, <2>1
<1>2. CASE D # {}
  <2>1. Top(D) \in D /\ \A y \in D : Top(D) >= y
    BY <1>2, TopOf
  <2>2. Top(D) \in 1 .. n /\ \A y \in D : y \in 1 .. Top(D)
    <3>1. Top(D) \in 1 .. n
      BY <2>1
    <3> HIDE DEF Top
    <3>2. \A y \in D : y \in 1 .. n /\ Top(D) >= y
      BY <2>1
    <3>3. QED
      BY <3>1, <3>2
  <2>3. D = 1 .. Top(D)
    BY <2>1, <2>2
  <2>4. Cardinality(1 .. Top(D)) = Top(D)
    BY <2>2, FirstNumbers
  <2>5. QED
    BY <2>2, <2>3, <2>4
<1>3. QED
  BY <1>1, <1>2
=============================================================================
